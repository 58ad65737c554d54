------------------------------ MODULE Gateway ------------------------------
(***************************************************************************)
(* Requests of devices and customers to kfc-order and kfc-loyalty: the     *)
(* route table with its middleware (server.go, middleware), the two kinds  *)
(* of JWT (pkg/jwt), kiosk and web orders from the token to the order      *)
(* (orderService), the kitchen (UpdateFromKitchen), a customer's visit to  *)
(* a kiosk (IdentifyAtKiosk) and what each reader is shown (domain).       *)
(*                                                                         *)
(* A request goes in steps: middleware and the checks of its tokens, then  *)
(* each call that changes or reads another service.  A client may send any *)
(* token that was ever issued, so an expired one or one of another kind.   *)
(* Left to other modules: pairing and the life of the entry of a revoked   *)
(* device (DevicePairing), sign-in (SignIn, Sessions), the points of a     *)
(* retried checkout (Checkout), the age of the menu (MenuCache), delivery  *)
(* to a stream (LiveScreens).  Requests that a rate limit turns away have  *)
(* no effect, nor have those with a malformed body.                        *)
(***************************************************************************)
EXTENDS PriceCart, SequencesExt

CONSTANTS
    Kiosks, Kitchens, Displays,     \* the devices of each type
    RestaurantOf,                   \* the restaurant of a device
    Members,                        \* loyalty members
    Nobody,                         \* no member, no device, no token
    Menus,                          \* the menu of each restaurant, as it changes
    Carts, Points, Taps,            \* what may be ordered, redeem_points, status
    Requests,                       \* requests in flight
    DeviceTTL, AccessTTL, KioskTTL, CodeTTL,
    MaxNow,                         \* bound: how far the clock runs
    MaxTokens,                      \* bound: tokens that exist
    MaxRevoked,                     \* bound: devices that are revoked
    MaxOrders                       \* bound: orders that are begun

Devices == Kiosks \union Kitchens \union Displays
Restaurants == {RestaurantOf[d] : d \in Devices}

ASSUME GatewayAssumption ==
    /\ Kiosks \intersect Kitchens = {} /\ (Kiosks \union Kitchens) \intersect Displays = {}
    /\ DOMAIN RestaurantOf = Devices
    /\ Nobody \notin Devices \union Members /\ Members \intersect Devices = {}
    /\ {DeviceTTL, AccessTTL, KioskTTL, CodeTTL} \subseteq Nat \ {0}
    /\ {MaxNow, MaxTokens, MaxRevoked, MaxOrders} \subseteq Nat
    /\ Len(Menus) \in Nat \ {0}
    /\ \A v \in 1..Len(Menus) : \A i \in DOMAIN Menus[v] : ItemOK(Menus[v][i])
    /\ Points \subseteq Int

\* A subtotal is a number of kopecks below 2^32.
ASSUME SubtotalAssumption ==
    \A v \in 1..Len(Menus), c \in Carts :
        CartOK(Menus[v], c) => Subtotal(Menus[v], c) \in 0..Int32Span - 1

VARIABLES
    now,
    tokens,         \* every JWT that was issued
    revoked,        \* devices with a key revoked:device:{id}
    menu,           \* which menu is in force in CRM
    code,           \* kfc-loyalty: until when a member's code is good
    orders,         \* kfc-order
    request,        \* the requests in flight
    answer          \* the answer to the last request: to whom, and what it shows

vars == <<now, tokens, revoked, menu, code, orders, request, answer>>

----------------------------------------------------------------------------
(* Tokens.                                                                 *)

\* by is the secret that signed it; Config.Validate refuses to start with
\* equal secrets.  aud is "" in a device token.
Token(by, aud, member, device, exp) ==
    [by |-> by, aud |-> aud, member |-> member, device |-> device, exp |-> exp]

\* jwt.Parse: the signature, the expiry and, if one is asked for, the audience.
Parses(t, by, auds) == t.by = by /\ t.aud \in auds /\ now < t.exp

\* CustomerTokenManager.parse.
ParseCustomer(t, aud) == Parses(t, "customer", {aud})

VerifyAccess(t) == ParseCustomer(t, "kfc-customer") /\ t.member # Nobody
VerifyKioskSession(t) ==
    ParseCustomer(t, "kfc-kiosk-loyalty") /\ t.member # Nobody /\ t.device # Nobody

\* DeviceTokenManager.Verify asks for no audience.
VerifyDevice(t) ==
    Parses(t, "device", {"", "kfc-customer", "kfc-kiosk-loyalty"}) /\ t.device # Nobody

IssueDevice(d, exp) == Token("device", "", Nobody, d, exp)
IssueAccess(m) == Token("customer", "kfc-customer", m, Nobody, now + AccessTTL)
IssueKioskSession(m, d) == Token("customer", "kfc-kiosk-loyalty", m, d, now + KioskTTL)

NoToken == Token("", "", Nobody, Nobody, 0)

----------------------------------------------------------------------------
(* The route table.                                                        *)

Route(path, checks) == [use |-> FALSE, path |-> path, checks |-> checks]
Group(path, checks) == [use |-> TRUE, path |-> path, checks |-> checks]

Auth == << Route(<<"customer", "auth", "code">>, {}),
           Route(<<"customer", "auth", "verify">>, {}),
           Route(<<"customer", "auth", "refresh">>, {}),
           Route(<<"customer", "auth", "logout">>, {}) >>

Public == << Route(<<"devices", "pair">>, {}),
             Route(<<"restaurants", "id", "menu">>, {}),
             Route(<<"restaurants", "id", "menu", "stream">>, {}),
             Route(<<"public", "regions">>, {}),
             Route(<<"public", "restaurants">>, {}),
             Route(<<"public", "restaurants", "id">>, {}),
             Route(<<"public", "orders", "id">>, {}),
             Route(<<"public", "loyalty", "program">>, {}),
             Route(<<"public", "orders", "id", "stream">>, {}) >>

\* The checks of a group apply to every path below its prefix.
Customer == << Group(<<"customer">>, {"customer"}),
               Route(<<"customer", "me">>, {}),
               Route(<<"customer", "me", "points">>, {}),
               Route(<<"customer", "me", "code">>, {}),
               Route(<<"customer", "me", "orders">>, {}),
               Route(<<"customer", "restaurants", "id", "orders">>, {}) >>

Device == << Route(<<"devices", "me">>, {"device"}),
             Route(<<"kiosk", "orders">>, {"device", "kiosk"}),
             Route(<<"kiosk", "loyalty", "identify">>, {"device", "kiosk"}),
             Route(<<"kitchen", "orders">>, {"device", "kds"}),
             Route(<<"kitchen", "orders", "id", "status">>, {"device", "kds"}),
             Route(<<"display", "orders">>, {"device", "display"}),
             Route(<<"device", "orders", "stream">>, {"device", "screens"}) >>

\* Mutant: the group of the signed-in routes is registered before sign-in.
RoutesGroupFirst == Public \o Customer \o Auth \o Device

\* registerRoutes, in its order.  These are the paths below /api/v1: the
\* probes /health and /ready and the scrape target /metrics come before the
\* group, take no token and show nothing of orders or customers.
Routes == Public \o Auth \o Customer \o Device

Paths == {Routes[i].path : i \in {j \in 1..Len(Routes) : ~Routes[j].use}}

\* Handlers run in the order they were registered, up to the route itself.
Checks == [path \in Paths |->
    LET route == CHOOSE i \in 1..Len(Routes) : ~Routes[i].use /\ Routes[i].path = path
        Before == {i \in 1..route : Routes[i].use /\ IsPrefix(Routes[i].path, path)}
    IN  UNION {Routes[i].checks : i \in Before \union {route}}]

\* DeviceAuth, CustomerAuth and RequireDeviceType.  DeviceAuth also turns a
\* request away when Redis does not answer.
Clears(check, t) ==
    CASE check = "customer" -> VerifyAccess(t)
      [] check = "device"   -> VerifyDevice(t) /\ t.device \notin revoked
      [] check = "kiosk"    -> t.device \in Kiosks
      [] check = "kds"      -> t.device \in Kitchens
      [] check = "display"  -> t.device \in Displays
      [] check = "screens"  -> t.device \in Kitchens \union Displays

Passes(path, t) == \A check \in Checks[path] : Clears(check, t)

----------------------------------------------------------------------------
(* What readers are shown: the private fields of an order that are set.    *)

\* OrderViewFromProto.
View(o) ==
    [name   |-> o.channel = "web",  phone |-> o.channel = "web",
     device |-> o.device # Nobody,  member |-> o.member # Nobody, hold |-> o.held # 0]

ToPublic(v) == [v EXCEPT !.phone = FALSE, !.device = FALSE, !.member = FALSE, !.hold = FALSE]

ToDisplay(v) == [f \in DOMAIN v |-> FALSE]

Shown(v) == {f \in DOMAIN v : v[f]}

Answer(to, i, status, fields) == [to |-> to, order |-> i, status |-> status, fields |-> fields]
Quiet == Answer(Nobody, 0, 0, {})

----------------------------------------------------------------------------
(* Errors: mapOrderError, HTTPStatus and FromError.                        *)

ErrorOf(grpc) ==
    CASE grpc = "InvalidArgument" -> "validation"
      [] grpc = "NotFound" -> "not_found"
      [] grpc \in {"FailedPrecondition", "AlreadyExists"} -> "conflict"
      [] OTHER -> "internal"

\* Mutant: a conflict is a failed precondition.
HTTPStatusOfGrpc(type) == IF type = "validation" THEN 400 ELSE IF type = "conflict" THEN 412 ELSE 404

HTTPStatus(type) ==
    CASE type = "validation" -> 400
      [] type = "not_found" -> 404
      [] type = "conflict" -> 409
      [] OTHER -> 500

FromError(to, i, type) == Answer(to, i, HTTPStatus(type), {})

----------------------------------------------------------------------------
(* Orders.                                                                 *)

Idle == [pc |-> "idle"]

Init ==
    /\ now = 0
    /\ tokens = {IssueDevice(d, DeviceTTL) : d \in Devices}
    /\ revoked = {}
    /\ menu = 1
    /\ code = [m \in Members |-> 0]
    /\ orders = <<>>
    /\ request = [q \in Requests |-> Idle]
    /\ answer = Quiet

\* What request q ends with, and what it goes on with.
Ends(q, a) == request' = [request EXCEPT ![q] = Idle] /\ answer' = a
GoesOn(q, r) == request' = [request EXCEPT ![q] = r] /\ answer' = Quiet

\* What the terminal takes before the order is sent: the default variation
\* is "what kiosks and the website show" (price_cart_test.go).
Paid(v, cart, points) ==
    LET Shows(line) ==
            LET options == Menus[v][line.item].variations
            IN  IF options = <<>> THEN Menus[v][line.item].price
                ELSE (CHOOSE x \in ToSet(options) :
                        IF line.variation = NoVariation THEN x.default
                        ELSE x.id = line.variation).price
    IN  SumFunction([i \in 1..Len(cart) |-> Kopecks(Shows(cart[i])) * cart[i].quantity])
            - points * PointValue

\* Every item with variations has one default, and their ids tell them apart:
\* then a line means one price, on the terminal and in pickVariation.
ClearMenus ==
    \A v \in 1..Len(Menus) : \A item \in DOMAIN Menus[v] :
        LET options == Menus[v][item].variations
            I == 1..Len(options)
        IN  /\ options \in Seq(ToSet(options))
            /\ I # {} => \E i \in I : \A j \in I : options[j].default <=> i = j
            /\ \A i, j \in I : options[i].id = options[j].id => i = j

Place(q, channel, device, member, rest, cart, points, seen) ==
    /\ Len(orders) + Cardinality({p \in Requests : request[p].pc = "submit"}) < MaxOrders
    /\ GoesOn(q, [pc |-> "submit", channel |-> channel, device |-> device, member |-> member,
                  rest |-> rest, cart |-> cart, points |-> points, seen |-> seen, began |-> now])

\* Mutant: a loyalty session is good at every kiosk.
SessionAnywhere(s, d) == s = NoToken \/ VerifyKioskSession(s)

\* The session was made at this kiosk.
SessionOK(s, d) == s = NoToken \/ (VerifyKioskSession(s) /\ s.device = d)

\* The customer at the kiosk saw menu v; a terminal takes no negative amount.
PlaceKioskOrder(q, t) ==
    /\ request[q].pc = "idle"
    /\ Passes(<<"kiosk", "orders">>, t)
    /\ \E s \in tokens \union {NoToken}, v \in 1..menu, cart \in Carts, points \in Points :
           /\ SessionOK(s, t.device)
           /\ CartOK(Menus[v], cart) /\ Paid(v, cart, points) >= 0
           /\ Place(q, "kiosk", t.device, s.member, RestaurantOf[t.device], cart, points, v)
    /\ UNCHANGED <<now, tokens, revoked, menu, code, orders>>

PlaceWebOrder(q, t) ==
    /\ request[q].pc = "idle"
    /\ Passes(<<"customer", "restaurants", "id", "orders">>, t)
    /\ \E rest \in Restaurants, cart \in Carts, points \in Points :
           Place(q, "web", Nobody, t.member, rest, cart, points, 0)
    /\ UNCHANGED <<now, tokens, revoked, menu, code, orders>>

\* reservePoints: who may use points, and how many kfc-loyalty lets go.
Reserves(r, subtotal) ==
    \/ r.points = 0
    \/ /\ r.member # Nobody /\ r.points > 0
       /\ PointsHeld(r.points) > 0 /\ PointsHeld(r.points) * PointValue <= subtotal

\* What kfc-crm, kfc-loyalty and kfc-order refuse with.
Refusals == {"InvalidArgument", "NotFound", "FailedPrecondition", "AlreadyExists"}

\* What an order that is not taken is refused as: place refuses a cart, and
\* points without a member, before it asks kfc-loyalty and kfc-order.
RefusedAs(r, menuNow) ==
    IF \/ ~CartOK(menuNow, r.cart)
       \/ r.points # 0 /\ (r.member = Nobody \/ r.points < 0)
    THEN {"validation"}
    ELSE {ErrorOf(grpc) : grpc \in Refusals}

\* place: the cart is priced by the menu that is cached, one of those so far.
\* kfc-order takes no discount above the subtotal (proto/order/v1/order.proto).
Submit(q) ==
    LET r == request[q]
        to == IF r.device = Nobody THEN r.member ELSE r.device
    IN  /\ r.pc = "submit"
        /\ \E v \in 1..menu :
             LET subtotal == Subtotal(Menus[v], r.cart)
                 o == [rest |-> r.rest, channel |-> r.channel, device |-> r.device,
                       member |-> r.member, began |-> r.began, status |-> "accepted",
                       seen |-> r.seen, priced |-> v,
                       paid |-> IF r.seen = 0 THEN 0 ELSE Paid(r.seen, r.cart, r.points),
                       held |-> PointsHeld(r.points), discount |-> Discount(r.points),
                       subtotal |-> subtotal, moved |-> {}]
             IN  IF /\ CartOK(Menus[v], r.cart) /\ Reserves(r, subtotal)
                    /\ o.discount \in 0..subtotal
                 THEN /\ orders' = Append(orders, o)
                      /\ Ends(q, Answer(to, Len(orders'), 201,
                             Shown(IF r.channel = "web" THEN ToPublic(View(o)) ELSE View(o))))
                 ELSE /\ \E type \in RefusedAs(r, Menus[v]) : Ends(q, FromError(to, 0, type))
                      /\ UNCHANGED orders
        /\ UNCHANGED <<now, tokens, revoked, menu, code>>

----------------------------------------------------------------------------
(* The kitchen.                                                            *)

KitchenStatuses == {"accepted", "preparing", "ready", "completed"}

\* The body names any order, also one that does not exist.
Tap(q, t) ==
    /\ request[q].pc = "idle"
    /\ Passes(<<"kitchen", "orders", "id", "status">>, t)
    /\ \E i \in 0..Len(orders), status \in KitchenStatuses \intersect Taps :
           GoesOn(q, [pc |-> "check", device |-> t.device, order |-> i, status |-> status])
    /\ UNCHANGED <<now, tokens, revoked, menu, code, orders>>

\* Another restaurant's order: behave as if it doesn't exist.
OwnOrder(i, d) == i \in 1..Len(orders) /\ orders[i].rest = RestaurantOf[d]

\* Mutant: the order may be of any restaurant.
CheckExists(q) ==
    LET r == request[q]
    IN  /\ r.pc = "check"
        /\ IF r.order \in 1..Len(orders) THEN GoesOn(q, [r EXCEPT !.pc = "update"])
           ELSE Ends(q, FromError(r.device, 0, ErrorOf("NotFound")))
        /\ UNCHANGED <<now, tokens, revoked, menu, code, orders>>

Check(q) ==
    LET r == request[q]
    IN  /\ r.pc = "check"
        /\ IF OwnOrder(r.order, r.device) THEN GoesOn(q, [r EXCEPT !.pc = "update"])
           ELSE Ends(q, FromError(r.device, 0, ErrorOf("NotFound")))
        /\ UNCHANGED <<now, tokens, revoked, menu, code, orders>>

\* kfc-order does not move an order that is over.
Over(o) == o.status \in {"completed", "cancelled"}

Update(q) ==
    LET r == request[q]
        o == orders[r.order]
    IN  /\ r.pc = "update"
        /\ IF Over(o)
           THEN Ends(q, FromError(r.device, 0, ErrorOf("FailedPrecondition"))) /\ UNCHANGED orders
           ELSE /\ orders' = [orders EXCEPT ![r.order].status = r.status,
                                            ![r.order].moved = @ \union {r.device}]
                /\ Ends(q, Answer(r.device, r.order, 200, Shown(View(o))))
        /\ UNCHANGED <<now, tokens, revoked, menu, code>>

\* A call to another service fails or is refused there, also for what is not
\* modelled (a restaurant that CRM has closed, a member that is gone): the
\* request ends there.  Checkout has the orders that exist all the same.
Fails(q) ==
    LET r == request[q]
    IN  /\ r.pc # "idle"
        /\ \E grpc \in Refusals \union {"Unavailable"} :
               Ends(q, FromError(IF r.device = Nobody THEN r.member ELSE r.device, 0,
                                 ErrorOf(grpc)))
        /\ UNCHANGED <<now, tokens, revoked, menu, code, orders>>

----------------------------------------------------------------------------
(* Signing in, and a visit to a kiosk.                                     *)

NewToken(t) == Cardinality(tokens) < MaxTokens /\ tokens' = tokens \union {t}

\* SignIn and Sessions have what comes before.
SignsIn(m) ==
    /\ NewToken(IssueAccess(m))
    /\ answer' = Quiet
    /\ UNCHANGED <<now, revoked, menu, code, orders, request>>

\* POST /customer/me/code.
IssueKioskCode(t) ==
    /\ Passes(<<"customer", "me", "code">>, t)
    /\ code' = [code EXCEPT ![t.member] = now + CodeTTL]
    /\ answer' = Answer(t.member, 0, 200, {})
    /\ UNCHANGED <<now, tokens, revoked, menu, orders, request>>

\* The profile of a member, and what a kiosk is given of it.
Profile == [name |-> TRUE, phone |-> TRUE]

ForKiosk(p) == [p EXCEPT !.phone = FALSE]

\* The code is used up and the session signed before the program is read:
\* when that fails, the kiosk gets neither.
IdentifyAtKiosk(t, m) ==
    /\ Passes(<<"kiosk", "loyalty", "identify">>, t)
    /\ now < code[m]
    /\ code' = [code EXCEPT ![m] = 0]
    /\ \/ /\ NewToken(IssueKioskSession(m, t.device))
          /\ answer' = Answer(t.device, 0, 200, Shown(ForKiosk(Profile)))
       \/ /\ answer' = FromError(t.device, 0, ErrorOf("Unavailable"))
          /\ UNCHANGED tokens
    /\ UNCHANGED <<now, revoked, menu, orders, request>>

----------------------------------------------------------------------------
(* Readers.  A read changes nothing: these are the answers and the events  *)
(* that readers may be given in a state, one for each order they show.     *)

Orders == 1..Len(orders)

Answers(path, t, to, I, view(_)) ==
    IF Passes(path, t) THEN {Answer(to, i, 200, Shown(view(i))) : i \in I} ELSE {}

Me(t) == Answers(<<"customer", "me">>, t, t.member, {0}, LAMBDA i : Profile)

Active(d) == {i \in Orders : OwnOrder(i, d) /\ ~Over(orders[i])}

KitchenOrders(t) ==
    Answers(<<"kitchen", "orders">>, t, t.device, Active(t.device), LAMBDA i : View(orders[i]))

DisplayOrders(t) ==
    Answers(<<"display", "orders">>, t, t.device, Active(t.device),
            LAMBDA i : ToDisplay(View(orders[i])))

MyOrders(t) ==
    Answers(<<"customer", "me", "orders">>, t, t.member,
            {i \in Orders : orders[i].member = t.member}, LAMBDA i : ToPublic(View(orders[i])))

\* The tracking page, by request or by stream: whoever has the order's id.
TrackOrder ==
    Answers(<<"public", "orders", "id">>, NoToken, Nobody, Orders,
            LAMBDA i : ToPublic(View(orders[i])))

\* Mutant: every screen is sent the whole order.
SentWhole(d, o) == View(o)

\* What the stream of a device makes of an event.
Sent(d, o) == IF d \in Displays THEN ToDisplay(View(o)) ELSE View(o)

\* The middleware runs once: a stream that is open stays open for a device
\* that is revoked or whose token expires.
StreamEvents ==
    UNION {{Answer(d, i, 200, Shown(Sent(d, orders[i]))) : i \in {j \in Orders : OwnOrder(j, d)}} :
               d \in Kitchens \union Displays}

Readable ==
    {answer} \union TrackOrder \union StreamEvents
        \union UNION {Me(t) \union KitchenOrders(t) \union DisplayOrders(t) \union MyOrders(t) : t \in tokens}

----------------------------------------------------------------------------
(* The world outside.                                                      *)

Tick ==
    /\ now < MaxNow /\ now' = now + 1
    /\ answer' = Quiet
    /\ UNCHANGED <<tokens, revoked, menu, code, orders, request>>

Revoke(d) ==
    /\ Cardinality(revoked) < MaxRevoked
    /\ revoked' = revoked \union {d}
    /\ answer' = Quiet
    /\ UNCHANGED <<now, tokens, menu, code, orders, request>>

ChangeMenu ==
    /\ menu < Len(Menus) /\ menu' = menu + 1
    /\ answer' = Quiet
    /\ UNCHANGED <<now, tokens, revoked, code, orders, request>>

\* A manager cancels an order in CRM.
Cancel(i) ==
    /\ ~Over(orders[i])
    /\ orders' = [orders EXCEPT ![i].status = "cancelled"]
    /\ answer' = Quiet
    /\ UNCHANGED <<now, tokens, revoked, menu, code, request>>

Next ==
    \/ Tick \/ ChangeMenu
    \/ \E m \in Members : SignsIn(m)
    \/ \E t \in tokens : IssueKioskCode(t)
    \/ \E t \in tokens, m \in Members : IdentifyAtKiosk(t, m)
    \/ \E q \in Requests : Submit(q) \/ Check(q) \/ Update(q) \/ Fails(q)
    \/ \E q \in Requests, t \in tokens :
           PlaceKioskOrder(q, t) \/ PlaceWebOrder(q, t) \/ Tap(q, t)
    \/ \E i \in Orders : Cancel(i)
    \/ \E d \in Devices : Revoke(d)

Spec == Init /\ [][Next]_vars

----------------------------------------------------------------------------
Somebody == Members \union Devices \union {Nobody}

RequestOK(r) ==
    \/ r = Idle
    \/ /\ r.pc = "submit"
       /\ r.channel \in {"kiosk", "web"} /\ (r.channel = "web" <=> r.device = Nobody)
       /\ r.device \in Kiosks \union {Nobody} /\ r.member \in Members \union {Nobody}
       /\ r.rest \in Restaurants /\ r.cart \in Carts /\ r.points \in Points
    \/ /\ r.pc \in {"check", "update"}
       /\ r.device \in Kitchens /\ r.order \in Orders \union {0} /\ r.status \in KitchenStatuses

TypeOK ==
    /\ now \in 0..MaxNow
    /\ \A t \in tokens : t.member \in Members \union {Nobody} /\ t.device \in Devices \union {Nobody}
    /\ revoked \subseteq Devices
    /\ menu \in 1..Len(Menus)
    /\ code \in [Members -> Nat]
    /\ \A i \in Orders :
           /\ orders[i].rest \in Restaurants
           /\ orders[i].status \in KitchenStatuses \union {"cancelled"}
           /\ orders[i].held \in Nat /\ orders[i].discount \in 0..orders[i].subtotal
    /\ \A q \in Requests : RequestOK(request[q])
    /\ answer.to \in Somebody /\ answer.order \in Orders \union {0}
    /\ answer.status \in {0, 200, 201, 400, 404, 409, 500}

\* jwt/customer.go: the audiences "keep a customer token from being replayed
\* as a kiosk session token and vice versa"; order_service.go: "a token can't
\* be carried to another kiosk".  Whoever an order names as its member had
\* signed in, or been scanned at the kiosk that sent it, and the token was
\* good when the request began.
ActsForMember ==
    \A i \in Orders :
        LET o == orders[i]
        IN  o.member # Nobody =>
                \E t \in tokens :
                    /\ t.member = o.member /\ t.device = o.device /\ o.began < t.exp
                    /\ t.aud = IF o.channel = "web" THEN "kfc-customer" ELSE "kfc-kiosk-loyalty"

\* UpdateFromKitchen reads the order, then moves it: only kitchens of the
\* order's own restaurant ever move it, whatever happens in between.
KitchenMovesItsOwn ==
    \A i \in Orders : \A d \in orders[i].moved :
        d \in Kitchens /\ RestaurantOf[d] = orders[i].rest

\* PlaceKioskOrder: the terminal takes the money before the order is sent.
\* What it took is what the order costs, unless the menu that kfc-userapi
\* prices by is not the one the customer saw.
PaidIsCharged ==
    \A i \in Orders :
        LET o == orders[i]
        IN  o.seen = o.priced => o.paid = o.subtotal - o.discount

\* reservePoints converts the points to int32 for the hold and multiplies
\* them as an int for the discount.  An order that kfc-order takes has the
\* discount that its hold pays for, however many points the request names.
DiscountIsHeld ==
    \A i \in Orders : orders[i].discount = orders[i].held * PointValue

OpenPaths == {path \in Paths : \/ path[1] \in {"public", "restaurants"}
                               \/ path = <<"devices", "pair">>
                               \/ SubSeq(path, 1, 2) = <<"customer", "auth">>}

ScreensFor == [path \in Paths |->
    CASE path[1] = "kiosk"   -> Kiosks
      [] path[1] = "kitchen" -> Kitchens
      [] path[1] = "display" -> Displays
      [] path[1] = "device"  -> Kitchens \union Displays
      [] path[1] = "devices" -> Devices
      [] OTHER -> {}]

\* middleware/device_type.go: "This keeps each screen to its own job: a hall
\* display can't bump orders, and a kiosk can't read the kitchen queue."
\* README: the endpoint tables.  Sign-in needs no token, the rest of
\* /customer a live access token, a device route a device of its type that
\* is not revoked.
EachToItsOwnRoutes ==
    \A path \in Paths, t \in tokens \union {NoToken} :
        Passes(path, t) <=>
            \/ path \in OpenPaths
            \/ now < t.exp /\ path[1] = "customer" /\ t.aud = "kfc-customer"
            \/ now < t.exp /\ t.by = "device" /\ t.device \in ScreensFor[path] \ revoked

\* domain.DisplayOrder: "No names, phones or items on a public screen";
\* ToPublic and ForKiosk strip the rest.  What an order has of its customer's
\* phone, its member, its device and its hold is shown to the kitchens of its
\* restaurant and to the kiosk that sent it, and a phone to its owner.
PrivateStaysPrivate ==
    \A a \in Readable :
        /\ a.fields \ {"name"} # {} =>
              IF a.order = 0 THEN a.to \in Members
              ELSE \/ a.to \in Kitchens /\ RestaurantOf[a.to] = orders[a.order].rest
                   \/ a.to \in Kiosks /\ a.to = orders[a.order].device
        /\ a.to \in Displays => a.fields = {}
=============================================================================
