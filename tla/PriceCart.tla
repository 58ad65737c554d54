----------------------------- MODULE PriceCart -----------------------------
(***************************************************************************)
(* What a cart costs (orderService.priceCart, pickVariation, kopecks) and  *)
(* what points take off it (reservePoints).                                *)
(*                                                                         *)
(* A menu is the map byID that priceCart builds; categories, names and     *)
(* product codes are left out.  Prices on the menu are float64 rubles:     *)
(* they are counted here in tenths of a kopeck, so that rounding shows.    *)
(***************************************************************************)
EXTENDS Integers, Sequences, FiniteSetsExt

CONSTANTS
    NoVariation,    \* "" in a cart line: no option was chosen
    MaxQuantity,    \* 50
    PointValue,     \* kopecks for one point (Program.PointValueKopecks)
    FallsShort,     \* prices whose float64 product by 100 is below the half
    Int32Span       \* 2^32; an int64 has Int32Span * Int32Span values

ASSUME PriceCartAssumption ==
    /\ MaxQuantity \in Nat \ {0}
    /\ PointValue \in Nat \ {0}
    /\ Int32Span \in Nat \ {0} /\ Int32Span % 2 = 0
    /\ \A tenths \in FallsShort : tenths \in Nat /\ tenths % 10 = 5

\* The fields of a menu item and of its variations that prices depend on.
ItemOK(item) ==
    /\ item.available \in BOOLEAN
    /\ item.price \in Nat
    /\ \A i \in 1..Len(item.variations) :
           /\ item.variations[i].price \in Nat
           /\ item.variations[i].default \in BOOLEAN

\* math.Round(rubles * 100).  A half is rounded up, unless the product falls
\* short of it: 0.145 * 100 is less than 14.5 in float64.
Kopecks(tenths) ==
    IF tenths \in FallsShort THEN tenths \div 10 ELSE (tenths + 5) \div 10

----------------------------------------------------------------------------
\* The variations a cart line may mean: with an option chosen, the first one
\* of that name; without, the default one, and failing that the first.
Meant(variations, chosen) ==
    IF chosen # NoVariation
    THEN {i \in 1..Len(variations) : variations[i].id = chosen}
    ELSE LET Default == {i \in 1..Len(variations) : variations[i].default}
         IN  IF Default # {} THEN Default ELSE 1..Len(variations)

\* Mutant: without an option the first variation is taken.
PickFirst(item, chosen) ==
    IF chosen # NoVariation THEN Min(Meant(item.variations, chosen)) ELSE 1

PickVariation(item, chosen) == Min(Meant(item.variations, chosen))

LineOK(menu, line) ==
    /\ line.item \in DOMAIN menu
    /\ menu[line.item].available
    /\ line.quantity \in 1..MaxQuantity
    /\ IF menu[line.item].variations = <<>> THEN line.variation = NoVariation
       ELSE Meant(menu[line.item].variations, line.variation) # {}

\* The price comes from the menu, never from the client.
UnitPrice(menu, line) ==
    LET item == menu[line.item]
    IN  Kopecks(IF item.variations = <<>> THEN item.price
                ELSE item.variations[PickVariation(item, line.variation)].price)

\* A cart is priced only as a whole, and an empty one not at all.
CartOK(menu, cart) == cart # <<>> /\ \A i \in 1..Len(cart) : LineOK(menu, cart[i])

Subtotal(menu, cart) ==
    SumFunction([i \in 1..Len(cart) |-> UnitPrice(menu, cart[i]) * cart[i].quantity])

----------------------------------------------------------------------------
\* The conversion int32(x), and a product of int64.
Wrapped(x, span) == ((x + span \div 2) % span) - span \div 2
Int32(x) == Wrapped(x, Int32Span)
Int64(x) == Wrapped(x, Int32Span * Int32Span)

\* The points that are asked of kfc-loyalty, and the discount on the order.
PointsHeld(points) == Int32(points)

\* Mutant: a point is taken for a kopeck.
DiscountByCount(points) == points

Discount(points) == Int64(points * PointValue)
=============================================================================
