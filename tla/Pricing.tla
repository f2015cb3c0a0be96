------------------------------- MODULE Pricing -------------------------------
(***************************************************************************)
(* What an order costs: the vehicle its weight calls for, the delivery     *)
(* fee, the discount of a promo code, the quote that checkout shows and    *)
(* the total that placement charges.  Amounts are in cents and weights in  *)
(* grams; orders are placed without a pickup location, so that their       *)
(* distance is the default of five kilometres.                             *)
(***************************************************************************)
EXTENDS Integers, Sequences

Category == {"food", "grocery", "materials", "errand"}
Kilogram == 1000
DefaultKm == 5

\* Math.max and Math.min.
AtLeast(a, b) == IF a > b THEN a ELSE b
AtMost(a, b) == IF a < b THEN a ELSE b

Cart == [category : Category, grams : Nat, price : Nat]
Promo == [type : {"percent", "fixed", "free_delivery"}, value : Nat, max : Nat, min : Nat,
          limit : Nat, used : Nat, active : BOOLEAN]

-----------------------------------------------------------------------------
(* The vehicle.                                                             *)

\* VEHICLE_MAX_KG in the order of VEHICLE_RANK; the largest takes anything.
MaxGrams == <<10 * Kilogram, 30 * Kilogram, 150 * Kilogram, 200 * Kilogram,
              400 * Kilogram, 500 * Kilogram, 1000 * Kilogram, 2000 * Kilogram,
              5000 * Kilogram, 7000 * Kilogram>>
Largest == Len(MaxGrams) + 1
VehicleRank == 1..Largest

\* assignVehicleType: the first of the ladder that carries the weight.
AssignVehicle(category, grams) ==
    IF category \in {"food", "errand"} THEN 1
    ELSE CHOOSE v \in VehicleRank :
           /\ v = Largest \/ grams <= MaxGrams[v]
           /\ \A u \in 1..(v - 1) : grams > MaxGrams[u]

FeeTier(vehicle) ==
    IF vehicle <= 2 THEN "bike" ELSE IF vehicle <= 7 THEN "bakkie" ELSE "truck"

-----------------------------------------------------------------------------
(* calculateFees.                                                           *)

BaseFee == [bike |-> 250, bakkie |-> 800, truck |-> 2000]
PerKm == [bike |-> 30, bakkie |-> 80, truck |-> 150]
ErrandHour == 300
BikeMaxGrams == 30 * Kilogram

\* A cent for each kilogram over what a bike carries.
HeavySurcharge(category, grams) ==
    IF category = "materials" THEN AtLeast(0, (grams - BikeMaxGrams) \div Kilogram) ELSE 0
ErrandFee(category) == IF category = "errand" THEN ErrandHour ELSE 0

\* To the nearest dollar, a half upwards, and never nothing.
RoundDelivery(cents) == AtLeast(100, ((cents + 50) \div 100) * 100)

DeliveryFee(category, vehicle, grams) ==
    LET tier == FeeTier(vehicle)
    IN RoundDelivery(BaseFee[tier] + DefaultKm * PerKm[tier]
                       + HeavySurcharge(category, grams) + ErrandFee(category))

Subtotal(cart) == IF cart.category = "errand" THEN 0 ELSE cart.price
Fee(cart) == DeliveryFee(cart.category, AssignVehicle(cart.category, cart.grams), cart.grams)

-----------------------------------------------------------------------------
(* evaluatePromo.                                                           *)

Discount(promo, sub, fee) ==
    LET reduction == CASE promo.type = "percent" -> AtMost((sub * promo.value + 50) \div 100, promo.max)
                       [] promo.type = "fixed" -> promo.value
                       [] promo.type = "free_delivery" -> fee
    IN AtMost(reduction, sub + fee)

\* Mutation: the limit is compared after the redemption.
LimitPassed(promo) == promo.used <= promo.limit
LimitLeft(promo) == promo.used < promo.limit

Valid(promo, sub) == promo.active /\ LimitLeft(promo) /\ sub >= promo.min

-----------------------------------------------------------------------------
(* quoteOrder, and the two updates that price a placed order.               *)

Quote(cart, tip, discount) ==
    Subtotal(cart) + Fee(cart) + tip - AtMost(discount, Subtotal(cart) + Fee(cart))

Dispatched(cart) == Subtotal(cart) + Fee(cart)
\* Mutation: the discount is taken off once more, and the floor is forgotten.
TwiceOff(base, tip, discount) == base + tip - 2 * discount
Charge(base, tip, discount) == AtLeast(0, base + tip - discount)
=============================================================================
