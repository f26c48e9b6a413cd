-------------------------------- MODULE MCQuote --------------------------------
(***************************************************************************)
(* An instance of Quote for TLC.  Tenant "acme" has price book "v1" in     *)
(* force and "v2" to come, with the same prices and taxes and other tiers; *)
(* tenant "bare" has no book.                                              *)
(*                                                                         *)
(* Rounding has every case: 60 * 0.075 = 4.5 and 180 * 0.075 = 13.5 are   *)
(* ties with an even and an odd floor, 35 * 0.075 = 2.625 rounds up, a     *)
(* discount of 215 rounds down to -11 at 5 % (-10.75) and up to -5 at      *)
(* 2.5 % (-5.375).  In each the product of doubles rounds alike.  The      *)
(* highest tier of "v1" is neither the first nor the last it lists.        *)
(***************************************************************************)
EXTENDS Quote, TLC

GBP(n) == [amount |-> n, currency |-> "GBP"]

Prices == [sku \in {"ghost", "retouch"} |-> IF sku = "ghost" THEN GBP(60) ELSE GBP(35)]

MCBookOf ==
  [b \in {"v1", "v2"} |->
     [tenantId |-> "acme", currency |-> "GBP", prices |-> Prices, taxRate |-> 750,
      version |-> IF b = "v1" THEN 1 ELSE 2,
      status |-> IF b = "v1" THEN "ACTIVE" ELSE "DRAFT",
      orderVolumeTiers |->
        IF b = "v1" THEN <<[minUnits |-> 2, discountBps |-> 250],
                           [minUnits |-> 4, discountBps |-> 500],
                           [minUnits |-> 3, discountBps |-> 300]>>
                    ELSE <<[minUnits |-> 3, discountBps |-> 250]>>]]

Item(sku, n) == [skuCode |-> sku, quantity |-> n]

MCCarts ==
  {<<Item("ghost", 1)>>,
   <<Item("retouch", 1), Item("ghost", 3)>>,
   <<Item("ghost", 1), Item("unknown", 1)>>}

(* The worked example of docs/DATA-MODEL.md: 400 units at 320 and a rush at
   15000, with a discount of 5 % and tax of 20 %.  The code totals 164,450; the
   docs, which tax the discount line and take the subtotal after it, have
   135,850 + 27,170 = 163,020. *)
WorkedBook ==
  [currency |-> "GBP", taxRate |-> 2000, version |-> 7,
   prices |-> [sku \in {"GHOST_MANNEQUIN_V2", "RUSH_24H"} |->
                 IF sku = "RUSH_24H" THEN GBP(15000) ELSE GBP(320)],
   orderVolumeTiers |-> <<[minUnits |-> 200, discountBps |-> 250],
                          [minUnits |-> 400, discountBps |-> 500],
                          [minUnits |-> 1000, discountBps |-> 800]>>]

WorkedCart == <<Item("GHOST_MANNEQUIN_V2", 400), Item("RUSH_24H", 1)>>

ASSUME WorkedExample ==
  LET price == PriceOrder(WorkedBook, WorkedCart)
  IN price.subtotal = 143000 /\ price.tax = 28600 /\ price.total = 164450

Symmetry == Permutations(Requests) \cup Permutations(Verifiers)
=============================================================================
