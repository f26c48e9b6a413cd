-------------------------------- MODULE Pricing --------------------------------
(***************************************************************************)
(* The pricing engine (priceOrder) and the Money arithmetic it uses.       *)
(*                                                                         *)
(* Amounts are integer minor units.  A rate is an integer of basis points  *)
(* and a product with it is exact before it is rounded; the program's      *)
(* rates are doubles, which agree with this except where the double        *)
(* product of a tie falls to one side of the half.  Every quantity is an   *)
(* integer (multiplyMoney throws a RangeError for any other) and a price   *)
(* book lists a SKU once.  Descriptions and tax codes are left out.        *)
(*                                                                         *)
(* A price book is a record:                                               *)
(*   version, currency, status: its initial status, tenantId,              *)
(*   prices: SKU -> Money, orderVolumeTiers: a sequence, taxRate: in bps.  *)
(*                                                                         *)
(* A definition named Faulty_... is a bug the properties must notice: it   *)
(* takes no part in the specification.                                     *)
(***************************************************************************)
EXTENDS Integers, Sequences

(* Basis points in one. *)
Whole == 10000

Faulty_RoundHalfToEven(n) ==   \* Math.round: ties go up
  IF 2 * (n % Whole) < Whole THEN n \div Whole ELSE n \div Whole + 1

(* roundHalfToEven of n / Whole; \div rounds down, as Math.floor does. *)
RoundHalfToEven(n) ==
  LET floor == n \div Whole
      diff == n % Whole
  IN IF 2 * diff < Whole \/ (2 * diff = Whole /\ floor % 2 = 0)
       THEN floor
       ELSE floor + 1

ApplyRate(amount, bps) == RoundHalfToEven(amount * bps)

(* reduce((sum, line) => addMoney(sum, line[field]), zero). *)
SumOf(field, lines) ==
  LET sum[n \in 0 .. Len(lines)] == IF n = 0 THEN 0 ELSE sum[n - 1] + lines[n][field]
  IN  sum[Len(lines)]

-----------------------------------------------------------------------------

(* PriceBook and QuoteLineItemInput, as far as they are used: a SKU may have a
   price of any sign, a tier may ask for any number of units. *)
IsPriceBook(book) ==
  /\ \A sku \in DOMAIN book.prices : book.prices[sku].amount \in Int
  /\ book.taxRate \in Int
  /\ book.orderVolumeTiers \in Seq([minUnits : Int, discountBps : Int])

IsCart(items) == items \in Seq([skuCode : STRING, quantity : Int])

(* The SKU has a price (else SkuNotFoundError) and one in the book's currency
   (else addMoney throws a CurrencyMismatchError). *)
Priceable(book, items) ==
  \A i \in DOMAIN items :
    /\ items[i].skuCode \in DOMAIN book.prices
    /\ book.prices[items[i].skuCode].currency = book.currency

ItemLine(book, item) ==
  LET unitPrice == book.prices[item.skuCode].amount
      lineTotal == unitPrice * item.quantity
  IN [skuCode   |-> item.skuCode,
      quantity  |-> item.quantity,
      unitPrice |-> unitPrice,
      lineTotal |-> lineTotal,
      taxRate   |-> book.taxRate,
      taxAmount |-> ApplyRate(lineTotal, book.taxRate)]

ItemLines(book, items) == [i \in DOMAIN items |-> ItemLine(book, items[i])]

(* The tiers the order reaches, by the units of all its lines. *)
Reached(book, items) ==
  {i \in DOMAIN book.orderVolumeTiers :
     book.orderVolumeTiers[i].minUnits <= SumOf("quantity", items)}

(* The highest tier reached; the sort is stable, so the first of equals. *)
Tier(book, items) ==
  LET tiers == book.orderVolumeTiers
  IN CHOOSE i \in Reached(book, items) : \A j \in Reached(book, items) :
       \/ tiers[j].minUnits < tiers[i].minUnits
       \/ tiers[j].minUnits = tiers[i].minUnits /\ i <= j

(* At most one discount line, on the whole subtotal and untaxed. *)
DiscountLines(book, items, subtotal) ==
  IF Reached(book, items) = {}
    THEN << >>
    ELSE LET tier == book.orderVolumeTiers[Tier(book, items)]
             amount == ApplyRate(subtotal, -tier.discountBps)
         IN <<[skuCode   |-> "VOLUME_DISCOUNT",
               quantity  |-> 1,
               unitPrice |-> amount,
               lineTotal |-> amount,
               taxRate   |-> 0,
               taxAmount |-> 0]>>

(* The hash stands for what it is taken over: SHA-256 of a canonical form is
   equal for equal contents and taken to differ for different ones. *)
Faulty_IntegrityHash(book, lines, subtotal, tax, total) ==   \* no version
  [lines |-> lines, subtotal |-> subtotal, tax |-> tax, total |-> total,
   currency |-> book.currency, priceBookVersion |-> 0]

IntegrityHash(book, lines, subtotal, tax, total) ==
  [lines |-> lines, subtotal |-> subtotal, tax |-> tax, total |-> total,
   currency |-> book.currency, priceBookVersion |-> book.version]

(* priceOrder, for items that are Priceable. *)
PriceOrder(book, items) ==
  LET itemLines == ItemLines(book, items)
      subtotal == SumOf("lineTotal", itemLines)
      lines == itemLines \o DiscountLines(book, items, subtotal)
      tax == SumOf("taxAmount", lines)
      total == SumOf("lineTotal", lines) + tax
  IN [lines |-> lines, subtotal |-> subtotal, tax |-> tax, total |-> total,
      integrityHash |-> IntegrityHash(book, lines, subtotal, tax, total)]
=============================================================================
