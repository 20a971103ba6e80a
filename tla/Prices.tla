------------------------------- MODULE Prices -------------------------------
(***************************************************************************)
(* Prices: a Decimal in the program, Numeric(10, 4) in the database.  The  *)
(* column and every parameter compared with it have this type, so that     *)
(* PostgreSQL rounds what has more decimals and refuses what is too large. *)
(***************************************************************************)
EXTENDS Integers

CONSTANTS
  Scale,     (* steps of a Decimal price in one step of the price column    *)
  MaxPrice   (* the largest amount Numeric(10, 4) holds                     *)

ASSUME PricesAssumption == Scale \in Nat \ {0}

(* Numeric(10, 4) rounds half away from zero. *)
Rounded(price) == Scale * ((2 * price + Scale) \div (2 * Scale))

InRange(price) == Rounded(price) <= MaxPrice
=============================================================================
