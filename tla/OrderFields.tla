---------------------------- MODULE OrderFields ----------------------------
(***************************************************************************)
(* What an order request becomes on the wire (protocol/json/encoder.cpp)   *)
(* and what an order of the exchange becomes in the order management       *)
(* system, OMS (create_order_update in gateway/drop_copy.cpp and the       *)
(* tables of protocol/json/map.cpp).                                       *)
(*                                                                         *)
(* Quantities and prices are integers, in lots and ticks.                  *)
(***************************************************************************)
EXTENDS Integers

(* Neither a quantity nor a price; and the zero a market order has.        *)
NaN == -1

ExecutionInstruction == {"DO_NOT_INCREASE", "PARTICIPATE_DO_NOT_INITIATE"}

(* What a client may ask for, supported or not.                            *)
TimesInForce ==
    {"UNDEFINED", "GFD", "GTC", "OPG", "IOC", "FOK", "GTX", "GTD", "AT_THE_CLOSE",
     "GOOD_THROUGH_CROSSING", "AT_CROSSING", "GOOD_FOR_TIME", "GFA", "GFM"}

Abs(n) == IF n < 0 THEN -n ELSE n

-----------------------------------------------------------------------------
(* To the exchange: a signed size, a price, a time in force.               *)

Sign(side) == IF side = "BUY" THEN 1 ELSE -1

IsMarket(c) == c.order_type = "MARKET"

PostOnly(c) == "PARTICIPATE_DO_NOT_INITIATE" \in c.execution_instructions

TifOf == [GTC |-> "gtc", IOC |-> "ioc", FOK |-> "fok"]

(* Any other time in force throws NotSupported and nothing is sent.        *)
Supported(c) == IsMarket(c) \/ PostOnly(c) \/ c.time_in_force \in DOMAIN TifOf

(* Mutant: a time in force that is given goes before the instructions.     *)
TifFirst(c) ==
    CASE IsMarket(c) -> "ioc"
      [] ~IsMarket(c) /\ c.time_in_force \in DOMAIN TifOf -> TifOf[c.time_in_force]
      [] OTHER -> "poc"

(* A market order is ioc whatever was asked, a post-only order is poc.     *)
Tif(c) ==
    CASE IsMarket(c) -> "ioc"
      [] ~IsMarket(c) /\ PostOnly(c) -> "poc"
      [] OTHER -> TifOf[c.time_in_force]

(* No price is zero as well.                                               *)
Price(c) == IF IsMarket(c) \/ c.price = NaN THEN 0 ELSE c.price

OrderPlace(c) ==
    [size |-> Sign(c.side) * c.quantity, price |-> Price(c), tif |-> Tif(c),
     reduce_only |-> "DO_NOT_INCREASE" \in c.execution_instructions]

(* Only the fields that change, with the side the OMS has of the order.    *)
OrderAmend(m, side) ==
    LET given == [size |-> m.quantity # NaN, price |-> m.price # NaN]
    IN  [k \in {k \in DOMAIN given : given[k]} |->
            IF k = "size" THEN Sign(side) * m.quantity ELSE m.price]

-----------------------------------------------------------------------------
(* From the exchange.                                                      *)

(* Mutant: what an immediate-or-cancel order does not fill goes on.        *)
IocWorks ==
    [filled |-> "COMPLETED", ioc |-> "WORKING", cancelled |-> "CANCELED",
     liquidated |-> "CANCELED", auto_deleveraged |-> "CANCELED", reduce_only |-> "CANCELED",
     position_close |-> "CANCELED", stp |-> "CANCELED",
     new |-> "WORKING", update |-> "WORKING", reduce_out |-> "WORKING"]

(* FinishAs; an order that ended without being filled may be completed.    *)
FinishedAs ==
    [filled |-> "COMPLETED", ioc |-> "COMPLETED", cancelled |-> "CANCELED",
     liquidated |-> "CANCELED", auto_deleveraged |-> "CANCELED", reduce_only |-> "CANCELED",
     position_close |-> "CANCELED", stp |-> "CANCELED",
     new |-> "WORKING", update |-> "WORKING", reduce_out |-> "WORKING"]

(* get_order_status: without finish_as the order must be open.             *)
OrderStatus(v) ==
    IF v.finish_as \in DOMAIN FinishedAs THEN FinishedAs[v.finish_as]
    ELSE IF v.status = "open" THEN "WORKING" ELSE "FATAL"

(* The OMS has no time in force for poc.                                   *)
TimeInForce == [gtc |-> "GTC", fok |-> "FOK", poc |-> "GTC", ioc |-> "IOC"]

Side(size) == IF size < 0 THEN "SELL" ELSE "BUY"

(* A download is taken for a limit order, an update says nothing.          *)
OrderType(update_type) == IF update_type = "SNAPSHOT" THEN "LIMIT" ELSE "UNDEFINED"

(* Mutant: what is left of a sell order is negative.                       *)
SignedLeft(v, update_type) ==
    [side |-> Side(v.size), order_type |-> OrderType(update_type),
     time_in_force |-> TimeInForce[v.tif], order_status |-> OrderStatus(v),
     price |-> v.price, quantity |-> Abs(v.size), remaining |-> Abs(v.left),
     traded |-> Abs(v.size) - v.left]

(* create_order_update                                                     *)
CreateOrderUpdate(v, update_type) ==
    [side |-> Side(v.size), order_type |-> OrderType(update_type),
     time_in_force |-> TimeInForce[v.tif], order_status |-> OrderStatus(v),
     price |-> v.price, quantity |-> Abs(v.size), remaining |-> Abs(v.left),
     traded |-> Abs(v.size) - Abs(v.left)]
=============================================================================
