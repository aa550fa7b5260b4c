----------------------------- MODULE MCOrderLife -----------------------------
(* OrderLife with a request for every way through the encoder.             *)
EXTENDS OrderLife

Request(side, type, quantity, price, tif, instructions) ==
    [side |-> side, order_type |-> type, quantity |-> quantity, price |-> price,
     time_in_force |-> tif, execution_instructions |-> instructions]

ClientRequests ==
    {Request("SELL", "LIMIT", 2, 1, "GTC", {}),
     Request("BUY", "LIMIT", 2, 1, "GTC", {"PARTICIPATE_DO_NOT_INITIATE"}),
     Request("BUY", "LIMIT", 2, 1, "FOK", {"DO_NOT_INCREASE"}),
     Request("SELL", "MARKET", 2, 1, "GTC", {"PARTICIPATE_DO_NOT_INITIATE"}),
     Request("BUY", "LIMIT", 1, NaN, "IOC", {}),
     Request("SELL", "LIMIT", 1, NaN, "GTC", {"DO_NOT_INCREASE"}),
     Request("BUY", "LIMIT", 1, 1, "GFD", {})}

Amendments ==
    {[quantity |-> 3, price |-> NaN], [quantity |-> NaN, price |-> 2]}
=============================================================================
