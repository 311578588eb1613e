------------------------------- MODULE MCExpiry -------------------------------
(* Three contracts on two underlyings, of every kind that settles apart. *)
EXTENDS ExpiryProperties

Contract(u, right, strike, expiry, style, settlement) ==
  [underlying |-> u, right |-> right, strike |-> strike, expiry |-> expiry,
   style |-> style, settlement |-> settlement, multiplier |-> 10]
SmallContracts == {Contract("MSFT", "CALL", 10, 2, "AMERICAN", "PHYSICAL"),
                   Contract("MSFT", "PUT", 12, 2, "AMERICAN", "PHYSICAL"),
                   Contract("MSFT", "PUT", 12, 3, "EUROPEAN", "CASH")}

Policy == [closeBefore |-> Nothing, early |-> "never", atExpiry |-> "always",
           threshold |-> 2, physical |-> TRUE, fee |-> 1]
SmallPolicies == {Policy, [Policy EXCEPT !.early = "maybe", !.atExpiry = "maybe"],
                  [Policy EXCEPT !.early = "always", !.physical = FALSE],
                  [Policy EXCEPT !.closeBefore = 1, !.atExpiry = "never"]}

SmallSizes == {1, -2}
=============================================================================
