--------------------------- MODULE MCFunderNetwork ----------------------------
(***************************************************************************)
(* A small network for TLC: a buyer b, a node m that forwards, a seller s. *)
(***************************************************************************)
EXTENDS FunderNetwork

Line == [n \in {"b", "m", "s"} |-> IF n = "m" THEN {"b", "s"} ELSE {"m"}]
LineFirst == {<<"b", "m">>, <<"s", "m">>}
Fees == [n \in {"b", "m", "s"} |-> 1]
Trust == [n \in {"b", "m", "s"} |-> 6]

OneInvoice == [i \in {"i1"} |-> [seller |-> "s", total |-> 2]]

PayOf(total) == [buyer |-> "b", dest |-> "s", invoice |-> "i1", total |-> total]
TxOf(p, amount, fees) ==
    [payment |-> p, route |-> <<"b", "m", "s">>, dest_payment |-> amount, fees |-> fees]

(* One payment in two parts; u3 asks for more than the payment's total. *)
OnePayment == [p \in {"p1"} |-> PayOf(2)]
Parts == [u \in {"u1", "u2", "u3"} |-> TxOf("p1", IF u = "u3" THEN 3 ELSE 1, 1)]

(* Every node may remove the next friend, and the one requests come from. *)
AnyRemoved == {<<n, f>> \in Node \X Node : f \in Line[n]}

(* A bound: u3 is asked for where nothing disturbs, and instead of u2. *)
LargeIsInsteadOfSecond ==
    "u3" \in node["b"].asked => "u2" \notin node["b"].asked /\ disturbed = 0

MCSpec == Init /\ [][Next /\ LargeIsInsteadOfSecond']_vars /\ Fairness
===============================================================================
