---------------------------- MODULE MCTransfers ----------------------------
(* Three statements of a current account, whose transfers may match the     *)
(* same credits of a savings account in opposite orders.  The last of the   *)
(* three prints no closing balance, the savings account's no period.        *)
EXTENDS Transfers

Entry(import, direction, amount, day, kind) ==
    [import |-> import, direction |-> direction, amount |-> amount,
     day |-> day, kind |-> kind]

MCRow ==
    ("a1" :> Entry("i1", "debit", 5, 2, "transfer")) @@
    ("a2" :> Entry("i1", "debit", 7, 3, "transfer")) @@
    ("b1" :> Entry("i2", "debit", 7, 1, "transfer")) @@
    ("b2" :> Entry("i2", "debit", 5, 4, "credit_card_payment")) @@
    ("c1" :> Entry("i3", "credit", 5, 3, "transfer")) @@
    ("c2" :> Entry("i3", "credit", 7, 2, "income")) @@
    ("d1" :> Entry("i4", "credit", 5, 5, "transfer"))

MCHeader ==
    ("i1" :> [account |-> "current", end |-> 3, closing |-> "x"]) @@
    ("i2" :> [account |-> "current", end |-> 4, closing |-> "y"]) @@
    ("i3" :> [account |-> "savings", end |-> NoDate, closing |-> "z"]) @@
    ("i4" :> [account |-> "current", end |-> 7, closing |-> None])

MCImports == DOMAIN MCHeader

=============================================================================
