----------------------------- MODULE MCDerived -----------------------------
EXTENDS Derived, TLC

Row(day, merchant, category, amount) ==
    [day |-> day, merchant |-> merchant, category |-> category,
     amount |-> amount, spends |-> TRUE, movement |-> "expense",
     direction |-> "debit", review |-> "auto_approved", trusted |-> "trusted"]

\* January to April 2024: a rent paid monthly, and food that varies.
MCOpening ==
    [t \in 1 .. 8 |->
      CASE t = 1 -> Row(4, "landlord", "home", 30)
        [] t = 2 -> Row(35, "landlord", "home", 30)
        [] t = 3 -> Row(64, "landlord", "home", 30)
        [] t = 4 -> Row(10, "grocer", "food", 10)
        [] t = 5 -> Row(40, "grocer", "food", 12)
        [] t = 6 -> Row(49, "baker", "food", 8)
        [] t = 7 -> Row(50, "grocer", "food", 11)
        [] OTHER -> Row(70, "baker", "food", 9)]

MCBatches ==
    ("april" :> (9 :> Row(95, "hotel", "travel", 90)
                 @@ 10 :> Row(96, "grocer", "food", 40)
                 @@ 11 :> Row(98, "grocer", "food", 40)
                 @@ 12 :> [Row(99, "grocer", "food", 10) EXCEPT
                             !.spends = FALSE, !.movement = "refund",
                             !.direction = "credit"]
                 @@ 13 :> [Row(92, "employer", None, 200) EXCEPT
                             !.spends = FALSE, !.movement = "salary",
                             !.direction = "credit"]))

MCRecategorised == (10 :> "travel")
=============================================================================
