------------------------------ MODULE MCReview ------------------------------
EXTENDS Review, TLC
MCOtherScore == ("r1" :> 99) @@ ("r2" :> 95)
MCOldConfirmed == ("food" :> 2) @@ ("travel" :> 0)
=============================================================================
