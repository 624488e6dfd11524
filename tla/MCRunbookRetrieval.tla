------------------------- MODULE MCRunbookRetrieval -------------------------
(***************************************************************************)
(* Three releases of a small corpus: the second adds an entry and rewrites *)
(* another, the third removes one.                                         *)
(***************************************************************************)
EXTENDS RunbookRetrieval

Entry(situation, action) == [situation |-> situation, action |-> action]

Funds  == Entry("no funds", "retry_payment")
Soft   == Entry("declined", "switch_backup_payment_method")
Hard   == Entry("declined for good", "request_card_update")
Limit  == Entry("over the limit", "retry_payment")
Expiry == Entry("card expired", "request_card_update")

ThreeReleases ==
    << 1 :> Funds @@ 2 :> Soft @@ 3 :> Limit,
       1 :> Funds @@ 2 :> Hard @@ 3 :> Limit @@ 4 :> Expiry,
       1 :> Funds @@ 2 :> Hard @@ 4 :> Expiry >>

Texts == {Funds.situation, Soft.situation, Hard.situation, Limit.situation, Expiry.situation}

\* The texts that are kept and added before, after and tied with the first one
\* and each other; the text that is rewritten was the closest.
AroundTheFirst ==
    {f \in [Texts -> Scores] : /\ f[Funds.situation] = 2
                               /\ f[Limit.situation] \in {1, 3}
                               /\ f[Soft.situation] = 3}

TwoCategories == <<"FUNDS_ISSUE", "HARD_DECLINE", "FUNDS_ISSUE", "HARD_DECLINE">>
=============================================================================
