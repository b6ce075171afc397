------------------------------- MODULE MCLBP -------------------------------
(***************************************************************************)
(* Instances of LBP for TLC.                                               *)
(***************************************************************************)
EXTENDS LBP, TLC

CONSTANTS owner, trader, OwnerFunds, TraderFunds

\* The assets are interchangeable: either may be the accumulated one.  The trader
\* starts with one of them.
MCEndowment ==
    [u \in Users |-> [a \in Assets |-> IF u = owner THEN OwnerFunds
                                       ELSE IF a = 0 THEN TraderFunds ELSE 0]]

\* Fees are an amount divided by the second number, times the first.
MCRepayFee == <<1, 2>>

MCTerms == {[initial_weight |-> 3, final_weight |-> 1, fee |-> <<1, 4>>, repay_target |-> 1]}

Unchanged ==
    [owner |-> None, start |-> None, end |-> None, initial_weight |-> None, final_weight |-> None,
     fee |-> None, fee_collector |-> None, repay_target |-> None]

\* An owner sets the sale up, postpones it, tries to end it in its first block
\* (which is refused), and gives the pool away.
MCUpdates ==
    {[Unchanged EXCEPT !.start = 1, !.end = 2],
     [Unchanged EXCEPT !.start = 3, !.end = 4, !.final_weight = 2],
     [Unchanged EXCEPT !.end = 1],
     [Unchanged EXCEPT !.fee_collector = trader],
     [Unchanged EXCEPT !.repay_target = 2, !.owner = trader]}

=============================================================================
