------------------------------ MODULE MCDuster ------------------------------
(* Small instances of the duster for TLC. *)
EXTENDS Duster

CONSTANTS alice, treasury, w1, bsx, tok

\* Alice has the tokens, the treasury what it pays rewards with.
Funds(tokens, rewards) ==
    [u \in Accounts |-> [c \in Currencies |->
        IF c = bsx /\ u = treasury THEN rewards
        ELSE IF c = tok /\ u = alice THEN tokens
        ELSE 0]]

MCEndowment == Funds(3, 1)

\* The deposit of the token is raised and lowered.  What is paid as a reward
\* is dust itself.
MCDeposits == [c \in Currencies |-> IF c = tok THEN {1, 3} ELSE {2}]
MCInitialDeposit == [c \in Currencies |-> IF c = tok THEN 1 ELSE 2]

=============================================================================
