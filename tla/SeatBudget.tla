----------------------------- MODULE SeatBudget -----------------------------
(***************************************************************************)
(* The arithmetic of one seat's monthly budget, a pure part of the         *)
(* Commander (services/commander/src/brain/seat-budget.ts).                *)
(*                                                                         *)
(* Money is a natural number of micro-dollars: roundedUsd rounds every     *)
(* amount to six decimals and clips it at zero.  A budget period is the    *)
(* UTC month, a natural number here.                                       *)
(***************************************************************************)
EXTENDS Naturals

CONSTANTS
    Budget,     \* monthlyBudgetUsd of every seat
    Estimate    \* the upper bound reserved before provider work starts

ASSUME BudgetAssumption == Budget \in Nat
ASSUME EstimateAssumption == Estimate \in Nat \ {0}

\* The accounting fields of a seat registration.
Account == [spent : Nat, reserved : Nat, period : Nat, exhausted : BOOLEAN]

\* Mutant: not clipped.
MonusUnclipped(a, b) == a - b

\* Subtraction clipped at zero, as roundedUsd does.
Monus(a, b) == IF b <= a THEN a - b ELSE 0

\* What a month leaves of an account once the clock is in period p.
Roll(acct, p) ==
    IF acct.period = p
    THEN acct
    ELSE [acct EXCEPT !.period = p, !.spent = 0, !.reserved = 0,
                      !.exhausted = FALSE]

\* The reservation fits in what is left of the month's budget.
Admits(acct, p) ==
    LET r == Roll(acct, p)
    IN  Estimate <= Monus(Budget, r.spent + r.reserved)

\* The account after an accepted reservation.
Reserved(acct, p) ==
    LET r == Roll(acct, p)
    IN  [r EXCEPT !.reserved = r.reserved + Estimate,
                  !.exhausted = Budget <= r.spent + r.reserved + Estimate]

\* The account after `held` is given back and `cost` is spent.
Reconciled(acct, held, cost, p) ==
    LET r == Roll(acct, p)
        left == Monus(r.reserved, held)
    IN  [r EXCEPT !.reserved = left,
                  !.spent = r.spent + cost,
                  !.exhausted = Budget <= r.spent + cost + left]
=============================================================================
