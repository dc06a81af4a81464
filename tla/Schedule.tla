------------------------------ MODULE Schedule ------------------------------
(***************************************************************************)
(* Schedule of ecora/runner.py: when a decision is taken, when its command *)
(* reaches the actuator and which observation shows it.                    *)
(*                                                                         *)
(* Time is counted in units finer than the nanosecond the code compares    *)
(* times to.  A decision instant is a product of floats and may miss the   *)
(* grid by less than half a nanosecond (3 * 0.3 is 0.8999999999999999):    *)
(* that is a timing's slip, by slip.by at the epoch slip.index.  A dispatch *)
(* instant is rounded to the grid, except at the barrier.                   *)
(***************************************************************************)
EXTENDS Integers, FiniteSetsExt

CONSTANT
    Tie      \* units in a nanosecond: TIE_S, and the grid of round(..., 9)

ASSUME TieAssumption == Tie \in Nat \ {0}

(* A timing has the fields period, latency and slip.                        *)
Barrier(timing) == timing.latency = 0

DecisionAt(timing, index) ==
    index * timing.period + (IF index = timing.slip.index THEN timing.slip.by ELSE 0)

Rounded(t) == ((t + Tie \div 2) \div Tie) * Tie

DispatchUnrounded(timing, index) == DecisionAt(timing, index) + timing.latency

DispatchAt(timing, index) ==
    IF Barrier(timing) THEN DecisionAt(timing, index)
    ELSE Rounded(DecisionAt(timing, index) + timing.latency)

(* Whether a command dispatched at d lands before the observation at t.      *)
Due(d, t) == d <= t + Tie

EvidenceOnGrid(timing, d) ==
    LET first == Max({0, d \div timing.period - 1})
    IN  Min({index \in first .. first + 3 : Due(d, DecisionAt(timing, index))})

(* The first epoch whose observation follows a dispatch at d.                *)
EvidenceIndex(timing, d) ==
    LET first == Max({0, d \div timing.period - 1})
    IN  Min({index \in first .. first + 3 :
                IF Barrier(timing) THEN DecisionAt(timing, index) > d + Tie
                ELSE Due(d, DecisionAt(timing, index))})
=============================================================================
