------------------------------- MODULE Clock -------------------------------
(* The clock of the modules that measure time in ticks.                     *)
EXTENDS Integers

CONSTANT Second  \* ticks in a second

ASSUME ClockAssumption == Second \in Nat \ {0}

\* Milliseconds to whole seconds, rounded up, as Math.ceil(ms / 1000).
CeilSeconds(time) == (time + Second - 1) \div Second

=============================================================================
