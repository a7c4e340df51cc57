---------------------------------- MODULE Daa ----------------------------------
(***************************************************************************)
(* The difficulty adjustment (daa.rs, and its port for the settlement      *)
(* guest, epoch/daa.rs): LWMA-1 over a window of solve times.  A chain is  *)
(* a sequence of [ts, nbits], oldest first.  CEILING stands for 2^256, and *)
(* compact bits keep the leading DIGITS of a difficulty.                   *)
(***************************************************************************)
EXTENDS Integers, FiniteSetsExt, SequencesExt

CONSTANTS CEILING, DIGITS, TargetMs, Window, MinDifficulty

SumUpTo(n, f(_)) == FoldLeft(LAMBDA sum, i : sum + f(i), 0, [i \in 1..n |-> i])

\* The unit of the last digit that compact bits keep of d (binary digits here).
Unit(d) == Max({1} \cup {2 ^ k : k \in {j \in 1..16 : 2 ^ (j + DIGITS - 1) <= d}})

Compact(d) == (d \div Unit(d)) * Unit(d)

Decoded(nbits) == Max({nbits, 1})

\* Mutant: solve times are not bounded above.
UnboundedSolveMs(view, i) == Max({view[i + 1].ts - view[i].ts, 1})

\* Between 1 ms and six targets, however the clocks of two producers disagree.
SolveMs(view, i) == Min({Max({view[i + 1].ts - view[i].ts, 1}), 6 * TargetMs})

Weighted(view) == SumUpTo(Window, LAMBDA i : SolveMs(view, i) * i)

AvgTarget(view) == SumUpTo(Window, LAMBDA i : CEILING \div Decoded(view[i + 1].nbits)) \div Window

NextTarget(view) ==
  LET k == ((Window * (Window + 1)) \div 2) * TargetMs
  IN Max({(AvgTarget(view) * Weighted(view)) \div k, 1})

\* At most four times the last block's difficulty, and at least a quarter.
StepClamp(difficulty, prev) == Max({Min({difficulty, 4 * prev}), prev \div 4, 1})

NextNbits(chain) ==
  IF Len(chain) < Window + 1 THEN MinDifficulty
  ELSE LET view == SubSeq(chain, Len(chain) - Window, Len(chain))
       IN Compact(StepClamp(CEILING \div NextTarget(view), Decoded(Last(view).nbits)))
================================================================================
