--------------------------- MODULE PrimeCountBench ---------------------------
(***************************************************************************)
(* The benchmark src/rusty-js-core/bench/test3.js, statement by statement: *)
(* it reads the clock, counts the primes below 100000 by trial division    *)
(* (p(n) tries every i with i * i <= n), logs the count and logs the time  *)
(* it took.  The script is sequential; pc is the statement it is at.  All  *)
(* its numbers are integers below 2^53, which a JavaScript number holds    *)
(* exactly, so they are modelled as naturals.                              *)
(*                                                                         *)
(* performance.now() is modelled after the "finite clock" idea: now is a   *)
(* bounded reading that Tick advances while the script runs, and only its  *)
(* distance from the reading t taken at line 1 is logged.                  *)
(***************************************************************************)
EXTENDS Naturals, Sequences, FiniteSets

CONSTANTS Limit,        \* the exclusive bound of the outer loop (100000)
          MaxNow        \* the last clock reading the model lets time reach

ASSUME LimitAssumption == Limit \in Nat
ASSUME MaxNowAssumption == MaxNow \in Nat

VARIABLES pc,           \* the statement the script is at
          t,            \* let t = performance.now()
          now,          \* what performance.now() returns at this instant
          k,            \* the outer loop variable
          sum,          \* let sum = 0; sum++
          n,            \* the parameter of p(n)
          i,            \* the loop variable of p(n)
          ret,          \* the value p(n) returns
          out           \* the values logged by console.log, in order

vars == <<pc, t, now, k, sum, n, i, ret, out>>

Labels == {"start", "outer", "inner", "ret", "logSum", "logTime", "done"}

TypeOK == /\ pc \in Labels
          /\ t \in 0..MaxNow
          /\ now \in 0..MaxNow
          /\ k \in Nat
          /\ sum \in Nat
          /\ n \in Nat
          /\ i \in Nat
          /\ ret \in BOOLEAN
          /\ out \in Seq(Nat)

\* The script has not started: t, k and sum are still in their temporal
\* dead zone, which the model fills with 0.
Init == /\ pc = "start"
        /\ t = 0
        /\ now \in 0..MaxNow
        /\ k = 0
        /\ sum = 0
        /\ n = 0
        /\ i = 0
        /\ ret = FALSE
        /\ out = <<>>

\* let t = performance.now(); function p is hoisted; let sum = 0; and the
\* loop's let k = 2.
Start == /\ pc = "start"
         /\ t' = now
         /\ sum' = 0
         /\ k' = 2
         /\ pc' = "outer"
         /\ UNCHANGED <<now, n, i, ret, out>>

\* Mutant: the outer loop runs while k <= 100000.
OuterCondInclusive(kk) == kk <= Limit

\* The test of the outer loop, k < 100000.
OuterCond(kk) == kk < Limit

\* The outer loop test; when it holds, the call p(k) and its let i = 2.
Outer == /\ pc = "outer"
         /\ IF OuterCond(k)
               THEN /\ n' = k
                    /\ i' = 2
                    /\ pc' = "inner"
               ELSE /\ pc' = "logSum"
                    /\ UNCHANGED <<n, i>>
         /\ UNCHANGED <<t, now, k, sum, ret, out>>

\* Mutant: the loop of p(n) runs while i * i < n.
LoopCondStrict(ii, nn) == ii * ii < nn

\* The test of the loop of p(n), i * i <= n.
LoopCond(ii, nn) == ii * ii <= nn

\* Mutant: the loop of p(n) forgets its i++.
InnerStepNoIncrement == /\ pc = "inner"
                        /\ LoopCond(i, n)
                        /\ IF n % i = 0
                              THEN /\ ret' = FALSE
                                   /\ pc' = "ret"
                              ELSE UNCHANGED <<ret, pc>>
                        /\ UNCHANGED <<t, now, k, sum, n, i, out>>

\* One pass of the loop of p(n): n % i == 0 returns false, otherwise i++.
InnerStep == /\ pc = "inner"
             /\ LoopCond(i, n)
             /\ IF n % i = 0
                   THEN /\ ret' = FALSE
                        /\ pc' = "ret"
                        /\ UNCHANGED i
                   ELSE /\ i' = i + 1
                        /\ UNCHANGED <<ret, pc>>
             /\ UNCHANGED <<t, now, k, sum, n, out>>

\* The loop of p(n) has ended without a divisor: return true.
InnerExit == /\ pc = "inner"
             /\ ~LoopCond(i, n)
             /\ ret' = TRUE
             /\ pc' = "ret"
             /\ UNCHANGED <<t, now, k, sum, n, i, out>>

\* if (p(k)) { sum++; } and the loop's k++.
Tally == /\ pc = "ret"
         /\ sum' = IF ret THEN sum + 1 ELSE sum
         /\ k' = k + 1
         /\ pc' = "outer"
         /\ UNCHANGED <<t, now, n, i, ret, out>>

\* console.log(sum);
LogSum == /\ pc = "logSum"
          /\ out' = Append(out, sum)
          /\ pc' = "logTime"
          /\ UNCHANGED <<t, now, k, sum, n, i, ret>>

\* Mutant: the elapsed time is computed as t - performance.now().
LogTimeReversed == /\ pc = "logTime"
                   /\ out' = Append(out, t - now)
                   /\ pc' = "done"
                   /\ UNCHANGED <<t, now, k, sum, n, i, ret>>

\* console.log(performance.now() - t);
LogTime == /\ pc = "logTime"
           /\ out' = Append(out, now - t)
           /\ pc' = "done"
           /\ UNCHANGED <<t, now, k, sum, n, i, ret>>

\* Time passes while the script runs.
Tick == /\ pc # "done"
        /\ now < MaxNow
        /\ now' = now + 1
        /\ UNCHANGED <<pc, t, k, sum, n, i, ret, out>>

\* The script has ended.
Terminated == pc = "done" /\ UNCHANGED vars

Step == Start \/ Outer \/ InnerStep \/ InnerExit \/ Tally \/ LogSum \/ LogTime

Next == Step \/ Tick \/ Terminated

\* The script is the only thread of the engine and never waits, so it keeps
\* taking its own steps; the clock is not required to move.
Spec == Init /\ [][Next]_vars /\ WF_vars(Step)

(***************************************************************************)
(* Properties.                                                             *)
(***************************************************************************)

\* The abstract benchmark of PrimeCount seen through the script's state:
\* before line 13 runs, k is about to be 2; the abstract log holds the first
\* value the script logs, the count (the second is the elapsed time).
PC == INSTANCE PrimeCount
        WITH k <- IF pc = "start" THEN 2 ELSE k,
             printed <- IF out = <<>> THEN <<>> ELSE <<out[1]>>

\* The first line the benchmark logs is the number of primes below 100000:
\* the trial division of p(n), stopping at the largest i with i * i <= n,
\* tells primes from composites exactly (squares of primes included), and
\* the outer loop visits every k from 2 to 99999 once.
OutputCorrect == Len(out) >= 1 => out[1] = Cardinality(PC!PrimesBelow(Limit))

\* The script ends: both loops of test3.js terminate and both lines are
\* logged.
Termination == <>(pc = "done")

\* The script implements the abstract benchmark: every step either counts
\* one k exactly as "if k is prime then sum++" would, logs the count once the
\* loop has passed every k below 100000, or leaves k, sum and the count log
\* alone; and it does not stop before the abstract benchmark does.
Refines == PC!FairSpec
=============================================================================
