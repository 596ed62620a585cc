----------------------------- MODULE PrimeCount -----------------------------
(***************************************************************************)
(* What the benchmark src/rusty-js-core/bench/test3.js promises: it walks  *)
(* k = 2, 3, ..., Limit - 1, adds one to sum for every prime k, and then   *)
(* logs sum.  One step of this specification is one iteration of the outer *)
(* loop (lines 13-17) with the whole primality test p(k) taken atomically; *)
(* LogCount is the console.log(sum) of line 19.  PrimeCountBench           *)
(* implements it, with the trial division of p(n) and the timing of the    *)
(* run.                                                                    *)
(***************************************************************************)
EXTENDS Naturals, Sequences, FiniteSets

CONSTANT Limit          \* the exclusive bound of the outer loop (100000)

VARIABLES k,            \* the outer loop variable
          sum,          \* the number of primes counted so far
          printed       \* the values logged by console.log(sum)

avars == <<k, sum, printed>>

\* The reference definition of primality, independent of the benchmark's
\* trial division: m has no divisor strictly between 1 and m.
IsPrime(m) == m >= 2 /\ \A d \in 2..(m - 1) : m % d # 0

\* The primes below m, which the outer loop has passed when k = m.
PrimesBelow(m) == {j \in 2..(m - 1) : IsPrime(j)}

Init == /\ k = 2
        /\ sum = 0
        /\ printed = <<>>

\* One iteration of the outer loop: if (p(k)) { sum++; } then k++.
Count == /\ k < Limit
         /\ sum' = IF IsPrime(k) THEN sum + 1 ELSE sum
         /\ k' = k + 1
         /\ UNCHANGED printed

\* The loop has ended; console.log(sum).
LogCount == /\ ~(k < Limit)
            /\ printed = <<>>
            /\ printed' = <<sum>>
            /\ UNCHANGED <<k, sum>>

Next == Count \/ LogCount

Spec == Init /\ [][Next]_avars

\* The script runs on one thread and nothing it does blocks.
FairSpec == Spec /\ WF_avars(Next)
=============================================================================
