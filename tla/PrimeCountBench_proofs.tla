------------------------ MODULE PrimeCountBench_proofs ------------------------
(***************************************************************************)
(* Proofs about the benchmark test3.js, for every Limit and every clock    *)
(* bound: its state is well typed, the count it logs is the number of      *)
(* primes below Limit, and it implements the abstract benchmark PrimeCount *)
(* (the safety part; that it terminates is checked by TLC only).           *)
(***************************************************************************)
EXTENDS PrimeCountBench, FiniteSetTheorems, TLAPS

IsPrime(m) == PC!IsPrime(m)
PrimesBelow(m) == PC!PrimesBelow(m)

(***************************************************************************)
(* Arithmetic of the trial division in p(n).                               *)
(***************************************************************************)

\* If i * i <= n and i divides n, then n is not prime: i lies strictly
\* between 1 and n.  This is why p(n) may return false at the first divisor.
LEMMA TrialDivisionSound ==
  ASSUME NEW m \in Nat, NEW j \in Nat, 2 <= j, j * j <= m, m % j = 0
  PROVE  ~IsPrime(m)
<1>1. j < m
  <2>1. j * 2 <= j * j
    BY SMT
  <2>. QED
    BY <2>1, SMT
<1>2. j \in 2..(m - 1) /\ m % j = 0
  BY <1>1
<1>. QED
  BY <1>2 DEF IsPrime, PC!IsPrime

\* If no i from 2 up to the first i with i * i > n divides n, then n is
\* prime: of the two factors of a composite n, one is at most sqrt(n).  This
\* is why p(n) may stop at i * i > n and return true.
LEMMA TrialDivisionComplete ==
  ASSUME NEW m \in Nat, NEW j \in Nat, 2 <= m, 2 <= j, ~(j * j <= m),
         \A d \in 2..(j - 1) : m % d # 0
  PROVE  IsPrime(m)
<1>. SUFFICES ASSUME NEW d \in 2..(m - 1), m % d = 0
              PROVE  FALSE
  BY DEF IsPrime, PC!IsPrime
<1>1. d >= j
  <2>1. SUFFICES ASSUME d < j PROVE FALSE
    OBVIOUS
  <2>2. d \in 2..(j - 1)
    BY <2>1
  <2>. QED
    BY <2>2
<1>. DEFINE e == m \div d
<1>2. e \in Nat /\ m = d * e
  BY SMT
<1>3. e >= 2
  <2>1. SUFFICES ASSUME e <= 1 PROVE FALSE
    BY <1>2
  <2>2. d * e <= d
    BY <1>2, <2>1, SMT
  <2>. QED
    BY <1>2, <2>2
<1>4. e < j
  <2>1. SUFFICES ASSUME e >= j PROVE FALSE
    BY <1>2
  <2>2. d * e >= j * e
    BY <1>1, <1>2, SMT
  <2>3. j * e >= j * j
    BY <1>2, <2>1, SMT
  <2>. QED
    BY <1>2, <2>2, <2>3, SMT
<1>5. m % e = 0
  <2>. DEFINE q == m \div e
              r == m % e
  <2>0. e \in Nat \ {0}
    BY <1>2, <1>3
  <2>a. q \in Int
    BY <2>0, SMT
  <2>b. r \in 0..(e - 1)
    BY <2>0, SMT
  <2>c. m = e * q + r
    BY <2>0, SMT
  <2>1. q \in Int /\ r \in 0..(e - 1) /\ m = e * q + r
    BY <2>a, <2>b, <2>c
  <2>2. e * (d - q) = r
    BY <1>2, <2>1, SMT
  <2>3. ~(d - q >= 1)
    <3>1. SUFFICES ASSUME d - q >= 1 PROVE FALSE
      OBVIOUS
    <3>2. e * (d - q) >= e * 1
      BY <1>2, <1>3, <2>1, <3>1, SMT
    <3>. QED
      BY <2>1, <2>2, <3>2, SMT
  <2>4. ~(d - q <= -1)
    <3>1. SUFFICES ASSUME d - q <= -1 PROVE FALSE
      OBVIOUS
    <3>2. e * (d - q) <= e * (-1)
      BY <1>2, <1>3, <2>1, <3>1, SMT
    <3>. QED
      BY <1>3, <2>1, <2>2, <3>2, SMT
  <2>. QED
    BY <1>2, <2>1, <2>2, <2>3, <2>4, SMT
<1>. QED
  BY <1>3, <1>4, <1>5

(***************************************************************************)
(* Counting the primes below k, one k at a time.                           *)
(***************************************************************************)

\* The primes below m form a finite set.
LEMMA PrimesBelowFinite ==
  ASSUME NEW m \in Nat
  PROVE  IsFiniteSet(PrimesBelow(m))
<1>1. IsFiniteSet(2..(m - 1))
  BY FS_Interval
<1>. QED
  BY <1>1, FS_Subset DEF PrimesBelow, PC!PrimesBelow

\* Passing k adds one to the count of primes exactly when k is prime: the
\* step sum++ of line 15 under the test p(k) of line 14.
LEMMA PrimesBelowStep ==
  ASSUME NEW m \in Nat, 2 <= m
  PROVE  Cardinality(PrimesBelow(m + 1)) =
           IF IsPrime(m) THEN Cardinality(PrimesBelow(m)) + 1
                         ELSE Cardinality(PrimesBelow(m))
<1>1. IsFiniteSet(PrimesBelow(m))
  BY PrimesBelowFinite
<1>2. CASE IsPrime(m)
  <2>1. PrimesBelow(m + 1) = PrimesBelow(m) \cup {m}
    BY <1>2 DEF PrimesBelow, PC!PrimesBelow, IsPrime
  <2>2. m \notin PrimesBelow(m)
    BY DEF PrimesBelow, PC!PrimesBelow
  <2>. QED
    BY <1>1, <1>2, <2>1, <2>2, FS_AddElement
<1>3. CASE ~IsPrime(m)
  <2>1. PrimesBelow(m + 1) = PrimesBelow(m)
    BY <1>3 DEF PrimesBelow, PC!PrimesBelow, IsPrime
  <2>. QED
    BY <1>3, <2>1
<1>. QED
  BY <1>2, <1>3

\* There is no prime below 2: the count starts at 0 with k = 2.
LEMMA PrimesBelowTwo ==
  ASSUME NEW m \in Nat, m <= 2
  PROVE  PrimesBelow(m) = {}
BY DEF PrimesBelow, PC!PrimesBelow

(***************************************************************************)
(* The inductive invariant.  TypeOK alone is not inductive: the elapsed    *)
(* time logged at line 20 is a natural only because the clock never runs  *)
(* back past t.  The count needs the loop invariants of both loops: sum    *)
(* counts the primes below k, p(n) has found no divisor below i, and its   *)
(* result is right when it returns.                                        *)
(***************************************************************************)
Running == {"outer", "inner", "ret", "logSum", "logTime", "done"}

IInv ==
  /\ TypeOK
  /\ t <= now
  /\ pc = "start" => sum = 0 /\ out = <<>>
  /\ pc \in Running => /\ 2 <= k
                       /\ (k <= Limit \/ k = 2)
                       /\ sum = Cardinality(PrimesBelow(k))
  /\ pc \in {"inner", "ret"} => n = k /\ k < Limit
  /\ pc = "inner" => 2 <= i /\ \A d \in 2..(i - 1) : n % d # 0
  /\ pc = "ret" => (ret <=> IsPrime(n))
  /\ pc \in {"logSum", "logTime", "done"} => ~(k < Limit)
  /\ pc \in {"start", "outer", "inner", "ret", "logSum"} => out = <<>>
  /\ pc \in {"logTime", "done"} => Len(out) >= 1 /\ out[1] = sum

LEMMA InitIInv == Init => IInv
<1>. SUFFICES ASSUME Init PROVE IInv
  OBVIOUS
<1>1. TypeOK
  <2>1. out \in Seq(Nat)
    BY DEF Init
  <2>2. t \in 0..MaxNow /\ now \in 0..MaxNow
    BY MaxNowAssumption DEF Init
  <2>3. ret \in BOOLEAN /\ pc \in Labels
    BY Zenon DEF Init, Labels
  <2>4. k \in Nat /\ sum \in Nat /\ n \in Nat /\ i \in Nat
    BY DEF Init
  <2>. QED
    BY <2>1, <2>2, <2>3, <2>4, Zenon DEF TypeOK
<1>. QED
  BY <1>1, MaxNowAssumption DEF Init, IInv, Running

\* let t = performance.now(); let sum = 0; let k = 2: nothing is counted yet.
LEMMA StartStep == IInv /\ Start => IInv'
<1>. SUFFICES ASSUME IInv, Start PROVE IInv'
  OBVIOUS
<1>1. TypeOK'
  BY DEF IInv, TypeOK, Start, Labels
<1>2. sum' = Cardinality(PrimesBelow(k'))
  BY PrimesBelowTwo, FS_EmptySet DEF Start
<1>3. pc' = "outer" /\ k' = 2 /\ t' <= now' /\ out' = <<>>
  <2>1. pc' = "outer" /\ k' = 2
    BY DEF Start
  <2>2. t' <= now'
    BY DEF IInv, TypeOK, Start
  <2>3. out' = <<>>
    BY DEF IInv, Start
  <2>. QED
    BY <2>1, <2>2, <2>3
<1>4. (pc \in Running => /\ 2 <= k
                        /\ (k <= Limit \/ k = 2)
                        /\ sum = Cardinality(PrimesBelow(k)))'
  BY <1>2, <1>3
<1>. QED
  BY <1>1, <1>3, <1>4 DEF IInv

\* The outer loop test either calls p(k) with a k below Limit or ends the
\* loop with k = Limit.
LEMMA OuterStep == IInv /\ Outer => IInv'
<1>. SUFFICES ASSUME IInv, Outer PROVE IInv'
  OBVIOUS
<1>1. CASE OuterCond(k)
  <2>1. TypeOK'
    BY <1>1 DEF IInv, TypeOK, Outer, Labels
  <2>. QED
    BY <1>1, <2>1 DEF IInv, Outer, OuterCond, Running
<1>2. CASE ~OuterCond(k)
  <2>1. TypeOK'
    BY <1>2 DEF IInv, TypeOK, Outer, Labels
  <2>. QED
    BY <1>2, <2>1 DEF IInv, Outer, OuterCond, Running
<1>. QED
  BY <1>1, <1>2

\* A pass of the loop of p(n): either i divides n (and n is composite) or
\* no divisor has been found up to i.
LEMMA InnerStepStep == IInv /\ InnerStep => IInv'
<1>. SUFFICES ASSUME IInv, InnerStep PROVE IInv'
  OBVIOUS
<1>0. pc = "inner" /\ LoopCond(i, n) /\ n = k /\ 2 <= i /\ i \in Nat /\ n \in Nat
  BY DEF IInv, TypeOK, InnerStep
<1>1. CASE n % i = 0
  <2>1. ~IsPrime(n)
    BY <1>0, <1>1, TrialDivisionSound DEF LoopCond
  <2>2. ret' = FALSE /\ pc' = "ret" /\ UNCHANGED <<t, now, k, sum, n, i, out>>
    BY <1>1 DEF InnerStep
  <2>3. TypeOK'
    BY <2>2 DEF IInv, TypeOK, Labels
  <2>4. (ret <=> IsPrime(n))'
    BY <2>1, <2>2
  <2>. QED
    BY <1>0, <2>2, <2>3, <2>4 DEF IInv, Running
<1>2. CASE n % i # 0
  <2>1. i' = i + 1 /\ UNCHANGED <<ret, pc, t, now, k, sum, n, out>>
    BY <1>2 DEF InnerStep
  <2>2. \A d \in 2..(i' - 1) : n' % d # 0
    <3>1. SUFFICES ASSUME NEW d \in 2..(i' - 1) PROVE n % d # 0
      BY <2>1
    <3>2. CASE d = i
      BY <1>2, <3>2
    <3>3. CASE d # i
      <4>1. d \in 2..(i - 1)
        BY <1>0, <2>1, <3>3
      <4>. QED
        BY <4>1, <1>0 DEF IInv
    <3>. QED
      BY <3>2, <3>3
  <2>3. TypeOK'
    BY <1>0, <2>1 DEF IInv, TypeOK
  <2>. QED
    BY <1>0, <2>1, <2>2, <2>3 DEF IInv, Running
<1>. QED
  BY <1>1, <1>2

\* p(n) returns true once i * i > n: n is prime.
LEMMA InnerExitStep == IInv /\ InnerExit => IInv'
<1>. SUFFICES ASSUME IInv, InnerExit PROVE IInv'
  OBVIOUS
<1>0. pc = "inner" /\ ~LoopCond(i, n) /\ n = k /\ 2 <= k /\ 2 <= i
      /\ i \in Nat /\ n \in Nat /\ \A d \in 2..(i - 1) : n % d # 0
  BY DEF IInv, TypeOK, InnerExit, Running
<1>1. IsPrime(n)
  BY <1>0, TrialDivisionComplete DEF LoopCond
<1>2. ret' = TRUE /\ pc' = "ret" /\ UNCHANGED <<t, now, k, sum, n, i, out>>
  BY DEF InnerExit
<1>3. TypeOK'
  BY <1>2 DEF IInv, TypeOK, Labels
<1>4. (ret <=> IsPrime(n))'
  BY <1>1, <1>2
<1>. QED
  BY <1>0, <1>2, <1>3, <1>4 DEF IInv, Running

\* if (p(k)) sum++; k++: the count follows k, by PrimesBelowStep.
LEMMA TallyStep == IInv /\ Tally => IInv'
<1>. SUFFICES ASSUME IInv, Tally PROVE IInv'
  OBVIOUS
<1>0. /\ pc = "ret" /\ k \in Nat /\ 2 <= k /\ k < Limit /\ n = k
      /\ sum = Cardinality(PrimesBelow(k)) /\ (ret <=> IsPrime(k))
  BY DEF IInv, TypeOK, Tally, Running
<1>1. pc' = "outer" /\ k' = k + 1 /\ UNCHANGED <<t, now, n, i, ret, out>>
  BY DEF Tally
<1>2. sum' = Cardinality(PrimesBelow(k'))
  <2>1. CASE ret
    <3>1. sum' = sum + 1 /\ IsPrime(k)
      BY <1>0, <2>1 DEF Tally
    <3>. QED
      BY <1>0, <1>1, <3>1, PrimesBelowStep
  <2>2. CASE ~ret
    <3>1. sum' = sum /\ ~IsPrime(k)
      BY <1>0, <2>2 DEF Tally
    <3>. QED
      BY <1>0, <1>1, <3>1, PrimesBelowStep
  <2>. QED
    BY <2>1, <2>2
<1>3. TypeOK'
  <2>1. sum' \in Nat
    <3>1. k' \in Nat
      BY <1>0, <1>1
    <3>2. IsFiniteSet(PrimesBelow(k'))
      BY <3>1, PrimesBelowFinite
    <3>. QED
      BY <1>2, <3>2, FS_CardinalityType
  <2>. QED
    BY <1>0, <1>1, <2>1 DEF IInv, TypeOK, Labels
<1>4. t' <= now' /\ 2 <= k' /\ k' <= Limit /\ out' = <<>>
  <2>1. t' <= now'
    BY <1>1 DEF IInv, TypeOK
  <2>2. 2 <= k' /\ k' <= Limit
    BY <1>0, <1>1, LimitAssumption
  <2>3. out' = <<>>
    BY <1>0, <1>1 DEF IInv
  <2>. QED
    BY <2>1, <2>2, <2>3
<1>. QED
  BY <1>1, <1>2, <1>3, <1>4 DEF IInv, Running

\* console.log(sum): the first line logged is the count.
LEMMA LogSumStep == IInv /\ LogSum => IInv'
<1>. SUFFICES ASSUME IInv, LogSum PROVE IInv'
  OBVIOUS
<1>0. pc = "logSum" /\ out = <<>> /\ sum \in Nat
  BY DEF IInv, TypeOK, LogSum
<1>1. pc' = "logTime" /\ out' = <<sum>> /\ UNCHANGED <<t, now, k, sum, n, i, ret>>
  BY <1>0 DEF LogSum
<1>2. TypeOK'
  BY <1>0, <1>1 DEF IInv, TypeOK, Labels
<1>. QED
  BY <1>0, <1>1, <1>2 DEF IInv, Running

\* console.log(performance.now() - t): a natural, since the clock has not
\* gone back past t; the count stays first.
LEMMA LogTimeStep == IInv /\ LogTime => IInv'
<1>. SUFFICES ASSUME IInv, LogTime PROVE IInv'
  OBVIOUS
<1>0. pc = "logTime" /\ out \in Seq(Nat) /\ Len(out) >= 1 /\ out[1] = sum
      /\ t \in Nat /\ now \in Nat /\ t <= now
  BY DEF IInv, TypeOK, LogTime
<1>1. pc' = "done" /\ out' = Append(out, now - t)
      /\ UNCHANGED <<t, now, k, sum, n, i, ret>>
  BY DEF LogTime
<1>2. out' \in Seq(Nat) /\ Len(out') >= 1 /\ out'[1] = sum'
  BY <1>0, <1>1
<1>3. TypeOK'
  BY <1>1, <1>2 DEF IInv, TypeOK, Labels
<1>. QED
  BY <1>0, <1>1, <1>2, <1>3 DEF IInv, Running

\* Time passes: the clock moves forward, never past MaxNow.
LEMMA TickStep == IInv /\ Tick => IInv'
<1>. SUFFICES ASSUME IInv, Tick PROVE IInv'
  OBVIOUS
<1>1. now' = now + 1 /\ now < MaxNow /\ UNCHANGED <<pc, t, k, sum, n, i, ret, out>>
  BY DEF Tick
<1>2. TypeOK'
  <2>1. now' \in 0..MaxNow
    BY <1>1, MaxNowAssumption DEF IInv, TypeOK
  <2>. QED
    BY <1>1, <2>1, Zenon DEF IInv, TypeOK
<1>3. t' <= now'
  BY <1>1 DEF IInv, TypeOK
<1>. QED
  BY <1>1, <1>2, <1>3 DEF IInv

\* No step of the script or of the clock breaks the invariant.
LEMMA NextStep == IInv /\ [Next]_vars => IInv'
<1>. SUFFICES ASSUME IInv, [Next]_vars PROVE IInv'
  OBVIOUS
<1>1. CASE UNCHANGED vars
  BY <1>1 DEF vars, IInv, TypeOK
<1>2. CASE Terminated
  BY <1>2 DEF Terminated, vars, IInv, TypeOK
<1>. QED
  BY <1>1, <1>2, StartStep, OuterStep, InnerStepStep, InnerExitStep,
     TallyStep, LogSumStep, LogTimeStep, TickStep DEF Next, Step

\* The script's variables always have the types TypeOK gives them: the loop
\* counters and the count are naturals, and so is every value logged, the
\* elapsed time performance.now() - t included.
THEOREM TypeCorrect == Spec => []TypeOK
<1>1. Spec => []IInv
  BY InitIInv, NextStep, PTL DEF Spec
<1>2. IInv => TypeOK
  BY DEF IInv
<1>. QED
  BY <1>1, <1>2, PTL

\* Once the loop is over, the count in sum is that of the primes below Limit,
\* whether the loop ran (k = Limit) or not (Limit <= 2 and k = 2).
LEMMA ExitCount ==
  ASSUME IInv, pc \in {"logSum", "logTime", "done"}
  PROVE  sum = Cardinality(PrimesBelow(Limit))
<1>1. /\ k \in Nat /\ ~(k < Limit) /\ (k <= Limit \/ k = 2)
      /\ sum = Cardinality(PrimesBelow(k))
  BY DEF IInv, TypeOK, Running
<1>2. CASE k = Limit
  BY <1>1, <1>2
<1>3. CASE k # Limit
  <2>1. k = 2 /\ Limit <= 2
    BY <1>1, <1>3, LimitAssumption
  <2>2. PrimesBelow(k) = PrimesBelow(Limit)
    BY <2>1, LimitAssumption, PrimesBelowTwo
  <2>. QED
    BY <1>1, <2>2
<1>. QED
  BY <1>2, <1>3

\* The first line test3.js logs is the number of primes below Limit, for
\* every Limit: the trial division of p(n) is exact and the outer loop
\* counts every k from 2 to Limit - 1 once.
THEOREM OutputIsPrimeCount == Spec => []OutputCorrect
<1>1. Spec => []IInv
  BY InitIInv, NextStep, PTL DEF Spec
<1>2. IInv => OutputCorrect
  <2>. SUFFICES ASSUME IInv, Len(out) >= 1
                PROVE  out[1] = Cardinality(PC!PrimesBelow(Limit))
    BY DEF OutputCorrect
  <2>1. pc \in {"logTime", "done"}
    BY DEF IInv, TypeOK, Labels
  <2>2. out[1] = sum
    BY <2>1 DEF IInv
  <2>. QED
    BY <2>1, <2>2, ExitCount DEF PrimesBelow
<1>. QED
  BY <1>1, <1>2, PTL

(***************************************************************************)
(* Refinement: the script implements the abstract benchmark PrimeCount     *)
(* under the mapping of PC (k is 2 before line 13 runs; the abstract log   *)
(* is the first line logged).                                              *)
(***************************************************************************)
kBar == IF pc = "start" THEN 2 ELSE k
printedBar == IF out = <<>> THEN <<>> ELSE <<out[1]>>

\* A step that leaves k, sum and the count log alone is an abstract stutter.
LEMMA Stutters ==
  ASSUME kBar' = kBar, sum' = sum, printedBar' = printedBar
  PROVE  [PC!Next]_PC!avars
BY DEF PC!avars, kBar, printedBar

\* if (p(k)) sum++; k++ is one abstract Count step: p(k) has returned
\* whether k is prime, and k is below Limit.
LEMMA TallyRefines == IInv /\ Tally => PC!Count
<1>. SUFFICES ASSUME IInv, Tally PROVE PC!Count
  OBVIOUS
<1>1. pc = "ret" /\ pc' = "outer" /\ k < Limit /\ n = k /\ (ret <=> IsPrime(k))
  BY DEF IInv, Tally
<1>3. sum' = IF IsPrime(k) THEN sum + 1 ELSE sum
  BY <1>1 DEF Tally
<1>5. k' = k + 1 /\ out' = out
  BY DEF Tally
<1>6. /\ (IF pc = "start" THEN 2 ELSE k) < Limit
      /\ sum' = IF PC!IsPrime(IF pc = "start" THEN 2 ELSE k) THEN sum + 1 ELSE sum
      /\ (IF pc' = "start" THEN 2 ELSE k') = (IF pc = "start" THEN 2 ELSE k) + 1
  BY <1>1, <1>3, <1>5 DEF IsPrime
<1>. QED
  BY <1>5, <1>6 DEF PC!Count

\* console.log(sum) is the abstract LogCount step: the loop has ended and
\* nothing has been logged yet.
LEMMA LogSumRefines == IInv /\ LogSum => PC!LogCount
<1>. SUFFICES ASSUME IInv, LogSum PROVE PC!LogCount
  OBVIOUS
<1>1. pc = "logSum" /\ ~(k < Limit) /\ out = <<>>
  BY DEF IInv, LogSum
<1>2. kBar = k /\ kBar' = k /\ printedBar = <<>> /\ printedBar' = <<sum>>
  BY <1>1 DEF kBar, printedBar, LogSum
<1>. QED
  BY <1>1, <1>2 DEF PC!LogCount, LogSum, kBar, printedBar

\* Every step of the script maps to an abstract step or a stutter.
LEMMA StepRefines == IInv /\ [Next]_vars => [PC!Next]_PC!avars
<1>. SUFFICES ASSUME IInv, [Next]_vars PROVE [PC!Next]_PC!avars
  OBVIOUS
<1>1. CASE Start
  <2>1. kBar = 2 /\ kBar' = 2 /\ sum = 0 /\ sum' = 0
    BY <1>1 DEF Start, kBar, IInv
  <2>. QED
    BY <1>1, <2>1, Stutters DEF Start, printedBar
<1>2. CASE Outer \/ InnerStep \/ InnerExit
  <2>1. pc # "start" /\ pc' # "start" /\ UNCHANGED <<k, sum, out>>
    BY <1>2 DEF Outer, InnerStep, InnerExit
  <2>. QED
    BY <2>1, Stutters DEF kBar, printedBar
<1>3. CASE Tally
  BY <1>3, TallyRefines DEF PC!Next
<1>4. CASE LogSum
  BY <1>4, LogSumRefines DEF PC!Next
<1>5. CASE LogTime
  <2>1. pc = "logTime" /\ pc' = "done" /\ UNCHANGED <<k, sum>>
    BY <1>5 DEF LogTime
  <2>2. out \in Seq(Nat) /\ Len(out) >= 1 /\ out' = Append(out, now - t)
    BY <1>5, <2>1 DEF IInv, TypeOK, LogTime
  <2>3. out' # <<>> /\ out # <<>> /\ out'[1] = out[1]
    BY <2>2
  <2>. QED
    BY <2>1, <2>3, Stutters DEF kBar, printedBar
<1>6. CASE Tick \/ Terminated \/ UNCHANGED vars
  <2>1. UNCHANGED <<pc, k, sum, out>>
    BY <1>6 DEF Tick, Terminated, vars
  <2>. QED
    BY <2>1, Stutters DEF kBar, printedBar
<1>. QED
  BY <1>1, <1>2, <1>3, <1>4, <1>5, <1>6 DEF Next, Step

\* test3.js implements the abstract benchmark: from its start, every step
\* either counts one k exactly as "if k is prime then sum++" would, logs
\* the count once every k below Limit has been counted, or leaves the
\* abstract state alone.  (That it also terminates, the fairness part of
\* Refines, is checked by TLC only.)
THEOREM Implements == Spec => PC!Spec
<1>1. Init => PC!Init
  BY DEF Init, PC!Init
<1>2. Spec => []IInv
  BY InitIInv, NextStep, PTL DEF Spec
<1>. QED
  BY <1>1, <1>2, StepRefines, PTL DEF Spec, PC!Spec
=============================================================================
