------------------ MODULE ValidateNativeFunctionSource_progress ------------------
(***************************************************************************)
(* The termination argument of validateNativeFunctionSource, as a safety  *)
(* property: Measure is a natural number and every step of the call       *)
(* decreases it.  That no call runs forever follows, since the naturals   *)
(* are well-founded; the conclusion <>(pc \in Results) itself needs the   *)
(* fairness of Spec and stays with TLC (run termination).                 *)
(***************************************************************************)
EXTENDS ValidateNativeFunctionSource_proofs

LEMMA StatementsLeftBounds ==
  ASSUME NEW l
  PROVE  /\ StatementsLeft(l) \in 0 .. 13
         /\ l \in Labels \ Results => StatementsLeft(l) \in 1 .. 13
  BY DEF StatementsLeft, Labels, Results

LEMMA RankOfBounds ==
  ASSUME NEW l, NEW sk \in BOOLEAN
  PROVE  RankOf(l, sk) \in 0 .. 27
<1>1. StatementsLeft(l) \in 0 .. 13
  BY StatementsLeftBounds
<1>2. CASE sk
  BY <1>1, <1>2 DEF RankOf
<1>3. CASE ~sk
  BY <1>1, <1>3 DEF RankOf
<1>. QED
  BY <1>2, <1>3

(* The line-comment loop, started on the '/' of `//`, stops past it.       *)
LEMMA LineEndAdvances ==
  ASSUME source \in Seq(CodeUnits), NEW p \in Nat, p < Len(source), At(p) = "/"
  PROVE  LineEnd(p) \in p + 1 .. Len(source)
<1>. DEFINE S == {q \in p .. Len(source) : q = Len(source) \/ isNewline(At(q))}
<1>1. S \in SUBSET Nat /\ Len(source) \in S
  OBVIOUS
<1>2. Least(S) \in S
  BY <1>1, LeastIsLeast
<1>3. p \notin S
  BY DEF isNewline
<1>. QED
  BY <1>2, <1>3 DEF LineEnd

(* The lexicographic order of <<cursor, rank>>, weighed into one natural. *)
LEMMA LexDown ==
  ASSUME NEW n \in Nat, NEW a \in Int, NEW b \in Int, NEW r \in 0 .. 27,
         NEW r2 \in 0 .. 27, a > b \/ (a = b /\ r2 < r)
  PROVE  (n + 2 - a) * 28 + r2 < (n + 2 - b) * 28 + r
  OBVIOUS

(* The weighed measure is a natural while the cursor is in range.        *)
LEMMA WeightNat ==
  ASSUME NEW n \in Nat, NEW p \in 0 .. n + 1, NEW r \in 0 .. 27
  PROVE  (n + 2 - p) * 28 + r \in Nat
  OBVIOUS

(* The measure goes down when the cursor moves forward (one unit outweighs *)
(* every statement), or when it stays and the call moves to a later        *)
(* statement.                                                              *)
LEMMA MeasureDown ==
  ASSUME TypeOK, TypeOK', source' = source,
         \/ pos' > pos
         \/ pos' = pos /\ RankOf(pc', skipping') < RankOf(pc, skipping)
  PROVE  Measure' < Measure
<1>1. skipping \in BOOLEAN /\ skipping' \in BOOLEAN
      /\ pos \in Int /\ pos' \in Int /\ Len(source) \in Nat
  BY DEF TypeOK
<1>2. RankOf(pc, skipping) \in 0 .. 27 /\ RankOf(pc', skipping') \in 0 .. 27
  BY <1>1, RankOfBounds
<1>3. Measure = (Len(source) + 2 - pos) * 28 + RankOf(pc, skipping)
  BY DEF Measure
<1>4. Measure' = (Len(source) + 2 - pos') * 28 + RankOf(pc', skipping')
  BY DEF Measure
<1>5. (Len(source) + 2 - pos') * 28 + RankOf(pc', skipping')
        < (Len(source) + 2 - pos) * 28 + RankOf(pc, skipping)
  BY <1>1, <1>2, LexDown, Zenon
<1>. QED
  BY <1>3, <1>4, <1>5, Zenon

(* throw new SyntaxError() from any statement of the call.                 *)
LEMMA ThrowDown ==
  ASSUME TypeOK, Throw, pc \in Labels \ Results
  PROVE  pos' = pos /\ RankOf(pc', skipping') < RankOf(pc, skipping)
<1>1. pos' = pos /\ pc' = "SyntaxError" /\ skipping' = FALSE
  BY DEF Throw
<1>2. StatementsLeft(pc) \in 1 .. 13 /\ StatementsLeft("SyntaxError") = 0
  BY StatementsLeftBounds DEF StatementsLeft
<1>. QED
  BY <1>1, <1>2 DEF RankOf

(* Once the call has returned, it takes no step; every step before that   *)
(* moves the cursor forward or hands over to a later statement.           *)
LEMMA ProgressStep ==
  ASSUME MInv, Next
  PROVE  \/ pos' > pos
         \/ pos' = pos /\ RankOf(pc', skipping') < RankOf(pc, skipping)
<1>1. TypeOK /\ source \in Seq(CodeUnits) /\ pos \in Nat /\ pos' \in Nat /\ Returned
  <2>1. IInv'
    BY NextStep DEF MInv
  <2>. QED
    BY <2>1 DEF MInv, IInv, TypeOK
<1>2. CASE Throw /\ pc \in Labels \ Results
  BY <1>1, <1>2, ThrowDown
<1>3. CASE WsSkipUnit \/ WsBlockComment \/ WsLineComment
  <2>1. pos' > pos
    <3>1. CASE WsBlockComment
      BY <1>1, <3>1, StarSlashBounds DEF WsBlockComment
    <3>2. CASE WsLineComment
      BY <1>1, <3>2, LineEndAdvances DEF WsLineComment
    <3>. QED
      BY <1>1, <1>3, <3>1, <3>2 DEF WsSkipUnit
  <2>. QED
    BY <2>1
<1>5. CASE WsUnterminatedComment \/ WsDone
  <2>1. skipping /\ pc \in Labels
    BY <1>1, <1>5 DEF WsUnterminatedComment, WsDone, TypeOK
  <2>2. pc \in Labels \ Results
    BY <1>1, <2>1 DEF Returned
  <2>3. CASE WsDone
    <3>1. pos' = pos /\ pc' = pc /\ skipping' = FALSE
      BY <2>3 DEF WsDone
    <3>2. StatementsLeft(pc) \in 0 .. 13
      BY StatementsLeftBounds
    <3>. QED
      BY <2>1, <3>1, <3>2 DEF RankOf
  <2>4. CASE WsUnterminatedComment
    BY <1>2, <2>2, <2>4 DEF WsUnterminatedComment
  <2>. QED
    BY <1>5, <2>3, <2>4
<1>6. CASE \E h \in Labels \ Results : \E s : ExpectFail(h, s)
  BY <1>2, <1>6 DEF ExpectFail
<1>7. CASE \E h, t, s : ExpectOk(h, s, t)
  <2>1. pos' > pos
    BY <1>1, <1>7 DEF ExpectOk
  <2>. QED
    BY <2>1
<1>8. CASE EatAccessor \/ EatName \/ NoName
  <2>1. /\ pc \in {"accessor", "name"} /\ ~skipping
        /\ pc' \in {"name", "paren"} /\ skipping'
        /\ pc = "accessor" => pc' = "name"
        /\ pc = "name" => pc' = "paren"
    BY <1>8 DEF EatAccessor, EatName, NoName
  <2>2. RankOf(pc', skipping') < RankOf(pc, skipping)
    BY <2>1 DEF RankOf, StatementsLeft
  <2>3. pos' >= pos
    <3>1. IdentLength(pos) \in Nat
      BY <1>1, IdentLengthBounds
    <3>. QED
      BY <1>1, <1>8, <3>1 DEF EatAccessor, EatName, NoName
  <2>. QED
    BY <1>1, <2>2, <2>3
<1>9. CASE EatComputedName \/ OpenParams
  <2>1. pos' > pos
    BY <1>1, <1>9 DEF EatComputedName, OpenParams
  <2>. QED
    BY <2>1
<1>10. CASE StumbleLoop
  <2>1. pos' = pos /\ pc = "stumble" /\ pc' = "stumbleBody" /\ skipping'
    BY <1>10 DEF StumbleLoop
  <2>. QED
    BY <2>1 DEF RankOf, StatementsLeft
<1>11. CASE StumbleStep
  <2>1. PICK q \in pos .. Len(source) : pos' = q + 1
    BY <1>11, StumbleStepFacts DEF MInv
  <2>. QED
    BY <1>1, <2>1
<1>12. CASE AtEnd
  <2>1. pos' = pos /\ pc = "eof" /\ pc' = "accepted" /\ ~skipping /\ ~skipping'
    BY <1>12 DEF AtEnd
  <2>. QED
    BY <2>1 DEF RankOf, StatementsLeft
<1>13. CASE MissingParams \/ StumbleExhausted \/ StumbleBadString \/ TrailingText
  <2>1. Throw /\ pc \in {"paren", "stumble", "stumbleBody", "eof"}
    BY <1>13 DEF MissingParams, ExpectFail, StumbleExhausted, StumbleBadString,
                 TrailingText
  <2>. QED
    BY <1>2, <2>1 DEF Labels, Results
<1>. QED
  <2>1. \A h, s, t : h \in Labels \ Results /\ Expect(h, s, t) =>
          ExpectOk(h, s, t) \/ ExpectFail(h, s)
    BY DEF Expect
  <2>2. {"function", "lbrace", "lbracket", "native", "code", "rbracket", "rbrace"}
          \subseteq Labels \ Results
    BY DEF Labels, Results
  <2>. QED
    BY <1>3, <1>5, <1>6, <1>7, <1>8, <1>9, <1>10, <1>11, <1>12, <1>13,
       <2>1, <2>2 DEF Next

(* Every step of validateNativeFunctionSource decreases a natural-number   *)
(* measure, for every string: the loops of eatWhitespace, of the comment   *)
(* scans, of eatString and of stumbleUntil each move the cursor forward,   *)
(* and every other step hands over to a later statement.                   *)
THEOREM CallAlwaysProgresses == Spec => [](Measure \in Nat) /\ Progress
<1>1. MInv => Measure \in Nat
  <2>. SUFFICES ASSUME MInv PROVE Measure \in Nat
    OBVIOUS
  <2>1. skipping \in BOOLEAN /\ pos \in 0 .. Len(source) + 1 /\ Len(source) \in Nat
    BY DEF MInv, IInv, TypeOK
  <2>2. RankOf(pc, skipping) \in 0 .. 27
    BY <2>1, RankOfBounds
  <2>3. (Len(source) + 2 - pos) * 28 + RankOf(pc, skipping) \in Nat
    BY <2>1, <2>2, WeightNat, Zenon
  <2>. QED
    BY <2>3, Zenon DEF Measure
<1>2. MInv /\ [Next]_vars => [Measure' < Measure]_vars
  <2>. SUFFICES ASSUME MInv, [Next]_vars PROVE [Measure' < Measure]_vars
    OBVIOUS
  <2>1. CASE Next
    <3>1. TypeOK /\ TypeOK' /\ source' = source
      BY MarkerStep, SourceFixed DEF MInv, IInv
    <3>. QED
      BY <2>1, <3>1, ProgressStep, MeasureDown
  <2>2. CASE UNCHANGED vars
    BY <2>2
  <2>. QED
    BY <2>1, <2>2
<1>. QED
  BY InitMInv, MarkerStep, <1>1, <1>2, PTL DEF Spec, Progress
==================================================================================
