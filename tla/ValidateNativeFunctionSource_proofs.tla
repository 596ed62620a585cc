------------------ MODULE ValidateNativeFunctionSource_proofs ------------------
(***************************************************************************)
(* Proofs about ValidateNativeFunctionSource for every set of inputs: the  *)
(* type invariant, and that no step of the scan moves the cursor back.     *)
(* Both rest on what the closed forms of the inner loops (LineEnd,         *)
(* StarSlashFrom, StringEnd, IdentLength) return, which rests in turn on   *)
(* Least picking the least element of a non-empty set of naturals.         *)
(***************************************************************************)
EXTENDS ValidateNativeFunctionSource, WellFoundedInduction, SequenceTheorems, TLAPS

(* Least(S) is the least element of S, for a non-empty set S of naturals:  *)
(* the inner loops of eatWhitespace, eatString and getIdentifier stop at   *)
(* the first offset where their test fails.                                *)
LEMMA LeastIsLeast ==
  ASSUME NEW S \in SUBSET Nat, S # {}
  PROVE  /\ Least(S) \in S
         /\ \A f \in S : Least(S) <= f
<1>1. OpToRel(<, Nat) = {ss \in Nat \X Nat : ss[1] < ss[2]}
  BY DEF OpToRel
<1>2. PICK x \in S : \A y \in S : ~(<<y, x>> \in OpToRel(<, Nat))
  BY NatLessThanWellFounded, WFMin
<1>3. \A y \in S : ~(<<y, x>> \in {ss \in Nat \X Nat : ss[1] < ss[2]})
  BY <1>1, <1>2, Zenon
<1>4. \A y \in S : x <= y
  <2>1. SUFFICES ASSUME NEW y \in S, y < x PROVE FALSE
    BY SMT
  <2>2. <<y, x>> \in {ss \in Nat \X Nat : ss[1] < ss[2]}
    BY <2>1
  <2>. QED
    BY <1>3, <2>2
<1>. QED
  BY <1>4 DEF Least

(* The line-comment loop stops on a newline or at the end, not before    *)
(* where it started.                                                       *)
LEMMA LineEndBounds ==
  ASSUME source \in Seq(CodeUnits), NEW p \in Nat, p <= Len(source)
  PROVE  LineEnd(p) \in p .. Len(source)
<1>. DEFINE S == {q \in p .. Len(source) : q = Len(source) \/ isNewline(At(q))}
<1>1. S \in SUBSET Nat /\ Len(source) \in S
  OBVIOUS
<1>. QED
  BY <1>1, LeastIsLeast DEF LineEnd

(* `source.indexOf('*/', pos)`, when it finds one, finds it at or after    *)
(* pos and two units before the end at the latest.                         *)
LEMMA StarSlashBounds ==
  ASSUME source \in Seq(CodeUnits), NEW p \in Nat, StarSlashFrom(p) # {}
  PROVE  Least(StarSlashFrom(p)) \in p .. Len(source) - 2
<1>1. StarSlashFrom(p) \in SUBSET Nat
  BY DEF StarSlashFrom
<1>. QED
  BY <1>1, LeastIsLeast DEF StarSlashFrom

(* eatString, when it returns, leaves pos on a unit after the opening      *)
(* quote and before the end.                                               *)
LEMMA StringEndBounds ==
  ASSUME source \in Seq(CodeUnits), NEW p \in Nat, StringEnd(p) # -1
  PROVE  StringEnd(p) \in p + 1 .. Len(source) - 1
<1>1. StringStops(p) # {} /\ StringStops(p) \in SUBSET Nat
  BY DEF StringEnd, StringStops
<1>. QED
  BY <1>1, LeastIsLeast DEF StringEnd, StringStops

(* getIdentifier's loop stops at the end at the latest; at the end the     *)
(* identifier is empty.                                                    *)
LEMMA IdentLengthBounds ==
  ASSUME source \in Seq(CodeUnits), NEW p \in Nat
  PROVE  /\ IdentLength(p) \in Nat
         /\ p < Len(source) => p + IdentLength(p) \in p + 1 .. Len(source)
         /\ p >= Len(source) => IdentLength(p) = 0
<1>1. CASE p >= Len(source)
  BY <1>1 DEF IdentLength
<1>2. CASE p < Len(source)
  <2>. DEFINE S == {e \in p + 1 .. Len(source) : e = Len(source) \/ ~IDContinueTest(At(e))}
  <2>1. S \in SUBSET Nat /\ Len(source) \in S
    BY <1>2
  <2>2. Least(S) \in p + 1 .. Len(source)
    BY <2>1, LeastIsLeast
  <2>. QED
    BY <1>2, <2>2 DEF IdentLength
<1>. QED
  BY <1>1, <1>2

(* test(s) holds only on a unit of the string: past the end source[pos] is *)
(* undefined, and getIdentifier returns the empty string.                  *)
LEMMA TestAtInside ==
  ASSUME source \in Seq(CodeUnits), NEW p \in Nat,
         NEW s \in Words \cup {"(", "LBRACE", "[", "]", "RBRACE"}, TestAt(s, p)
  PROVE  p < Len(source)
<1>1. CASE s \in Words
  <2>1. Len(source) \in Nat
    OBVIOUS
  <2>2. SUFFICES ASSUME p >= Len(source) PROVE FALSE
    BY <2>1
  <2>3. IdentLength(p) = 0
    BY <2>2, IdentLengthBounds
  <2>4. SubSeq(source, p + 1, p) = << >>
    BY SubSeqEmpty
  <2>5. Identifier(p) = << >>
    BY <2>3, <2>4 DEF Identifier
  <2>6. Identifier(p) = <<s>>
    BY <1>1 DEF TestAt
  <2>. QED
    BY <2>5, <2>6
<1>2. CASE s \notin Words
  BY <1>2 DEF TestAt, At, Undefined, Words
<1>. QED
  BY <1>1, <1>2

-----------------------------------------------------------------------------
(* The inductive invariant.  TypeOK alone is not inductive: stumbleUntil's *)
(* `nesting -= 1` keeps nesting a natural only because the loop runs with  *)
(* nesting >= 1 (its caller has eaten the opening bracket), and its        *)
(* `pos += 1` keeps pos within one past the end only because the body      *)
(* runs on an offset no later than the end (the loop test, then            *)
(* eatWhitespace, which never passes the end).                             *)
StumbleNests == pc \in {"stumble", "stumbleBody"} => nesting >= 1

BodyInside == pc = "stumbleBody" => pos <= Len(source)

IInv == TypeOK /\ StumbleNests /\ BodyInside

LEMMA InitIInv == Init => IInv
  BY InputsAssumption DEF Init, IInv, TypeOK, StumbleNests, BodyInside, Labels

(* `throw new SyntaxError()` keeps the invariant and the cursor.           *)
LEMMA ThrowStep ==
  ASSUME IInv, Throw
  PROVE  IInv' /\ pos' >= pos
<1>1. pc' = "SyntaxError" /\ skipping' = FALSE /\ UNCHANGED <<source, pos, nesting, closer>>
  BY DEF Throw
<1>2. TypeOK'
  BY <1>1 DEF IInv, TypeOK, Labels, Results
<1>3. StumbleNests' /\ BodyInside'
  BY <1>1 DEF StumbleNests, BodyInside
<1>. QED
  BY <1>1, <1>2, <1>3 DEF IInv, TypeOK

(* expect(s) for each s the function expects after `function`.             *)
LEMMA ExpectStep ==
  ASSUME IInv, NEW here, NEW there \in Labels \ {"stumble", "stumbleBody"},
         NEW s \in Words \cup {"(", "LBRACE", "[", "]", "RBRACE"},
         Expect(here, s, there)
  PROVE  IInv' /\ pos' >= pos
<1>1. CASE ExpectOk(here, s, there)
  <2>1. pos < Len(source)
    BY <1>1, TestAtInside DEF ExpectOk, IInv, TypeOK
  <2>. QED
    BY <1>1, <2>1 DEF ExpectOk, IInv, TypeOK, StumbleNests, BodyInside
<1>2. CASE ExpectFail(here, s)
  BY <1>2, ThrowStep DEF ExpectFail
<1>. QED
  BY <1>1, <1>2 DEF Expect

(* The steps of eatWhitespace never pass the end of the string.           *)
LEMMA WsStep ==
  ASSUME IInv,
         WsSkipUnit \/ WsLineComment \/ WsBlockComment \/ WsUnterminatedComment \/ WsDone
  PROVE  IInv' /\ pos' >= pos
<1>. USE DEF IInv, TypeOK, StumbleNests, BodyInside
<1>1. CASE WsSkipUnit
  BY <1>1 DEF WsSkipUnit
<1>2. CASE WsLineComment
  <2>1. LineEnd(pos) \in pos .. Len(source)
    BY <1>2, LineEndBounds DEF WsLineComment
  <2>. QED
    BY <1>2, <2>1 DEF WsLineComment
<1>3. CASE WsBlockComment
  <2>1. Least(StarSlashFrom(pos)) \in pos .. Len(source) - 2
    BY <1>3, StarSlashBounds DEF WsBlockComment
  <2>. QED
    BY <1>3, <2>1 DEF WsBlockComment
<1>4. CASE WsUnterminatedComment
  BY <1>4, ThrowStep DEF WsUnterminatedComment
<1>5. CASE WsDone
  <2>1. skipping' = FALSE /\ UNCHANGED <<source, pos, pc, nesting, closer>>
    BY <1>5 DEF WsDone
  <2>2. TypeOK'
    BY <2>1
  <2>3. StumbleNests' /\ BodyInside'
    BY <2>1
  <2>. QED
    BY <2>1, <2>2, <2>3
<1>. QED
  BY <1>1, <1>2, <1>3, <1>4, <1>5

(* The optional accessor and name: each consumes what it tests, and a     *)
(* computed name enters stumbleUntil(']') with nesting 1.                  *)
LEMMA NameStep ==
  ASSUME IInv, EatAccessor \/ EatName \/ EatComputedName \/ NoName
  PROVE  IInv' /\ pos' >= pos
<1>. USE DEF IInv, TypeOK, StumbleNests, BodyInside
<1>1. CASE EatAccessor
  <2>1. TestAt("get", pos) \/ TestAt("set", pos) => pos < Len(source)
    BY TestAtInside DEF Words
  <2>. QED
    BY <1>1, <2>1 DEF EatAccessor, Labels
<1>2. CASE EatName
  <2>0. /\ IdentLength(pos) \in Nat
        /\ pos < Len(source) => pos + IdentLength(pos) \in pos + 1 .. Len(source)
        /\ pos >= Len(source) => IdentLength(pos) = 0
    BY IdentLengthBounds
  <2>1. pos + IdentLength(pos) \in pos .. Len(source) + 1
    BY <2>0
  <2>. QED
    BY <1>2, <2>1 DEF EatName, Labels
<1>3. CASE EatComputedName
  <2>1. pos < Len(source)
    BY <1>3 DEF EatComputedName, At, Undefined
  <2>. QED
    BY <1>3, <2>1 DEF EatComputedName, Labels
<1>4. CASE NoName
  BY <1>4 DEF NoName, Labels
<1>. QED
  BY <1>1, <1>2, <1>3, <1>4

(* `expect('('); stumbleUntil(')')` enters the loop with nesting 1.        *)
LEMMA ParamsStep ==
  ASSUME IInv, OpenParams \/ MissingParams
  PROVE  IInv' /\ pos' >= pos
<1>1. CASE OpenParams
  <2>1. pos < Len(source)
    BY <1>1, TestAtInside DEF OpenParams, IInv, TypeOK
  <2>. QED
    BY <1>1, <2>1 DEF OpenParams, IInv, TypeOK, StumbleNests, BodyInside, Labels
<1>2. CASE MissingParams
  BY <1>2, ThrowStep DEF MissingParams, ExpectFail
<1>. QED
  BY <1>1, <1>2

(* The final check of the function.                                        *)
LEMMA EndStep ==
  ASSUME IInv, AtEnd \/ TrailingText
  PROVE  IInv' /\ pos' >= pos
<1>1. CASE AtEnd
  BY <1>1 DEF AtEnd, IInv, TypeOK, StumbleNests, BodyInside, Labels, Results
<1>2. CASE TrailingText
  BY <1>2, ThrowStep DEF TrailingText
<1>. QED
  BY <1>1, <1>2

(* stumbleUntil's loop.  The step that matters is StumbleStep: eatString  *)
(* leaves pos on the closing quote, before the end; otherwise pos is no    *)
(* later than the end, so `pos += 1` lands at most one past it.  nesting   *)
(* stays a natural because it is at least 1 before the step, and the loop  *)
(* returns exactly when it reaches 0, which only a closer (a unit of the   *)
(* string) can do.                                                         *)
LEMMA StumbleStepIInv ==
  ASSUME IInv, StumbleStep
  PROVE  IInv' /\ pos' >= pos
<1>. DEFINE P == IF At(pos) \in Quotes THEN StringEnd(pos) ELSE pos
            N == CASE At(P) = Opener(closer) -> nesting + 1
                   [] At(P) = closer         -> nesting - 1
                   [] OTHER                  -> nesting
<1>1. /\ pc = "stumbleBody"
      /\ At(pos) \in Quotes => ~EatStringThrows(pos)
      /\ pos' = P + 1 /\ nesting' = N
      /\ pc' = IF N = 0 THEN AfterStumble(closer) ELSE "stumble"
      /\ skipping' = (N = 0)
      /\ UNCHANGED <<source, closer>>
  BY DEF StumbleStep
<1>2. pos \in 0 .. Len(source) /\ nesting \in Nat \ {0} /\ closer \in {"]", ")"}
      /\ source \in Seq(CodeUnits)
  BY <1>1 DEF IInv, TypeOK, StumbleNests, BodyInside
<1>3. P \in pos .. Len(source)
  <2>1. CASE At(pos) \in Quotes
    <3>1. StringEnd(pos) # -1
      BY <1>1, <2>1 DEF EatStringThrows
    <3>2. StringEnd(pos) \in pos + 1 .. Len(source) - 1
      BY <1>2, <3>1, StringEndBounds
    <3>. QED
      BY <1>2, <2>1, <3>2
  <2>2. CASE At(pos) \notin Quotes
    BY <2>2, <1>2
  <2>. QED
    BY <2>1, <2>2
<1>4. N \in Nat
  BY <1>2
<1>5. N = 0 => P < Len(source)
  <2>1. Opener(closer) # closer
    BY <1>2 DEF Opener
  <2>2. N = 0 => At(P) = closer
    BY <1>2, <2>1
  <2>. QED
    BY <1>2, <1>3, <2>2 DEF At, Undefined
<1>. HIDE DEF P, N
<1>6. TypeOK'
  <2>1. pc' \in Labels
    BY <1>1 DEF AfterStumble, Labels
  <2>2. skipping' \in BOOLEAN
    BY <1>1
  <2>. QED
    BY <1>1, <1>2, <1>3, <1>4, <1>5, <2>1, <2>2 DEF TypeOK
<1>7. StumbleNests' /\ BodyInside'
  <2>1. CASE N = 0
    <3>1. pc' \in {"paren", "lbrace"}
      BY <1>1, <2>1 DEF AfterStumble
    <3>. QED
      BY <3>1 DEF StumbleNests, BodyInside
  <2>2. CASE N # 0
    <3>1. pc' = "stumble"
      BY <1>1, <2>2
    <3>2. nesting' = N
      BY <1>1
    <3>3. nesting' >= 1
      BY <3>2, <1>4, <2>2
    <3>. QED
      BY <3>1, <3>3 DEF StumbleNests, BodyInside
  <2>. QED
    BY <2>1, <2>2
<1>. QED
  BY <1>1, <1>2, <1>3, <1>6, <1>7 DEF IInv

LEMMA StumbleSteps ==
  ASSUME IInv, StumbleLoop \/ StumbleExhausted \/ StumbleBadString \/ StumbleStep
  PROVE  IInv' /\ pos' >= pos
<1>1. CASE StumbleLoop
  BY <1>1 DEF StumbleLoop, IInv, TypeOK, StumbleNests, BodyInside, Labels
<1>2. CASE StumbleExhausted
  BY <1>2, ThrowStep DEF StumbleExhausted
<1>3. CASE StumbleBadString
  BY <1>3, ThrowStep DEF StumbleBadString
<1>4. CASE StumbleStep
  BY <1>4, StumbleStepIInv
<1>. QED
  BY <1>1, <1>2, <1>3, <1>4

(* Every step of the function, and a stutter, keeps the invariant and     *)
(* does not move the cursor back.                                          *)
LEMMA NextStep ==
  ASSUME IInv, [Next]_vars
  PROVE  IInv' /\ pos' >= pos
<1>. DEFINE ExpectArgs(here, s, there) ==
       /\ there \in Labels \ {"stumble", "stumbleBody"}
       /\ s \in Words \cup {"(", "LBRACE", "[", "]", "RBRACE"}
<1>1. /\ ExpectArgs("function", "function", "accessor")
      /\ ExpectArgs("lbrace", "LBRACE", "lbracket")
      /\ ExpectArgs("lbracket", "[", "native")
      /\ ExpectArgs("native", "native", "code")
      /\ ExpectArgs("code", "code", "rbracket")
      /\ ExpectArgs("rbracket", "]", "rbrace")
      /\ ExpectArgs("rbrace", "RBRACE", "eof")
  BY DEF Labels, Words, Results
<1>2. CASE WsSkipUnit \/ WsLineComment \/ WsBlockComment \/ WsUnterminatedComment \/ WsDone
  BY <1>2, WsStep
<1>3. CASE EatAccessor \/ EatName \/ EatComputedName \/ NoName
  BY <1>3, NameStep
<1>4. CASE OpenParams \/ MissingParams
  BY <1>4, ParamsStep
<1>5. CASE StumbleLoop \/ StumbleExhausted \/ StumbleBadString \/ StumbleStep
  BY <1>5, StumbleSteps
<1>6. CASE AtEnd \/ TrailingText
  BY <1>6, EndStep
<1>7. CASE \/ Expect("function", "function", "accessor")
           \/ Expect("lbrace", "LBRACE", "lbracket")
           \/ Expect("lbracket", "[", "native")
           \/ Expect("native", "native", "code")
           \/ Expect("code", "code", "rbracket")
           \/ Expect("rbracket", "]", "rbrace")
           \/ Expect("rbrace", "RBRACE", "eof")
  BY <1>1, <1>7, ExpectStep
<1>8. CASE UNCHANGED vars
  BY <1>8 DEF vars, IInv, TypeOK, StumbleNests, BodyInside
<1>. QED
  BY <1>2, <1>3, <1>4, <1>5, <1>6, <1>7, <1>8 DEF Next

-----------------------------------------------------------------------------
(* Type correctness of validateNativeFunctionSource, for every set of     *)
(* input strings: the cursor stays between 0 and one past the end of the  *)
(* string (stumbleUntil's `pos += 1` may step once past it before its     *)
(* loop test fails), nesting never goes negative, and the function is     *)
(* always at one of its statements or has returned.                       *)
THEOREM TypeCorrect == Spec => []TypeOK
<1>1. Init => IInv
  BY InitIInv
<1>2. IInv /\ [Next]_vars => IInv'
  BY NextStep
<1>3. IInv => TypeOK
  BY DEF IInv
<1>. QED
  BY <1>1, <1>2, <1>3, PTL DEF Spec

(* No step of eatWhitespace, getIdentifier, eat, eatString or             *)
(* stumbleUntil moves the cursor back, whatever the string: the closed    *)
(* forms of the inner loops all stop at or after where they start.        *)
THEOREM CursorNeverMovesBack == Spec => CursorMonotone
<1>1. Init => IInv
  BY InitIInv
<1>2. IInv /\ [Next]_vars => IInv' /\ [pos' >= pos]_vars
  BY NextStep
<1>. QED
  BY <1>1, <1>2, PTL DEF Spec, CursorMonotone


-----------------------------------------------------------------------------
(* Only strings with the shape of a native function are accepted.  The     *)
(* validator's statements run in the order of that shape, and Stage says   *)
(* how much of it lies before the cursor at each statement: `function`     *)
(* once the accessor is tried, the `(` while stumbleUntil(')') scans the   *)
(* parameters, their `)` once it returns, and so on up to the `}`.  The    *)
(* computed name's stumbleUntil(']') runs before the `(` is read.          *)
Stage(l, c, p) ==
  /\ l \in {"accessor", "name", "paren"} => SeenFunction(p)
  /\ l \in {"stumble", "stumbleBody"} =>
        IF c = "]" THEN SeenFunction(p) ELSE SeenLParen(p)
  /\ l = "lbrace" => SeenRParen(p)
  /\ l = "lbracket" => SeenLBrace(p)
  /\ l = "native" => SeenLBracket(p)
  /\ l = "code" => SeenNative(p)
  /\ l = "rbracket" => SeenCode(p)
  /\ l = "rbrace" => SeenRBracket(p)
  /\ l \in {"eof", "accepted"} => SeenRBrace(p)

MarkerSoFar == Stage(pc, closer, pos)

(* Once the function has returned or thrown it has no step left to take   *)
(* (no eatWhitespace is pending), and it returns only at the end.         *)
Returned == pc \in Results => ~skipping

AcceptedAtEnd == pc = "accepted" => pos = Len(source)

MInv == IInv /\ Returned /\ AcceptedAtEnd /\ MarkerSoFar


(* A unit that test(s) matches is s itself: for a word, the identifier at  *)
(* p is the one-unit string <<s>>, so it ends right after p.               *)
LEMMA TestAtUnit ==
  ASSUME source \in Seq(CodeUnits), NEW p \in Nat,
         NEW s \in Words \cup {"(", "LBRACE", "[", "]", "RBRACE"}, TestAt(s, p)
  PROVE  At(p) = s
<1>1. CASE s \in Words
  <2>1. p < Len(source)
    BY TestAtInside
  <2>2. IdentLength(p) \in Nat /\ p + IdentLength(p) \in p + 1 .. Len(source)
    BY <2>1, IdentLengthBounds
  <2>3. \A j \in p + 1 .. p + IdentLength(p) : source[j] \in CodeUnits
    BY <2>2
  <2>4. /\ Len(Identifier(p)) = IdentLength(p)
        /\ Identifier(p)[1] = source[p + 1]
    BY <2>2, <2>3, SubSeqProperties DEF Identifier
  <2>5. Identifier(p) = <<s>>
    BY <1>1 DEF TestAt
  <2>. QED
    BY <2>1, <2>4, <2>5 DEF At
<1>2. CASE s \notin Words
  BY <1>2 DEF TestAt
<1>. QED
  BY <1>1, <1>2

(* The Seen predicates read only the string.                               *)
LEMMA SeenKept ==
  ASSUME source' = source, NEW p
  PROVE  /\ SeenFunction(p)' = SeenFunction(p)
         /\ SeenLParen(p)' = SeenLParen(p)
         /\ SeenRParen(p)' = SeenRParen(p)
         /\ SeenLBrace(p)' = SeenLBrace(p)
         /\ SeenLBracket(p)' = SeenLBracket(p)
         /\ SeenNative(p)' = SeenNative(p)
         /\ SeenCode(p)' = SeenCode(p)
         /\ SeenRBracket(p)' = SeenRBracket(p)
         /\ SeenRBrace(p)' = SeenRBrace(p)
  BY DEF SeenFunction, SeenLParen, SeenRParen, SeenLBrace, SeenLBracket,
         SeenNative, SeenCode, SeenRBracket, SeenRBrace, At

(* What lies before an offset lies before every later one.                 *)
LEMMA SeenMonotone ==
  ASSUME NEW p \in Int, NEW q \in Int, p <= q
  PROVE  /\ SeenFunction(p) => SeenFunction(q)
         /\ SeenLParen(p) => SeenLParen(q)
         /\ SeenRParen(p) => SeenRParen(q)
         /\ SeenLBrace(p) => SeenLBrace(q)
         /\ SeenLBracket(p) => SeenLBracket(q)
         /\ SeenNative(p) => SeenNative(q)
         /\ SeenCode(p) => SeenCode(q)
         /\ SeenRBracket(p) => SeenRBracket(q)
         /\ SeenRBrace(p) => SeenRBrace(q)
<1>1. SeenFunction(p) => SeenFunction(q)
  BY DEF SeenFunction
<1>2. SeenLParen(p) => SeenLParen(q)
  BY DEF SeenLParen
<1>3. SeenRParen(p) => SeenRParen(q)
  BY DEF SeenRParen
<1>4. SeenLBrace(p) => SeenLBrace(q)
  BY DEF SeenLBrace
<1>5. SeenLBracket(p) => SeenLBracket(q)
  BY DEF SeenLBracket
<1>6. SeenNative(p) => SeenNative(q)
  BY DEF SeenNative
<1>7. SeenCode(p) => SeenCode(q)
  BY DEF SeenCode
<1>8. SeenRBracket(p) => SeenRBracket(q)
  BY DEF SeenRBracket
<1>9. SeenRBrace(p) => SeenRBrace(q)
  BY DEF SeenRBrace
<1>. QED
  BY <1>1, <1>2, <1>3, <1>4, <1>5, <1>6, <1>7, <1>8, <1>9

(* Reading the next unit of the shape at p extends what lies before p + 1. *)
LEMMA SeenNext ==
  ASSUME NEW p \in Nat
  PROVE  /\ At(p) = "function" => SeenFunction(p + 1)
         /\ At(p) = "(" /\ SeenFunction(p) => SeenLParen(p + 1)
         /\ At(p) = ")" /\ SeenLParen(p) => SeenRParen(p + 1)
         /\ At(p) = "LBRACE" /\ SeenRParen(p) => SeenLBrace(p + 1)
         /\ At(p) = "[" /\ SeenLBrace(p) => SeenLBracket(p + 1)
         /\ At(p) = "native" /\ SeenLBracket(p) => SeenNative(p + 1)
         /\ At(p) = "code" /\ SeenNative(p) => SeenCode(p + 1)
         /\ At(p) = "]" /\ SeenCode(p) => SeenRBracket(p + 1)
         /\ At(p) = "RBRACE" /\ SeenRBracket(p) => SeenRBrace(p + 1)
  BY DEF SeenFunction, SeenLParen, SeenRParen, SeenLBrace, SeenLBracket,
         SeenNative, SeenCode, SeenRBracket, SeenRBrace


(* No statement of the function writes the string.                       *)
LEMMA SourceFixed ==
  ASSUME [Next]_vars
  PROVE  source' = source
  BY DEF Next, vars, Throw, WsSkipUnit, WsLineComment, WsBlockComment,
         WsUnterminatedComment, WsDone, Expect, ExpectOk, ExpectFail,
         EatAccessor, EatName, EatComputedName, NoName, OpenParams,
         MissingParams, StumbleLoop, StumbleExhausted, StumbleBadString,
         StumbleStep, AtEnd, TrailingText

(* The Stage the next state must meet, with the string left alone.        *)
LEMMA MarkerPrimed ==
  ASSUME source' = source, Stage(pc', closer', pos')
  PROVE  MarkerSoFar'
  BY SeenKept DEF MarkerSoFar, Stage

(* stumbleUntil's loop body: the unit it tests lies at pos' - 1, at or     *)
(* after the cursor (past the string eatString skips); when nesting drops  *)
(* to 0 that unit is the closer, and the function goes on after the call.  *)
LEMMA StumbleStepFacts ==
  ASSUME IInv, StumbleStep
  PROVE  /\ pc = "stumbleBody" /\ closer' = closer
         /\ \E q \in pos .. Len(source) :
               pos' = q + 1 /\ (nesting' = 0 => At(q) = closer)
         /\ nesting' = 0 => pc' = AfterStumble(closer)
         /\ nesting' # 0 => pc' = "stumble"
<1>. DEFINE P == IF At(pos) \in Quotes THEN StringEnd(pos) ELSE pos
            N == CASE At(P) = Opener(closer) -> nesting + 1
                   [] At(P) = closer         -> nesting - 1
                   [] OTHER                  -> nesting
<1>1. /\ pc = "stumbleBody"
      /\ At(pos) \in Quotes => ~EatStringThrows(pos)
      /\ pos' = P + 1 /\ nesting' = N
      /\ pc' = IF N = 0 THEN AfterStumble(closer) ELSE "stumble"
      /\ skipping' = (N = 0)
      /\ UNCHANGED <<source, closer>>
  BY DEF StumbleStep
<1>2. pos \in 0 .. Len(source) /\ nesting \in Nat \ {0} /\ closer \in {"]", ")"}
      /\ source \in Seq(CodeUnits)
  BY <1>1 DEF IInv, TypeOK, StumbleNests, BodyInside
<1>3. P \in pos .. Len(source)
  <2>1. CASE At(pos) \in Quotes
    <3>1. StringEnd(pos) # -1
      BY <1>1, <2>1 DEF EatStringThrows
    <3>. QED
      BY <1>2, <2>1, <3>1, StringEndBounds
  <2>2. CASE At(pos) \notin Quotes
    BY <2>2, <1>2
  <2>. QED
    BY <2>1, <2>2
<1>4. N = 0 => At(P) = closer
  <2>1. Opener(closer) # closer
    BY <1>2 DEF Opener
  <2>. QED
    BY <1>2, <2>1
<1>. HIDE DEF P, N
<1>5. \E q \in pos .. Len(source) : pos' = q + 1 /\ (nesting' = 0 => At(q) = closer)
  BY <1>1, <1>3, <1>4
<1>. QED
  BY <1>1, <1>5

(* expect(s) from statement h to statement t consumes the unit s at the    *)
(* cursor, which takes the shape seen from Stage h to Stage t.             *)
LEMMA ExpectMarker ==
  ASSUME MInv, NEW h, NEW t, t \notin Results,
         NEW s \in Words \cup {"(", "LBRACE", "[", "]", "RBRACE"},
         ExpectOk(h, s, t),
         \A p \in Nat : Stage(h, closer, p) /\ At(p) = s => Stage(t, closer, p + 1)
  PROVE  Returned' /\ AcceptedAtEnd' /\ Stage(pc', closer', pos')
<1>1. pos \in Nat /\ source \in Seq(CodeUnits)
  BY DEF MInv, IInv, TypeOK
<1>2. At(pos) = s
  BY <1>1, TestAtUnit DEF ExpectOk
<1>3. Stage(h, closer, pos)
  BY DEF ExpectOk, MInv, MarkerSoFar
<1>4. pc' = t /\ pos' = pos + 1 /\ closer' = closer
  BY DEF ExpectOk
<1>5. Stage(t, closer, pos + 1)
  BY <1>1, <1>2, <1>3
<1>6. Returned' /\ AcceptedAtEnd'
  BY <1>4 DEF Returned, AcceptedAtEnd, Results
<1>. QED
  BY <1>4, <1>5, <1>6


LEMMA InitMInv == Init => MInv
  BY InitIInv DEF Init, MInv, Returned, AcceptedAtEnd, MarkerSoFar, Stage, Results

(* Every step, and a stutter, keeps MInv.                                  *)
LEMMA MarkerStep ==
  ASSUME MInv, [Next]_vars
  PROVE  MInv'
<1>1. IInv' /\ pos' >= pos
  BY NextStep DEF MInv
<1>2. source' = source
  BY SourceFixed
<1>3. pos \in Nat /\ pos' \in Nat /\ source \in Seq(CodeUnits)
  BY <1>1 DEF MInv, IInv, TypeOK
<1>4. Returned /\ AcceptedAtEnd /\ Stage(pc, closer, pos)
  BY DEF MInv, MarkerSoFar
<1>. SUFFICES Returned' /\ AcceptedAtEnd' /\ Stage(pc', closer', pos')
  BY <1>1, <1>2, MarkerPrimed DEF MInv
\* What lies before the cursor still does after it moves on.
<1>5. Stage(pc, closer, pos')
  BY <1>1, <1>3, <1>4, SeenMonotone DEF Stage
\* The steps that throw.
<1>6. CASE Throw
  BY <1>6 DEF Throw, Returned, AcceptedAtEnd, Stage, Results
\* eatWhitespace's steps: the statement it serves waits, and has not returned.
<1>7. CASE WsSkipUnit \/ WsLineComment \/ WsBlockComment \/ WsDone
  <2>1. skipping /\ pc' = pc /\ closer' = closer
    BY <1>7 DEF WsSkipUnit, WsLineComment, WsBlockComment, WsDone
  <2>. QED
    BY <1>4, <1>5, <2>1 DEF Returned, AcceptedAtEnd, Results
<1>8. CASE WsUnterminatedComment \/ MissingParams \/ StumbleExhausted
           \/ StumbleBadString \/ TrailingText
  BY <1>6, <1>8 DEF WsUnterminatedComment, MissingParams, ExpectFail,
                    StumbleExhausted, StumbleBadString, TrailingText
<1>9. CASE \E h, s, t : ExpectFail(h, s)
  BY <1>6, <1>9 DEF ExpectFail
\* The seven expects, each with the unit of the shape it consumes.
<1>10. CASE \/ ExpectOk("function", "function", "accessor")
            \/ ExpectOk("lbrace", "LBRACE", "lbracket")
            \/ ExpectOk("lbracket", "[", "native")
            \/ ExpectOk("native", "native", "code")
            \/ ExpectOk("code", "code", "rbracket")
            \/ ExpectOk("rbracket", "]", "rbrace")
            \/ ExpectOk("rbrace", "RBRACE", "eof")
  <2>1. \A p \in Nat :
          /\ Stage("function", closer, p) /\ At(p) = "function" => Stage("accessor", closer, p + 1)
          /\ Stage("lbrace", closer, p) /\ At(p) = "LBRACE" => Stage("lbracket", closer, p + 1)
          /\ Stage("lbracket", closer, p) /\ At(p) = "[" => Stage("native", closer, p + 1)
          /\ Stage("native", closer, p) /\ At(p) = "native" => Stage("code", closer, p + 1)
          /\ Stage("code", closer, p) /\ At(p) = "code" => Stage("rbracket", closer, p + 1)
          /\ Stage("rbracket", closer, p) /\ At(p) = "]" => Stage("rbrace", closer, p + 1)
          /\ Stage("rbrace", closer, p) /\ At(p) = "RBRACE" => Stage("eof", closer, p + 1)
    BY SeenNext DEF Stage
  <2>2. {"accessor", "lbracket", "native", "code", "rbracket", "rbrace", "eof"} \cap Results = {}
    BY DEF Results
  <2>3. {"function", "native", "code"} \subseteq Words
    BY DEF Words
  <2>. QED
    BY <1>10, <2>1, <2>2, <2>3, ExpectMarker
\* getIdentifier and the name: the cursor moves on past `function`.
<1>11. CASE EatAccessor \/ EatName \/ NoName
  <2>1. pc \in {"accessor", "name"} /\ pc' \in {"name", "paren"} /\ closer' = closer
    BY <1>11 DEF EatAccessor, EatName, NoName
  <2>. QED
    BY <1>5, <2>1 DEF Stage, Returned, AcceptedAtEnd, Results
<1>12. CASE EatComputedName
  <2>1. pc = "name" /\ pc' = "stumble" /\ closer' = "]"
    BY <1>12 DEF EatComputedName
  <2>. QED
    BY <1>5, <2>1 DEF Stage, Returned, AcceptedAtEnd, Results
\* expect('('): the `(` is read after `function`.
<1>13. CASE OpenParams
  <2>1. pc = "paren" /\ pc' = "stumble" /\ closer' = ")" /\ pos' = pos + 1
    BY <1>13 DEF OpenParams
  <2>2. At(pos) = "("
    BY <1>3, <1>13, TestAtUnit DEF OpenParams
  <2>3. SeenLParen(pos + 1)
    BY <1>3, <1>4, <2>1, <2>2, SeenNext DEF Stage
  <2>. QED
    BY <2>1, <2>3 DEF Stage, Returned, AcceptedAtEnd, Results
<1>14. CASE StumbleLoop
  <2>1. pc = "stumble" /\ pc' = "stumbleBody" /\ closer' = closer
    BY <1>14 DEF StumbleLoop
  <2>. QED
    BY <1>5, <2>1 DEF Stage, Returned, AcceptedAtEnd, Results
\* stumbleUntil's loop body, and its return on the closer.
<1>15. CASE StumbleStep
  <2>1. /\ pc = "stumbleBody" /\ closer' = closer
        /\ \E q \in pos .. Len(source) :
              pos' = q + 1 /\ (nesting' = 0 => At(q) = closer)
        /\ nesting' = 0 => pc' = AfterStumble(closer)
        /\ nesting' # 0 => pc' = "stumble"
    BY <1>15, StumbleStepFacts DEF MInv
  <2>2. closer \in {"]", ")"}
    BY DEF MInv, IInv, TypeOK
  <2>3. CASE nesting' # 0
    BY <1>5, <2>1, <2>3 DEF Stage, Returned, AcceptedAtEnd, Results
  <2>4. CASE nesting' = 0 /\ closer = "]"
    <3>1. pc' = "paren"
      BY <2>1, <2>4 DEF AfterStumble
    <3>. QED
      BY <1>5, <2>1, <2>4, <3>1 DEF Stage, Returned, AcceptedAtEnd, Results
  <2>5. CASE nesting' = 0 /\ closer = ")"
    <3>1. PICK q \in pos .. Len(source) : pos' = q + 1 /\ At(q) = ")"
      BY <2>1, <2>5
    <3>2. pc' = "lbrace"
      BY <2>1, <2>5 DEF AfterStumble
    <3>3. q \in Nat /\ pos <= q
      BY <1>3, <3>1
    <3>4. SeenLParen(q)
      <4>1. SeenLParen(pos)
        BY <1>4, <2>1, <2>5 DEF Stage
      <4>. QED
        BY <1>3, <3>3, <4>1, SeenMonotone
    <3>5. SeenRParen(pos')
      BY <3>1, <3>3, <3>4, SeenNext
    <3>. QED
      BY <3>2, <3>5 DEF Stage, Returned, AcceptedAtEnd, Results
  <2>. QED
    BY <2>2, <2>3, <2>4, <2>5
<1>16. CASE AtEnd
  <2>1. pc = "eof" /\ pc' = "accepted" /\ ~skipping' /\ pos' = pos /\ closer' = closer
        /\ pos = Len(source)
    BY <1>16 DEF AtEnd
  <2>. QED
    BY <1>2, <1>4, <2>1 DEF Stage, Returned, AcceptedAtEnd
<1>17. CASE UNCHANGED vars
  BY <1>4, <1>17 DEF vars, Returned, AcceptedAtEnd
<1>. QED
  <2>1. \A h, s, t : Expect(h, s, t) => ExpectOk(h, s, t) \/ ExpectFail(h, s)
    BY DEF Expect
  <2>. QED
    BY <1>7, <1>8, <1>9, <1>10, <1>11, <1>12, <1>13, <1>14, <1>15, <1>16, <1>17, <2>1
       DEF Next

(* The validator accepts only strings that hold `function ( ) { [ native  *)
(* code ] }` in this order, for every set of inputs: MarkerSoFar follows   *)
(* the shape through the statements of validateNativeFunctionSource, and   *)
(* AcceptedAtEnd puts the cursor at the end of the string on acceptance.   *)
THEOREM AcceptsOnlyWithMarker == Spec => []AcceptsOnlyMarked
<1>1. Init => MInv
  BY InitMInv
<1>2. MInv /\ [Next]_vars => MInv'
  BY MarkerStep
<1>3. MInv => AcceptsOnlyMarked
  BY DEF MInv, AcceptedAtEnd, MarkerSoFar, Stage, AcceptsOnlyMarked
<1>. QED
  BY <1>1, <1>2, <1>3, PTL DEF Spec

=============================================================================
