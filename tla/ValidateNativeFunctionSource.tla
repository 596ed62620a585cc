--------------------- MODULE ValidateNativeFunctionSource ---------------------
(***************************************************************************)
(* validateNativeFunctionSource of the test262 harness                      *)
(* (src/rusty-js-core/tests/harness.js, lines 1209-1394), as a state        *)
(* machine whose program counter walks the body of the function: one       *)
(* action per statement block or per iteration of a while loop, in the     *)
(* order the code runs them.  A behaviour is one call of the function on   *)
(* the string `source`; it ends in "accepted" (the function returns) or    *)
(* in "SyntaxError" (it throws).                                           *)
(*                                                                         *)
(* The string is a sequence of UTF-16 code units of a small alphabet.  An  *)
(* identifier-start letter is one code unit, and each keyword the code     *)
(* compares with (function, get, set, native, code) is one code unit too:  *)
(* getIdentifier returns a maximal run of identifier units and test(s)     *)
(* compares the whole run with s, so a run equals the keyword exactly when *)
(* it is that single unit, and `pos += s.length` advances by one unit.     *)
(***************************************************************************)
EXTENDS Integers, Sequences

CONSTANT
  Inputs   \* the strings the function may be called with

(* ID_Start letters; "x" stands for every letter that is not a keyword.    *)
IdStartUnits == {"function", "get", "set", "native", "code", "x"}

(* The strings s with /\w/.test(s) among those test(s) is called with.     *)
Words == {"function", "get", "set", "native", "code"}

(* "1": a digit (ID_Continue only); "$": the '_' and '$' cases; "hi","lo": *)
(* the two surrogate halves of an astral ID_Start code point; "SP": a      *)
(* whitespace unit; "LF": U+000A; "LS": U+2028, a line terminator that    *)
(* ECMAScript 2019 allows in string literals; "LBRACE", "RBRACE", "DQ":   *)
(* '{', '}', '"'; "BT": the backquote '`' that delimits a template        *)
(* literal; "=": any other punctuator.                                     *)
CodeUnits == IdStartUnits \cup
  {"1", "$", "hi", "lo", "SP", "LF", "LS", "/", "*", "'", "DQ", "\\",
   "(", ")", "[", "]", "LBRACE", "RBRACE", "BT", "="}

ASSUME InputsAssumption == Inputs \subseteq Seq(CodeUnits)

(* What source[p] reads past the end of the string.                        *)
Undefined == "undefined"

(* Where a call of validateNativeFunctionSource has returned.              *)
Results == {"accepted", "SyntaxError"}

VARIABLES
  source,    \* the argument; never assigned
  pos,       \* `let pos`, the cursor (a 0-based offset)
  pc,        \* the statement of validateNativeFunctionSource about to run
  skipping,  \* TRUE while the eatWhitespace that starts pc's block runs
  nesting,   \* `let nesting` of the running stumbleUntil
  closer     \* the argument c of the running stumbleUntil

vars == <<source, pos, pc, skipping, nesting, closer>>

-----------------------------------------------------------------------------
(* source[p]                                                               *)
At(p) == IF 0 <= p /\ p < Len(source) THEN source[p + 1] ELSE Undefined

isNewline(c) == c \in {"LF", "LS"}

isWhitespace(c) == c = "SP"

(* UnicodeIDStart.test(c): the regular expression matches single BMP code *)
(* units and surrogate PAIRS, so neither half of a pair matches alone; and *)
(* test converts undefined to the string "undefined", which matches.       *)
IDStartTest(c) == c \in IdStartUnits \/ c = Undefined

(* UnicodeIDContinue.test(c), and the '_' / '$' cases of the switch.       *)
IDContinueTest(c) == c \in IdStartUnits \cup {"1", "$"}

(* The least element of a non-empty set of integers.                       *)
Least(S) == CHOOSE e \in S : \A f \in S : e <= f

(* getIdentifier, after its eatWhitespace: whether it returns a string     *)
(* (not null), and that string's length.  At the end of the string the     *)
(* default case matches "undefined", end becomes pos + 1, and slice        *)
(* returns the empty string.                                               *)
IdentStarts(p) == At(p) = "$" \/ IDStartTest(At(p))

IdentLength(p) ==
  IF p >= Len(source) THEN 0
  ELSE Least({e \in p + 1 .. Len(source) :
                e = Len(source) \/ ~IDContinueTest(At(e))}) - p

Identifier(p) == SubSeq(source, p + 1, p + IdentLength(p))

(* Mutant: a word is taken to match any identifier at p.                  *)
TestAtAnyIdentifier(s, p) ==
  IF s \in Words THEN IdentStarts(p) ELSE At(p) = s

(* test(s) after its eatWhitespace: a word is compared with the whole      *)
(* identifier at p, anything else with the code units at p.                *)
TestAt(s, p) ==
  IF s \in Words THEN IdentStarts(p) /\ Identifier(p) = <<s>>
                 ELSE At(p) = s

(* Mutant: the inner loop without its `pos += 1`, stuck on the '/'.        *)
LineEndNoAdvance(p) == p

(* The line-comment loop of eatWhitespace stops at the first newline at or *)
(* after p, or at the end.                                                 *)
LineEnd(p) == Least({q \in p .. Len(source) : q = Len(source) \/ isNewline(At(q))})

(* The offsets source.indexOf('*/', p) may return, when not -1.            *)
StarSlashFrom(p) == {i \in p .. Len(source) - 2 : At(i) = "*" /\ At(i + 1) = "/"}

(* Mutant: eatString without the `source[pos - 1] !== '\\'` test.          *)
StringStopsIgnoringEscape(p) ==
  {q \in p + 1 .. Len(source) - 1 : At(q) = At(p) \/ isNewline(At(q))}

(* The offsets where eatString's loop, started on the quote at p, returns  *)
(* (a matching quote not preceded by a backslash) or throws (a newline).   *)
StringStops(p) ==
  {q \in p + 1 .. Len(source) - 1 :
     \/ At(q) = At(p) /\ At(q - 1) # "\\"
     \/ isNewline(At(q))}

(* Where eatString's loop stops, or -1 when it runs off the end.          *)
StringEnd(p) == IF StringStops(p) = {} THEN -1 ELSE Least(StringStops(p))

(* eatString, called on the quote at p, throws.                            *)
EatStringThrows(p) == StringEnd(p) = -1 \/ isNewline(At(StringEnd(p)))

Quotes == {"'", "DQ"}

(* The map `{']': '[', ')': '('}[c]` of stumbleUntil.                      *)
Opener(c) == IF c = "]" THEN "[" ELSE "("

(* The statement after stumbleUntil(c) returns.                            *)
AfterStumble(c) == IF c = "]" THEN "paren" ELSE "lbrace"

-----------------------------------------------------------------------------
Init ==
  /\ source \in Inputs
  /\ pos = 0
  /\ pc = "function"
  /\ skipping = TRUE
  /\ nesting = 0
  /\ closer = ")"

(* `throw new SyntaxError()`                                                *)
Throw ==
  /\ pc' = "SyntaxError"
  /\ skipping' = FALSE
  /\ UNCHANGED <<source, pos, nesting, closer>>

(* eatWhitespace, one iteration of its loop: a whitespace or newline unit. *)
WsSkipUnit ==
  /\ skipping
  /\ pos < Len(source)
  /\ isWhitespace(At(pos)) \/ isNewline(At(pos))
  /\ pos' = pos + 1
  /\ UNCHANGED <<source, pc, skipping, nesting, closer>>

(* eatWhitespace: a line comment, skipped up to the newline by the inner   *)
(* loop.                                                                   *)
WsLineComment ==
  /\ skipping
  /\ pos < Len(source)
  /\ At(pos) = "/" /\ At(pos + 1) = "/"
  /\ pos' = LineEnd(pos)
  /\ UNCHANGED <<source, pc, skipping, nesting, closer>>

(* eatWhitespace: a block comment; `pos = end + '*/'.length`, where end is *)
(* indexOf('*/', pos) searched from the '/' that opens the comment.        *)
WsBlockComment ==
  /\ skipping
  /\ pos < Len(source)
  /\ At(pos) = "/" /\ At(pos + 1) = "*"
  /\ StarSlashFrom(pos) # {}
  /\ pos' = Least(StarSlashFrom(pos)) + 2
  /\ UNCHANGED <<source, pc, skipping, nesting, closer>>

(* eatWhitespace: indexOf returned -1.                                     *)
WsUnterminatedComment ==
  /\ skipping
  /\ pos < Len(source)
  /\ At(pos) = "/" /\ At(pos + 1) = "*"
  /\ StarSlashFrom(pos) = {}
  /\ Throw

(* eatWhitespace leaves its loop: the end, or a unit that starts nothing   *)
(* it skips; the statement it began then runs.                             *)
WsDone ==
  /\ skipping
  /\ \/ pos >= Len(source)
     \/ /\ ~isWhitespace(At(pos)) /\ ~isNewline(At(pos))
        /\ At(pos) = "/" => At(pos + 1) \notin {"/", "*"}
  /\ skipping' = FALSE
  /\ UNCHANGED <<source, pos, pc, nesting, closer>>

(* expect(s) at statement `here`, on to statement `there`: eat(s) succeeds *)
(* and `pos += s.length`.                                                  *)
ExpectOk(here, s, there) ==
  /\ pc = here /\ ~skipping
  /\ TestAt(s, pos)
  /\ pos' = pos + 1
  /\ pc' = there
  /\ skipping' = TRUE
  /\ UNCHANGED <<source, nesting, closer>>

(* expect(s) when eat(s) fails.                                            *)
ExpectFail(here, s) ==
  /\ pc = here /\ ~skipping
  /\ ~TestAt(s, pos)
  /\ Throw

Expect(here, s, there) == ExpectOk(here, s, there) \/ ExpectFail(here, s)

(* `eat('get') || eat('set')`                                              *)
EatAccessor ==
  /\ pc = "accessor" /\ ~skipping
  /\ pos' = IF TestAt("get", pos) \/ TestAt("set", pos) THEN pos + 1 ELSE pos
  /\ pc' = "name"
  /\ skipping' = TRUE
  /\ UNCHANGED <<source, nesting, closer>>

(* Mutant: `pos = n.length` for `pos += n.length`.                        *)
EatNameAbsolute ==
  /\ pc = "name" /\ ~skipping
  /\ IdentStarts(pos)
  /\ pos' = IdentLength(pos)
  /\ pc' = "paren"
  /\ skipping' = TRUE
  /\ UNCHANGED <<source, nesting, closer>>

(* `if (!eatIdentifier() && eat('['))`: an identifier is consumed.         *)
EatName ==
  /\ pc = "name" /\ ~skipping
  /\ IdentStarts(pos)
  /\ pos' = pos + IdentLength(pos)
  /\ pc' = "paren"
  /\ skipping' = TRUE
  /\ UNCHANGED <<source, nesting, closer>>

(* ... no identifier but a '[': eat it and call stumbleUntil(']').         *)
EatComputedName ==
  /\ pc = "name" /\ ~skipping
  /\ ~IdentStarts(pos)
  /\ At(pos) = "["
  /\ pos' = pos + 1
  /\ pc' = "stumble"
  /\ nesting' = 1
  /\ closer' = "]"
  /\ UNCHANGED <<source, skipping>>

(* ... neither: the name is absent.                                        *)
NoName ==
  /\ pc = "name" /\ ~skipping
  /\ ~IdentStarts(pos)
  /\ At(pos) # "["
  /\ pc' = "paren"
  /\ skipping' = TRUE
  /\ UNCHANGED <<source, pos, nesting, closer>>

(* Mutant: stumbleUntil with `let nesting = 0`, not counting the bracket  *)
(* its caller has eaten.                                                   *)
OpenParamsNestingZero ==
  /\ pc = "paren" /\ ~skipping
  /\ TestAt("(", pos)
  /\ pos' = pos + 1
  /\ pc' = "stumble"
  /\ nesting' = 0
  /\ closer' = ")"
  /\ UNCHANGED <<source, skipping>>

(* `expect('('); stumbleUntil(')')`                                        *)
OpenParams ==
  /\ pc = "paren" /\ ~skipping
  /\ TestAt("(", pos)
  /\ pos' = pos + 1
  /\ pc' = "stumble"
  /\ nesting' = 1
  /\ closer' = ")"
  /\ UNCHANGED <<source, skipping>>

MissingParams == ExpectFail("paren", "(")

(* stumbleUntil: the test `while (pos < source.length)`, true.             *)
StumbleLoop ==
  /\ pc = "stumble"
  /\ pos < Len(source)
  /\ pc' = "stumbleBody"
  /\ skipping' = TRUE
  /\ UNCHANGED <<source, pos, nesting, closer>>

(* stumbleUntil: the loop ends without nesting reaching 0.                 *)
StumbleExhausted ==
  /\ pc = "stumble"
  /\ pos >= Len(source)
  /\ Throw

(* stumbleUntil's loop body after its eatWhitespace: eatString throws.     *)
StumbleBadString ==
  /\ pc = "stumbleBody" /\ ~skipping
  /\ At(pos) \in Quotes
  /\ EatStringThrows(pos)
  /\ Throw

(* Mutant: stumbleUntil's loop body without its `pos += 1`.              *)
StumbleStepNoAdvance ==
  /\ pc = "stumbleBody" /\ ~skipping
  /\ At(pos) \in Quotes => ~EatStringThrows(pos)
  /\ LET p == IF At(pos) \in Quotes THEN StringEnd(pos) ELSE pos
         n == CASE At(p) = Opener(closer) -> nesting + 1
                [] At(p) = closer         -> nesting - 1
                [] OTHER                  -> nesting
     IN /\ pos' = p
        /\ nesting' = n
        /\ pc' = IF n = 0 THEN AfterStumble(closer) ELSE "stumble"
        /\ skipping' = (n = 0)
  /\ UNCHANGED <<source, closer>>

(* stumbleUntil's loop body after its eatWhitespace: eatString (which      *)
(* leaves pos on the closing quote), the bracket test, `pos += 1`, and the *)
(* return when nesting is 0.                                               *)
StumbleStep ==
  /\ pc = "stumbleBody" /\ ~skipping
  /\ At(pos) \in Quotes => ~EatStringThrows(pos)
  /\ LET p == IF At(pos) \in Quotes THEN StringEnd(pos) ELSE pos
         n == CASE At(p) = Opener(closer) -> nesting + 1
                [] At(p) = closer         -> nesting - 1
                [] OTHER                  -> nesting
     IN /\ pos' = p + 1
        /\ nesting' = n
        /\ pc' = IF n = 0 THEN AfterStumble(closer) ELSE "stumble"
        /\ skipping' = (n = 0)
  /\ UNCHANGED <<source, closer>>

(* The final `eatWhitespace(); if (pos !== source.length) throw`.          *)
AtEnd ==
  /\ pc = "eof" /\ ~skipping
  /\ pos = Len(source)
  /\ pc' = "accepted"
  /\ UNCHANGED <<source, pos, skipping, nesting, closer>>

TrailingText ==
  /\ pc = "eof" /\ ~skipping
  /\ pos # Len(source)
  /\ Throw

Next ==
  \/ WsSkipUnit \/ WsLineComment \/ WsBlockComment \/ WsUnterminatedComment
  \/ WsDone
  \/ Expect("function", "function", "accessor")
  \/ EatAccessor
  \/ EatName \/ EatComputedName \/ NoName
  \/ OpenParams \/ MissingParams
  \/ StumbleLoop \/ StumbleExhausted \/ StumbleBadString \/ StumbleStep
  \/ Expect("lbrace", "LBRACE", "lbracket")
  \/ Expect("lbracket", "[", "native")
  \/ Expect("native", "native", "code")
  \/ Expect("code", "code", "rbracket")
  \/ Expect("rbracket", "]", "rbrace")
  \/ Expect("rbrace", "RBRACE", "eof")
  \/ AtEnd \/ TrailingText

(* The function runs to completion once called: nothing in it blocks.      *)
Spec == Init /\ [][Next]_vars /\ WF_vars(Next)

-----------------------------------------------------------------------------
Labels == {"function", "accessor", "name", "paren", "stumble", "stumbleBody",
           "lbrace", "lbracket", "native", "code", "rbracket", "rbrace", "eof"}
          \cup Results

TypeOK ==
  /\ source \in Seq(CodeUnits)
  /\ pos \in 0 .. Len(source) + 1
  /\ pc \in Labels
  /\ skipping \in BOOLEAN
  /\ nesting \in Nat
  /\ closer \in {"]", ")"}

(* The cursor only moves forward during a call (spec.md, section 3): no    *)
(* step of eatWhitespace, getIdentifier, eat, eatString or stumbleUntil    *)
(* moves pos back, so a unit is never read twice as different tokens.      *)
CursorMonotone == [][pos' >= pos]_vars

(* The units of `function ( ) { [ native code ] }` that appear, in this   *)
(* order, before offset p: SeenX(p) says that every unit up to X does.     *)
SeenFunction(p) == \E a \in 0 .. p - 1 : At(a) = "function"
SeenLParen(p)   == \E a \in 0 .. p - 1 : At(a) = "(" /\ SeenFunction(a)
SeenRParen(p)   == \E a \in 0 .. p - 1 : At(a) = ")" /\ SeenLParen(a)
SeenLBrace(p)   == \E a \in 0 .. p - 1 : At(a) = "LBRACE" /\ SeenRParen(a)
SeenLBracket(p) == \E a \in 0 .. p - 1 : At(a) = "[" /\ SeenLBrace(a)
SeenNative(p)   == \E a \in 0 .. p - 1 : At(a) = "native" /\ SeenLBracket(a)
SeenCode(p)     == \E a \in 0 .. p - 1 : At(a) = "code" /\ SeenNative(a)
SeenRBracket(p) == \E a \in 0 .. p - 1 : At(a) = "]" /\ SeenCode(a)
SeenRBrace(p)   == \E a \in 0 .. p - 1 : At(a) = "RBRACE" /\ SeenRBracket(a)

(* A string the validator accepts holds the whole shape of a native        *)
(* function, `function`, `(`, `)`, `{`, `[`, `native`, `code`, `]`, `}`,   *)
(* as units in this order (spec.md: a source without the `[native code]`   *)
(* marker is rejected), whatever it holds between them: each expect and    *)
(* the `(`...`)` of stumbleUntil consume one of them, and nothing else     *)
(* moves the validator to its next statement.                              *)
AcceptsOnlyMarked == pc = "accepted" => SeenRBrace(Len(source))

(* The statements the call has left to run, in the order of the code.    *)
StatementsLeft(l) ==
  CASE l = "function" -> 13 [] l = "accessor" -> 12 [] l = "name" -> 11
    [] l = "paren" -> 10 [] l = "stumble" -> 9 [] l = "stumbleBody" -> 8
    [] l = "lbrace" -> 7 [] l = "lbracket" -> 6 [] l = "native" -> 5
    [] l = "code" -> 4 [] l = "rbracket" -> 3 [] l = "rbrace" -> 2
    [] l = "eof" -> 1 [] OTHER -> 0

(* The termination measure of a call: the units left to scan, then the    *)
(* statements left, then whether an eatWhitespace is pending.  A step may *)
(* go back to an earlier statement (stumbleUntil's loop) only by moving   *)
(* the cursor, and one unit outweighs every statement.                    *)
RankOf(l, sk) == 2 * StatementsLeft(l) + (IF sk THEN 1 ELSE 0)

Measure == (Len(source) + 2 - pos) * 28 + RankOf(pc, skipping)

(* Every step of the call decreases the measure: every loop of            *)
(* eatWhitespace, of the comment and string scans and of stumbleUntil     *)
(* moves the cursor forward, and every other statement hands over to a    *)
(* later one.  With the measure a natural (the cursor never passes one    *)
(* past the end) this is why every call ends.                              *)
Progress == [][Measure' < Measure]_vars

(* Every call returns or throws: the loops of eatWhitespace, the comment   *)
(* skip, eatString and stumbleUntil all end, on every string.              *)
Termination == <>(pc \in Results)

=============================================================================
