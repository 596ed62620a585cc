# TLA+ verification of the rusty-js test262 harness

The repository slice under `src/` is the test262 conformance harness
(`src/rusty-js-core/tests/harness.js`, 7479 lines) and one benchmark script
(`src/rusty-js-core/bench/test3.js`). The harness is a library of helpers that a
JavaScript engine's test run loads before each test. Only one part of it is a
real automaton: `validateNativeFunctionSource` (lines 1209-1394). It is a
hand-written lexer and scanner that decides whether a string is a
`NativeFunction`:

    function NativeFunctionAccessor? IdentifierName? ( FormalParameters ) { [ native code ] }

The project models that validator, checks it against an independently
written grammar, and proves its type invariant, its cursor discipline and that
it accepts only strings holding the native-function shape in order, and
that every step of a call lowers a natural-number variant, so no call runs
forever. It
also models the benchmark `test3.js` statement by statement. It shows that the
benchmark implements an abstract "count the primes below Limit"
specification, and proves that the count it logs is right for every Limit
(section 6). The rest of the harness is inventoried below, with the plan for it.

## 1. Inventory of the system

| Part | Lines | State and operations | Status |
|---|---|---|---|
| assert library (`assert`, `sameValue`, `notSameValue`, `throws`, `_toString`) | 1-118 | pure comparisons and a throw protocol | planned (pure operators) |
| `assertRelativeDateMs` | 120-145 | one comparison | not modelled: nothing to check |
| asyncGC helpers | 146-203 | promise chains around host GC and cleanup callbacks | planned |
| `$262.agent` helpers | 204-528 | main thread and worker agents over a SharedArrayBuffer; `getReport` polls with `sleep(1)`; `waitUntil` spins on `Atomics.load`; a `setTimeout` fallback re-queues a promise job until a deadline | planned next: the only concurrent code |
| `byteConversionValues` | 529-975 | data table | not modelled: data |
| `compareArray`, `compareIterator` | 976-1062 | element-wise SameValue, iterator draining | planned (pure) |
| date constants, `$DONE`, `fnGlobalObject`, function constructors, `isConstructor`, `NaNs` | 1063-1192 | constants and single host calls | not modelled |
| **NativeFunction validator** | 1193-1413 | `pos`, `nesting`; eatWhitespace, getIdentifier, test/eat/expect, eatString, stumbleUntil, the top-level sequence; two callers that wrap it | **modelled** (validator); callers planned |
| `checkSequence`, `checkSettledPromises` | 1414-1489 | pure checks | planned (pure) |
| propertyHelper (`verifyProperty`, `isWritable`, `isConfigurable`, ...) | 1490-1744 | writes to, reverts and deletes properties of the object under test | planned |
| `allowProxyTraps`, regExpUtils, `Test262Error`, `$MAX_ITERATIONS` | 1745-1931 | builders and constants; `buildString` splits code-point ranges into surrogates | `buildString` planned, rest not modelled |
| TemporalHelpers | 1932-3919 | fixtures and access-logging observers | not modelled: data and formatting |
| Atomics, BigInt and typed-array test iterators | 3920-4083, 6585-6707 | loops over constants calling a callback | not modelled: no state |
| Intl helpers and locale tables | 4084-6584 | mostly tables; `isCanonicalizedStructurallyValidLanguageTag` is an algorithm | algorithm planned |
| `setTimeout` fallback (sth.js) | 6708-6738 | the same promise-polling timer as lines 237-253 | planned with the agents |
| coercion testers, `WellKnownIntrinsicObjects` | 6739-7479 | enumerations and a table | not modelled |
| `bench/test3.js` | 1-20 | clock reading, trial-division primality, a counting loop, two logs | **modelled** (section 6) |

How the parts interact: a test calls the assert helpers. `assertNativeFunction`
and `assertToStringOrNativeFunction` call the validator and turn its
`SyntaxError` into a `Test262Error`. The agent helpers drive worker agents that
the test starts. Nothing else shares state between helpers. The validator is
synchronous and owns its cursor, so a call is one sequential process and there
is nothing to interleave.

## 2. The model of the validator

`ValidateNativeFunctionSource.tla` is a state machine whose program counter
`pc` walks the body of the function. It has one action per statement block or
per loop iteration, in the order the code runs them.

* **State.** `source` is the argument. `pos` is `let pos`. `nesting` is
  stumbleUntil's `let nesting`, and `closer` is its argument `c`.
  `skipping` is TRUE while the `eatWhitespace()` that begins the current block
  runs. Every `test`, `getIdentifier` and stumbleUntil iteration starts with
  one, so it is modelled once, as the actions `Ws*`, which are enabled whenever
  `skipping` holds. The result is `pc` = `"accepted"` (the function returns) or
  `"SyntaxError"` (it throws).
* **Alphabet.** A string is a sequence of abstract UTF-16 code units.
  Each keyword the code compares with (`function`, `get`, `set`, `native`,
  `code`) is one ID_Start unit. `getIdentifier` returns a maximal run and
  `test` compares the whole run, so a run equals a keyword exactly when it is
  that one unit. `"x"` is any other letter and `"1"` a digit. `"$"` is the
  `_`/`$` case. `"hi"`,`"lo"` are surrogate halves. `"SP"` is whitespace, and
  `"LF"` and `"LS"` (U+2028) are line terminators. `"LBRACE"`, `"RBRACE"` and
  `"DQ"` are `{`, `}` and `"`. `"BT"` is the backquote of a template literal,
  and `"="` is any other punctuator. Some units have
  alphanumeric names because the prover's SMT encoding rejects string
  literals such as `"{"` or `" "`.
* **Inner loops as closed forms.** The line-comment loop, `indexOf('*/', pos)`,
  eatString's loop and getIdentifier's loop run without observable
  intermediate state, so each is the least offset where its test stops it:
  `LineEnd`, `StarSlashFrom`, `StringEnd` and `IdentLength`, built with `Least`.
  The comment search starts at `pos`, the comment's own `/`, exactly as line
  1242 does.
* **Reads past the end.** `At(p)` is `source[p]`, and `"undefined"` past the
  end. `UnicodeIDStart.test(undefined)` tests the string "undefined", which
  matches, so at the end of the string `getIdentifier` returns `""` and
  `eatIdentifier` succeeds while consuming nothing (`IDStartTest`).
* **Actions.**
  * `WsSkipUnit`, `WsLineComment`, `WsBlockComment`, `WsUnterminatedComment`
    and `WsDone` are the branches of eatWhitespace (1223-1253).
  * `Expect(here, s, there)` is `expect(s)`: `test` plus `pos += s.length` (1290-1320).
  * `EatAccessor` is `eat('get') || eat('set')`.
  * `EatName`, `EatComputedName` and `NoName` are the three outcomes of
    `if (!eatIdentifier() && eat('['))`.
  * `OpenParams` and `MissingParams` are `expect('(')`.
  * `StumbleLoop`, `StumbleExhausted`, `StumbleBadString` and `StumbleStep` are
    stumbleUntil's loop test, its final throw, a throwing `eatString`, and one
    whole iteration: eatString, the bracket test, `pos += 1` and the return
    on 0.
  * `AtEnd` and `TrailingText` are the final check.

`NativeFunctionGrammar.tla` is the reference. It is written independently of
the code, as an ECMAScript tokenizer of the same alphabet followed by a parser
of the token sequence. Comments, string literals with escapes and line
continuations, U+2028 inside strings, and surrogate-pair identifiers are all
handled as the language defines them. The parameters and the computed name are
taken with the leniency the harness documents: only the closing bracket has to
balance, and strings and comments are opaque. The grammar is RECURSIVE, so it
is used only by TLC.

`MCValidateNativeFunctionSource.tla` builds the input families and states the
comparison properties.

## 3. Runs

All runs use `CHECK_DEADLOCK FALSE`: a call's final states (`accepted`,
`SyntaxError`) have no successor, and that is the end of the call, not a
deadlock.

| Run | Checks | Result |
|---|---|---|
| `agreement` | `TypeOK`, `AgreesOutsideDivergences`, `AcceptsOnlyMarked`, `CursorMonotone` | pass: 50,356 strings, 1,113,602 states, about 20 seconds |
| `termination` | `Termination` under `WF_vars(Next)`; `Progress` (every step lowers `Measure`) | pass: 22,837 states |
| `comment_opener` | `AcceptsExactlyGrammar` | violation: `/*/function x(){[native code]}` is accepted (so is `function /*/x(){...}`) |
| `escaped_backslash` | `AcceptsExactlyGrammar` | violation: `function x('\\'){...}` is rejected |
| `line_continuation` | `AcceptsExactlyGrammar` | violation: a backslash-newline inside a string is rejected |
| `separator_in_string` | `AcceptsExactlyGrammar` | violation: U+2028 inside a string is rejected |
| `astral_identifier` | `AcceptsExactlyGrammar` | violation: a name starting with a surrogate pair is rejected |
| `template_literal` | `AcceptsExactlyGrammar` | violation: ``function x(a = `)`){[native code]}`` is rejected |

`AgreesOutsideDivergences` is the main property. On every string outside the
five classes the violation runs exhibit, the validator returns exactly when the
grammar derives the string. It covers:

* comments, quotes and digits in every gap of the skeleton;
* keyword prefixes such as `functionx`;
* the greedy accessor (`function get(){...}`);
* computed names;
* nested and mismatched brackets;
* brackets inside strings and comments;
* unterminated strings and comments;
* the end of the string inside any scan;
* trailing text.

`AcceptsOnlyMarked` holds on every input, divergence classes included. It says
an accepted string holds the units `function ( ) { [ native code ] }` in this
order. The `Seen*` operators it uses are chained existentials, so TLC only
evaluates them in accepted states. `AcceptsOnlyWithMarker` (section 5) proves
it for every string.

**Bounds.** The agreement inputs are the union of these families:

* up to 3 units of 8 trivia, quote and identifier units in every gap of
  `function x(){[native code]}`, before it and after it;
* every parameter list of up to 4 units over 13 units, covering both brackets
  and both quotes, the backslash, `/`, `*`, both line terminators, a letter
  and a space;
* every accessor-and-name part of up to 3 units over 13 units;
* every body of up to 5 units over 6 units (brackets, the two keywords, a space and `}`);
* every string of up to 2 units.

Four units are the fewest that make each interesting case happen: a nested
bracket pair inside the parameters (`(())`), an escaped quote inside a string
(`'\''`), a comment that closes (`/**/`), and a string closed after a
backslash. TLC's startup dominates every run but `agreement`.

**Fairness.** `Spec` has `WF_vars(Next)`. A call is a single synchronous
JavaScript function: nothing in it blocks or waits, so once called it keeps
taking steps until it returns or throws.

**Mutants.** Each passing property is shown to be breakable by a plausible bug.

| Mutant | What it changes | Property it breaks |
|---|---|---|
| `StringStopsIgnoringEscape` | eatString without its backslash test | `AgreesOutsideDivergences` |
| `TestAtAnyIdentifier` | `test(s)` for a word matches any identifier | `AcceptsOnlyMarked` |
| `EatNameAbsolute` | `pos = n.length` for `pos += n.length` | `CursorMonotone` |
| `OpenParamsNestingZero` | `let nesting = 0` | `TypeOK` (nesting goes negative) |
| `LineEndNoAdvance` | the line-comment loop without `pos += 1` | `Termination` |
| `StumbleStepNoAdvance` | stumbleUntil's loop body without its `pos += 1` | `Progress` |

## 4. Findings

The violation runs show six places where the code and the language part.
Each is listed in `PROJECT.json`.

* **Line 1242.** The block-comment search starts on the opener's own `/`.
  The code therefore accepts an unterminated comment `/*/`.
* **Line 1327.** A quote after an escaped backslash is taken as escaped.
  The code therefore rejects `'\\'`.
* **Line 1330.** A line terminator inside a string always throws, so the code
  rejects valid string literals in two cases:
  * a line continuation;
  * a U+2028, which ECMAScript 2019 allows. spec.md 4.1 counts the
    line and paragraph separators as newlines and says eatString fails on a
    newline, so here spec.md agrees with the code, and both part from the
    language the validator checks.
* **Line 1266.** ID_Start is tested one code unit at a time, so an astral
  identifier start is rejected. spec.md says this test is surrogate-pair-aware.
* **Line 1340.** stumbleUntil skips strings and comments but not template
  literals. In ``function x(a = `)`) { [native code] }`` the `)` inside the
  template closes the parameter list, and the validator throws. The comment
  above stumbleUntil assumes that ECMAScript keeps `()` balanced, and template
  literals do not. spec.md 9 records this desynchronisation as a limitation
  to keep; the run shows that it rejects valid NativeFunction strings. The
  alphabet has a backquote unit `BT` for this case. The grammar lexes a
  template without substitutions as one opaque token.

## 5. What is proved

`ValidateNativeFunctionSource_proofs.tla` proves three theorems with TLAPS, for
every set `Inputs` of strings over the alphabet. The only assumption is
`InputsAssumption`.

* `TypeCorrect == Spec => []TypeOK`: the cursor stays in `0 .. Len(source)+1`,
  nesting is a natural, and `pc` is a statement or a result.
* `CursorNeverMovesBack == Spec => CursorMonotone`: no step moves `pos` back.
* `AcceptsOnlyWithMarker == Spec => []AcceptsOnlyMarked`: an accepted string
  holds `function`, `(`, `)`, `{`, `[`, `native`, `code`, `]`, `}` as units in
  this order, whatever lies between them. This is spec.md's "a string missing
  the `[native code]` marker fails", stated for every string rather than for
  the strings a run enumerates.

TypeOK is not inductive on its own, so the proofs use the invariant
`IInv == TypeOK /\ StumbleNests /\ BodyInside`:

* `StumbleNests`: inside stumbleUntil, `nesting >= 1`. Without it,
  `nesting -= 1` could leave `Nat`.
* `BodyInside`: in the body of its loop, `pos <= Len(source)`. Without it,
  `pos += 1` could land two past the end. The loop test gives `pos < length`,
  and eatWhitespace never passes the end.

TLC checked `IInv` as an invariant of the agreement run before it was proved.

The proof has three layers:

* **Lemmas on the closed forms.**
  * `LeastIsLeast`: a non-empty set of naturals has a least element, through
    `WFMin` and `NatLessThanWellFounded`.
  * `LineEndBounds`, `StarSlashBounds`, `StringEndBounds` and
    `IdentLengthBounds`: each inner loop stops at or after where it starts, and
    no later than the end.
  * `TestAtInside`: `test(s)` only succeeds on a unit of the string.
* **Step lemmas.** There is one per group of actions (`WsStep`, `NameStep`,
  `ParamsStep`, `StumbleStepIInv`, `EndStep`, `ExpectStep`, `ThrowStep`). Each
  shows that the group keeps `IInv` and does not decrease `pos`.
* **`NextStep`.** It combines the step lemmas, and the theorems follow by PTL.

`AcceptsOnlyMarked` needs a stronger invariant,
`MInv == IInv /\ Returned /\ AcceptedAtEnd /\ MarkerSoFar`:

* `MarkerSoFar == Stage(pc, closer, pos)` says how much of the shape lies
  before the cursor at each statement. `SeenFunction(pos)` holds from the
  accessor on, `SeenLParen(pos)` inside stumbleUntil(')'), `SeenRParen(pos)`
  once it returns, and so on up to `SeenRBrace(pos)` at the final test. The
  computed name's stumbleUntil(']') only needs `SeenFunction`, which is why
  `Stage` depends on `closer`.
* `AcceptedAtEnd`: on acceptance `pos = Len(source)`, so the shape lies in the
  whole string.
* `Returned`: once the call has returned no eatWhitespace is pending. Without
  it an eatWhitespace step could move the cursor of an accepted call.

TLC checked `MInv` on all 1.1 million states of the agreement run before it
was proved. The proof rests on these lemmas:

* `TestAtUnit`: a successful `test(s)` means the unit at the cursor is `s`. For
  a word, the identifier there is the one-unit string `<<s>>`.
* `SeenKept`, `SeenMonotone` and `SeenNext`: the `Seen` predicates read only
  the string, survive the cursor moving forward, and grow by one unit when
  the next unit of the shape is read.
* `StumbleStepFacts`: stumbleUntil returns (nesting drops to 0) only on a
  closer at or after the cursor. This uses `nesting >= 1` from `IInv`.
* `ExpectMarker`: one lemma for the seven `expect` calls.
* `MarkerStep`: one case per group of actions.

TLC also checks `AcceptsOnlyMarked` on the agreement run. Its mutant
`TestAtAnyIdentifier` lets a word match any identifier, and TLC then finds
`function(){[native native]}` accepted.

`ValidateNativeFunctionSource_progress.tla` proves the termination argument
as a safety property:

* `CallAlwaysProgresses == Spec => [](Measure \in Nat) /\ Progress`, where
  `Measure == (Len(source) + 2 - pos) * 28 + RankOf(pc, skipping)` and
  `Progress == [][Measure' < Measure]_vars`. `RankOf` is twice the number of
  statements left after `pc` (`StatementsLeft`, 13 for `function` down to 0 for
  a result), plus 1 while an eatWhitespace is pending. Its largest value is 27,
  so one unit of cursor outweighs every rank: the measure is the lexicographic
  order on (cursor, statement).

The argument, one case per action (`ProgressStep`): every loop body
(eatWhitespace, both comment scans, eatString inside stumbleUntil, the
`expect` tests, the name scans) moves `pos` forward. The steps that keep `pos`
(the end of an eatWhitespace, stumbleUntil's entry, `expect(true)`, every
throw) hand over to a later statement. It needs `MInv` from the marker proof
for two facts: `nesting >= 1` inside stumbleUntil, so that its step moves past
the cursor (`StumbleStepFacts`), and `Returned`, so that a result takes no
step. `MeasureDown` turns either case into `Measure' < Measure` through the
arithmetic lemma `LexDown`, and `LineEndAdvances` shows that the line-comment
scan moves past its `//`. Since the naturals are well-founded, no behaviour
takes infinitely many non-stuttering steps.

**Only model-checked:**

* `AgreesOutsideDivergences`: the grammar it compares with
  (`NativeFunctionGrammar`) is written with RECURSIVE operators. Those take away
  the prover's SMT backend in any module that reaches them. What a recursive
  definition computes over all strings would also need induction over data,
  which the installed provers cannot instantiate. `AcceptsOnlyWithMarker` proves
  the half of the agreement that needs no grammar: acceptance implies the
  shape.
* `Termination`: the conclusion `<>(pc \in Results)` needs the fairness of
  `Spec` and `ENABLED Next` outside the results. Both are liveness and beyond
  the prover, so TLC checks them. `CallAlwaysProgresses` proves the part of the
  argument that is safety: the variant.

## 6. The prime-count benchmark (`bench/test3.js`)

The script reads the clock, counts the primes below 100000 by trial division,
logs the count and logs the elapsed time. It is sequential, and all its numbers
are integers below 2^53, which a JavaScript number holds exactly. The model
therefore uses naturals, and `Limit` stands for 100000.

**Abstract specification.** `PrimeCount.tla` has one step per value of `k`.
`Count` adds one to `sum` when `k` is prime, and `LogCount` logs `sum` once `k`
reaches `Limit`. `IsPrime` is the reference definition (no divisor strictly
between 1 and m). It is independent of the script's `i * i <= n` shortcut.

**Detailed specification.** `PrimeCountBench.tla` has one action per statement
or loop iteration. The table gives the script's lines for each action.

| Action | Lines | Code |
|---|---|---|
| `Start` | 1, 12, 13 | `t = performance.now()`, `sum = 0`, `k = 2` |
| `Outer` | 13-14 | the test `k < 100000` and the call `p(k)` with `i = 2` |
| `InnerStep` | 4-8 | one pass of the loop of `p`: return false on a divisor, else `i++` |
| `InnerExit` | 4, 9 | `i * i > n`: return true |
| `Tally` | 14-16 | `sum++` if `p(k)` returned true, then `k++` |
| `LogSum` | 19 | `console.log(sum)` |
| `LogTime` | 20 | `console.log(performance.now() - t)` |

`performance.now()` follows the "finite clock" idea of the TLA+ examples. `now`
is a reading bounded by `MaxNow`, which `Tick` advances while the script runs.
Only its distance from `t` is logged. `out` is the sequence of logged values.

**Runs** (`Limit = 60`, `MaxNow = 2`, 1,539 states each). Limit 60 passes
4, 9, 25 and 49. These are the squares of primes, the boundary that
`i * i <= n` must get right.

| Run | Checks |
|---|---|
| `count` | `TypeOK`; `OutputCorrect` (the first value logged is the number of primes below `Limit`); `Termination` |
| `refinement` | `Refines`: `PrimeCountBench` implements `PrimeCount!FairSpec` under the mapping `PC`. Before line 13, `k` maps to 2. The abstract log is the first value logged. |

**Fairness.** `WF_vars(Step)` covers only the script's steps, not the clock.
The script is the engine's only thread and never waits.

**Mutants.**

| Mutant | Change | Breaks |
|---|---|---|
| `LoopCondStrict` | `i * i < n` | `OutputCorrect` |
| `InnerStepNoIncrement` | no `i++` | `Termination` |
| `LogTimeReversed` | `t - performance.now()` | `TypeOK` |
| `OuterCondInclusive` | `k <= 100000` | `Refines` |

**Proofs** (`PrimeCountBench_proofs.tla`, 457 obligations). The results hold
for every `Limit` and `MaxNow` in `Nat`.

* `TypeCorrect`: `Spec => []TypeOK`.
* `OutputIsPrimeCount`: `Spec => []OutputCorrect`.
* `Implements`: `Spec => PC!Spec`, the safety part of `Refines`.

The inductive invariant `IInv` adds the following to `TypeOK`:

* `t <= now`. Without it, the elapsed time is not a natural.
* `sum` is the number of primes below `k`.
* Inside `p`, no `d` in `2..i-1` divides `n`.
* When `p` returns, its result is `IsPrime(n)`.
* After the loop, `k >= Limit`.
* Where `out` is still empty, and what `out[1]` holds once the count is logged.

TLC checked `IInv` for Limit 0 to 3 and for Limit 60 before it was proved.

The arithmetic lemmas carry the argument:

* `TrialDivisionSound`: a divisor `i` with `i * i <= n` lies strictly between
  1 and `n`.
* `TrialDivisionComplete`: a composite `n = d * e` has a factor below the
  first `i` with `i * i > n`.
* `PrimesBelowStep`: passing `k` adds one to the count exactly when `k` is
  prime. It uses `FS_AddElement`.
* `ExitCount`: at the end, `k = Limit`, or `Limit <= 2` and `k = 2`; either
  way the count is that of the primes below `Limit`.

Termination, and the fairness part of `Refines`, are checked by TLC only.

## 7. Plan for the next parts

The remaining work, in order:

1. **`$262.agent` coordination** (lines 204-528, 6708-6738). A module with a
   main thread and N worker agents: `broadcast`, workers that `Atomics.add` and
   report, `getReport` polling, the `waitUntil` spin loop and `safeBroadcast`'s
   check. Workers may throw, as the comment at lines 282-288 describes.
   * Properties: `waitUntil` returns iff every agent increments (liveness under
     fairness of the agents); safeBroadcast rejects a non-shareable array
     before any agent can wait on it; every report is read once.
   * The worker side is not in `src/` and will be modelled from INTERPRETING.md
     (spec_modelled).
2. **The validator's callers** (1396-1412), composed with the validator module.
3. **propertyHelper** (1490-1744). A property descriptor and the object under
   test; `isWritable`'s write-and-revert, `isConfigurable`'s delete, and
   `verifyProperty`'s restore option.
   * Properties: after `verifyProperty(..., {restore: true})` the object is
     unchanged; without it, a configurable property is gone.
   * A refinement to an abstract "check without effect" specification.
4. **Pure algorithms** against reference definitions:
   * SameValue and `compareArray`;
   * `checkSequence`;
   * `buildString`'s surrogate split.
5. **Proofs.**
   * The agent model's safety invariant.
   * The refinement of the propertyHelper model.

## 8. Not modelled

* Data tables: byteConversionValues, the locale tables and
  WellKnownIntrinsicObjects.
* Formatting and messages: assertion message text and `_toString`.
* Helpers that only enumerate constants into a callback: the coercion testers
  and the typed-array and Atomics iterators.
* TemporalHelpers: a 2000-line fixture library with no shared state.
* Regular-expression literals, and template substitutions `${ ... }`, in the
  validator's input. They are outside the alphabet. Telling a regex from a
  division needs a parser that the validator does not have. The harness
  documents that stumbleUntil assumes balanced brackets outside strings.
* The engine's `performance.now()`. The benchmark model takes it as a clock
  that never goes back; whether the engine's clock is monotonic is engine code,
  not part of this slice.
