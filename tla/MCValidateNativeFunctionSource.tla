------------------- MODULE MCValidateNativeFunctionSource -------------------
(***************************************************************************)
(* Model-checking instance of ValidateNativeFunctionSource: the strings    *)
(* the function is called with, and the comparison of what it does with   *)
(* the NativeFunction grammar.                                             *)
(***************************************************************************)
EXTENDS ValidateNativeFunctionSource

Grammar == INSTANCE NativeFunctionGrammar

(* The sequences of length at most n over S.                               *)
SeqsUpTo(S, n) == UNION {[1 .. m -> S] : m \in 0 .. n}

(* "function x(){[native code]}": one unit per token, and the spaces that *)
(* keep "function" and "x", and "native" and "code", apart.               *)
Skeleton == <<"function", "SP", "x", "(", ")", "LBRACE", "[", "native", "SP", "code", "]", "RBRACE">>

(* Skeleton with w inserted after its first k units.                       *)
InsertAt(k, w) == SubSeq(Skeleton, 1, k) \o w \o SubSeq(Skeleton, k + 1, Len(Skeleton))

(* "function x(p){[native code]}"                                          *)
WithParams(p) == <<"function", "SP", "x", "(">> \o p \o <<")", "LBRACE", "[", "native", "SP", "code", "]", "RBRACE">>

(* Every parameter list of up to len units of units.                       *)
ParamInputs(units, len) == {WithParams(p) : p \in SeqsUpTo(units, len)}

(* Every accessor-and-name part of up to len units of units.               *)
NameInputs(units, len) ==
  {<<"function", "SP">> \o n \o <<"(", ")", "LBRACE", "[", "native", "SP", "code", "]", "RBRACE">> :
     n \in SeqsUpTo(units, len)}

(* Up to len units of units between any two units of the skeleton, or     *)
(* before or after it.                                                     *)
GapInputs(units, len) ==
  {InsertAt(k, w) : k \in 0 .. Len(Skeleton), w \in SeqsUpTo(units, len)}

(* Every body of up to len units of units.                                 *)
BodyInputs(units, len) ==
  {<<"function", "(", ")", "LBRACE">> \o b \o <<"RBRACE">> : b \in SeqsUpTo(units, len)}

(* The inputs of the agreement run: trivia, digits and quotes in every     *)
(* gap; every parameter list of four units of brackets, quotes, escapes,   *)
(* comment delimiters and line terminators; every accessor-and-name part   *)
(* of three units; every body of five units; every string of two units.   *)
(* (A UNION of the families: TLC builds it far faster than a chain of    *)
(* \cup.)                                                                  *)
AgreementInputs ==
  UNION {GapInputs({"SP", "LF", "/", "*", "x", "'", "1", "$"}, 3),
         ParamInputs({"(", ")", "[", "]", "'", "DQ", "\\", "/", "*", "LF", "LS", "x", "SP"}, 4),
         NameInputs({"get", "set", "x", "1", "$", "[", "]", "SP", "hi", "lo", "(", "'", "function"}, 3),
         BodyInputs({"[", "]", "native", "code", "SP", "RBRACE"}, 5),
         SeqsUpTo(CodeUnits, 2)}

(* The inputs of the termination run.                                      *)
TerminationInputs ==
  UNION {GapInputs({"SP", "LF", "/", "*", "x"}, 2),
         ParamInputs({"(", ")", "'", "\\", "/", "*", "LF", "x"}, 3),
         NameInputs({"get", "x", "[", "]", "'"}, 2),
         SeqsUpTo(CodeUnits, 1)}

(* The inputs of the violation runs, one family per divergence.           *)
CommentInputs == GapInputs({"/", "*", "x"}, 3)

EscapedBackslashInputs == ParamInputs({"'", "\\"}, 4)

LineContinuationInputs == {WithParams(<<"'", "\\", "LF", "'">>), WithParams(<<"DQ", "\\", "LS", "DQ">>)}

SeparatorInputs == ParamInputs({"'", "LS", "x"}, 3)

AstralInputs == NameInputs({"hi", "lo", "x"}, 2)

TemplateInputs == ParamInputs({"BT", ")", "x", "="}, 5)

-----------------------------------------------------------------------------
(* The call has returned.                                                  *)
Returned == pc \in Results

(* validateNativeFunctionSource returns exactly on the strings the         *)
(* NativeFunction grammar derives, and throws SyntaxError on the others    *)
(* (the grammar in the harness header; spec.md, sections 4.1 and 8).       *)
AcceptsExactlyGrammar ==
  Returned => (pc = "accepted" <=> Grammar!Accepts(source))

(* The strings on which the code and the grammar are known to part, each  *)
(* shown by a violation run:                                               *)
(*  - "/*/": indexOf('*/', pos) searches from the comment's own '/', so    *)
(*    the '*' of the opener also closes it;                                *)
(*  - a backslash before a backslash or a line terminator: eatString takes *)
(*    the quote after an escaped backslash for an escaped quote, and       *)
(*    throws on a line continuation;                                       *)
(*  - a U+2028 after a quote: eatString throws on it inside a string;      *)
(*  - a surrogate pair: getIdentifier tests one code unit at a time;      *)
(*  - a backquote: stumbleUntil does not know template literals, so a      *)
(*    bracket or a quote inside one is counted or opens a string.          *)
OpenerClosesComment(s) ==
  \E i \in 1 .. Len(s) - 2 : s[i] = "/" /\ s[i + 1] = "*" /\ s[i + 2] = "/"

EscapedBackslashOrNewline(s) ==
  \E i \in 1 .. Len(s) - 1 : s[i] = "\\" /\ s[i + 1] \in {"\\", "LF", "LS"}

SeparatorAfterQuote(s) ==
  \E i, j \in 1 .. Len(s) : i < j /\ s[i] \in Quotes /\ s[j] = "LS"

SurrogatePair(s) == \E i \in 1 .. Len(s) - 1 : s[i] = "hi" /\ s[i + 1] = "lo"

HoldsTemplate(s) == \E i \in 1 .. Len(s) : s[i] = "BT"

Divergent(s) ==
  \/ OpenerClosesComment(s)
  \/ EscapedBackslashOrNewline(s)
  \/ SeparatorAfterQuote(s)
  \/ SurrogatePair(s)
  \/ HoldsTemplate(s)

(* On every string outside those classes, validateNativeFunctionSource     *)
(* returns exactly when the NativeFunction grammar derives the string:     *)
(* comments, strings and nested brackets in any position, keyword          *)
(* prefixes, the optional accessor and name, the end of the string inside  *)
(* a scan, and trailing text are all handled as the grammar says.          *)
AgreesOutsideDivergences ==
  Returned /\ ~Divergent(source) => (pc = "accepted" <=> Grammar!Accepts(source))

=============================================================================
