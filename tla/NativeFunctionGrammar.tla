------------------------- MODULE NativeFunctionGrammar -------------------------
(***************************************************************************)
(* The reference that validateNativeFunctionSource is checked against: the *)
(* NativeFunction production quoted in the harness header                  *)
(* (src/rusty-js-core/tests/harness.js, lines 1196-1201),                  *)
(*                                                                         *)
(*   function NativeFunctionAccessor? IdentifierName?                      *)
(*            ( FormalParameters ) { [ native code ] }                     *)
(*                                                                         *)
(* over ECMAScript's lexical grammar: whitespace, line terminators and     *)
(* comments between tokens, identifiers of ID_Start / ID_Continue code     *)
(* points (a surrogate pair is one code point), and string literals with   *)
(* escape sequences and line continuations, and template literals without *)
(* substitutions.  FormalParameters, and the                               *)
(* computed name, are taken with the leniency the harness documents        *)
(* (spec.md, 4.1 and 9): any token sequence in which the bracket that      *)
(* closes it is balanced, strings, templates and comments being opaque.    *)
(* Regular expression literals are outside the alphabet, and so are the    *)
(* substitutions ${ ... } of a template (a template holding "${" is taken *)
(* as a lexical error).                                                    *)
(*                                                                         *)
(* This module is written independently of the code, as a tokenizer that   *)
(* reads the whole string followed by a parser of the token sequence.  It  *)
(* is only evaluated by TLC.                                               *)
(***************************************************************************)
EXTENDS Integers, Sequences

LOCAL Letters == {"function", "get", "set", "native", "code", "x"}

(* What the tokenizer returns: ok is FALSE on an unterminated comment or   *)
(* string literal.                                                         *)
Lexed(toks) == [ok |-> TRUE, toks |-> toks]

LexError == [ok |-> FALSE, toks |-> <<>>]

Token(kind, text) == [kind |-> kind, text |-> text]

LOCAL Cons(tok, rest) == [rest EXCEPT !.toks = <<tok>> \o @]

(* Length in code units of an identifier code point starting at s[i], or 0 *)
LOCAL IdUnit(s, i, start) ==
  CASE i > Len(s) -> 0
    [] s[i] \in Letters \cup {"$"} -> 1
    [] ~start /\ s[i] = "1" -> 1
    [] s[i] = "hi" /\ i < Len(s) /\ s[i + 1] = "lo" -> 2
    [] OTHER -> 0

(* The index just past the identifier that continues at s[i].              *)
RECURSIVE IdentEnd(_, _)
IdentEnd(s, i) == IF IdUnit(s, i, FALSE) = 0 THEN i ELSE IdentEnd(s, i + IdUnit(s, i, FALSE))

(* The index of the quote q closing a string literal whose body starts at  *)
(* s[i], or 0 when the literal is unterminated.  A backslash escapes the   *)
(* unit after it, a line terminator included (a line continuation).  LF  *)
(* ends a literal in error; LS does not (ECMAScript 2019, JSON superset). *)
RECURSIVE StringClose(_, _, _)
StringClose(s, i, q) ==
  CASE i > Len(s) -> 0
    [] s[i] = q -> i
    [] s[i] = "\\" -> IF i + 1 > Len(s) THEN 0 ELSE StringClose(s, i + 2, q)
    [] s[i] = "LF" -> 0
    [] OTHER -> StringClose(s, i + 1, q)

(* The index of the backquote closing a template literal whose body        *)
(* starts at s[i], or 0 when it is unterminated or holds a substitution.   *)
(* A backslash escapes the unit after it; line terminators are allowed.    *)
RECURSIVE TemplateClose(_, _)
TemplateClose(s, i) ==
  CASE i > Len(s) -> 0
    [] s[i] = "BT" -> i
    [] s[i] = "\\" -> IF i + 1 > Len(s) THEN 0 ELSE TemplateClose(s, i + 2)
    [] s[i] = "$" /\ i < Len(s) /\ s[i + 1] = "LBRACE" -> 0
    [] OTHER -> TemplateClose(s, i + 1)

(* The index of the '*' of the first "*/" at or after s[i], or 0.          *)
RECURSIVE CommentClose(_, _)
CommentClose(s, i) ==
  CASE i + 1 > Len(s) -> 0
    [] s[i] = "*" /\ s[i + 1] = "/" -> i
    [] OTHER -> CommentClose(s, i + 1)

(* The index of the first line terminator at or after s[i], or Len(s)+1.   *)
RECURSIVE LineClose(_, _)
LineClose(s, i) ==
  IF i > Len(s) \/ s[i] \in {"LF", "LS"} THEN i ELSE LineClose(s, i + 1)

(* The tokens of s[i..], or LexError.                                      *)
RECURSIVE LexFrom(_, _)
LexFrom(s, i) ==
  IF i > Len(s) THEN Lexed(<<>>)
  ELSE
    LET c == s[i]
        nx == IF i < Len(s) THEN s[i + 1] ELSE "none"
    IN CASE c \in {"SP", "LF", "LS"} -> LexFrom(s, i + 1)
         [] c = "/" /\ nx = "/" -> LexFrom(s, LineClose(s, i + 2))
         [] c = "/" /\ nx = "*" ->
              IF CommentClose(s, i + 2) = 0 THEN LexError
              ELSE LexFrom(s, CommentClose(s, i + 2) + 2)
         [] c \in {"'", "DQ"} ->
              IF StringClose(s, i + 1, c) = 0 THEN LexError
              ELSE Cons(Token("string", <<>>), LexFrom(s, StringClose(s, i + 1, c) + 1))
         [] c = "BT" ->
              IF TemplateClose(s, i + 1) = 0 THEN LexError
              ELSE Cons(Token("template", <<>>), LexFrom(s, TemplateClose(s, i + 1) + 1))
         [] IdUnit(s, i, TRUE) > 0 ->
              LET e == IdentEnd(s, i + IdUnit(s, i, TRUE))
              IN Cons(Token("ident", SubSeq(s, i, e - 1)), LexFrom(s, e))
         [] OTHER -> Cons(Token("punct", <<c>>), LexFrom(s, i + 1))

Lex(s) == LexFrom(s, 1)

-----------------------------------------------------------------------------
IsPunct(t, i, c) == i <= Len(t) /\ t[i] = Token("punct", <<c>>)

IsWord(t, i, w) == i <= Len(t) /\ t[i] = Token("ident", <<w>>)

(* The index of the token closing the bracket `open` whose contents start  *)
(* at t[i], at depth d, or 0 when it is never closed.                      *)
RECURSIVE Matching(_, _, _, _, _)
Matching(t, i, d, open, close) ==
  CASE i > Len(t) -> 0
    [] IsPunct(t, i, close) /\ d = 1 -> i
    [] IsPunct(t, i, close) -> Matching(t, i + 1, d - 1, open, close)
    [] IsPunct(t, i, open) -> Matching(t, i + 1, d + 1, open, close)
    [] OTHER -> Matching(t, i + 1, d, open, close)

(* Where the optional NativeFunctionAccessor may end.                      *)
AfterAccessor(t) ==
  {2} \cup IF IsWord(t, 2, "get") \/ IsWord(t, 2, "set") THEN {3} ELSE {}

(* Where the optional name (an IdentifierName or a computed [ ... ]) may   *)
(* end, starting at t[i].                                                  *)
AfterName(t, i) ==
  {i}
  \cup (IF i <= Len(t) /\ t[i].kind = "ident" THEN {i + 1} ELSE {})
  \cup (IF IsPunct(t, i, "[") /\ Matching(t, i + 1, 1, "[", "]") > 0
          THEN {Matching(t, i + 1, 1, "[", "]") + 1} ELSE {})

(* ( FormalParameters ) { [ native code ] } from t[i] to the last token.   *)
ParamsAndBody(t, i) ==
  /\ IsPunct(t, i, "(")
  /\ LET j == Matching(t, i + 1, 1, "(", ")")
     IN /\ j > 0
        /\ Len(t) = j + 6
        /\ IsPunct(t, j + 1, "LBRACE")
        /\ IsPunct(t, j + 2, "[")
        /\ IsWord(t, j + 3, "native")
        /\ IsWord(t, j + 4, "code")
        /\ IsPunct(t, j + 5, "]")
        /\ IsPunct(t, j + 6, "RBRACE")

(* s is a NativeFunction.                                                  *)
Accepts(s) ==
  LET t == Lex(s).toks
  IN /\ Lex(s).ok
     /\ IsWord(t, 1, "function")
     /\ \E a \in AfterAccessor(t) : \E n \in AfterName(t, a) : ParamsAndBody(t, n)

=============================================================================
