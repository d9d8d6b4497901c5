------------------------------ MODULE StringToken ------------------------------
(***************************************************************************)
(* What quash makes of a string token: interpret_complex_string_token of    *)
(* parsing_interface.c, which removes quotes and escapes and expands       *)
(* variables, on the tokens that the rule string of parse.l matches.  A    *)
(* character is one of the classes that the code tells apart.              *)
(***************************************************************************)
EXTENDS Integers, Sequences
Lists == INSTANCE SequencesExt

CONSTANTS MAX_PIECES,   \* bound: pieces of a token
          MAX_QUOTED,   \* bound: elements of a quoted section
          Env           \* the environment: the values of the names that have one

\* A letter, a digit, the five that mean something, a character with an escape
\* of its own (one of # = & | ; space and tab) and any other.
Chars == {"letter", "digit", "\\", "'", "$", "newline", "special", "other"}
Escapable == {"\\", "'", "$", "special"}
IdentifierChars == {"letter", "digit"}   \* and the first of them is a letter

ASSUME TokenAssumption ==
  /\ MAX_PIECES \in Nat /\ MAX_QUOTED \in Nat
  /\ \A name \in DOMAIN Env : Env[name] \in Seq(Chars)

\* The rule string: plain characters, escaped ones and quoted sections, in
\* which a backslash escapes as well.
Plain == Chars \ {"\\", "'", "newline", "special"}
Quoted == {<<c>> : c \in {"letter", "$", "newline"}}
          \cup {<<"\\", c>> : c \in {"letter", "\\", "'"}}
Pieces == [kind : {"plain"}, text : {<<c>> : c \in Plain} \cup {<<"$", "letter">>}]
          \cup [kind : {"escape"}, text : {<<c>> : c \in Chars}]
          \cup [kind : {"quoted"}, text : UNION {[1..n -> Quoted] : n \in 0..MAX_QUOTED}]

RawText(piece) ==
  CASE piece.kind = "plain"  -> piece.text
    [] piece.kind = "escape" -> <<"\\">> \o piece.text
    [] piece.kind = "quoted" -> <<"'">> \o Lists!FlattenSeq(piece.text) \o <<"'">>

\* Tokens without a quote, a backslash or a dollar are matched by other rules.
Tokens ==
  {t \in UNION {[1..n -> Pieces] : n \in 1..MAX_PIECES} :
     \E k \in DOMAIN t : t[k].kind # "plain" \/ t[k].text[1] = "$"}

VARIABLES token,      \* the pieces the lexer has matched
          str,        \* their characters
          i,          \* the index in str, from 1
          bld,        \* the string that is built
          in_quotes,
          token_at    \* "scan", then "done" or "abort"

tokenVars == <<token, str, i, bld, in_quotes, token_at>>

TokenInit ==
  /\ token \in Tokens
  /\ str = Lists!FlattenSeq([k \in DOMAIN token |-> RawText(token[k])])
  /\ i = 1 /\ bld = <<>> /\ in_quotes = FALSE
  /\ token_at = "scan"

\* The character behind the one at k, or the null character.
NextChar(k) == IF k < Len(str) THEN str[k + 1] ELSE "nul"

\* The switch leaves text behind what was built, and the loop goes on at k.
Goes(text, k) ==
  /\ bld' = bld \o text /\ i' = k
  /\ UNCHANGED <<token, str, token_at>>

Here(c) == token_at = "scan" /\ i <= Len(str) /\ str[i] = c

\* A backslash outside quotes.
Escape ==
  /\ Here("\\") /\ ~in_quotes
  /\ CASE NextChar(i) \in Escapable -> Goes(<<NextChar(i)>>, i + 2)
       [] NextChar(i) = "newline"   -> Goes(<<>>, i + 2)
       [] OTHER                     -> Goes(<<"\\">>, i + 1)
  /\ UNCHANGED in_quotes

\* Mutant: quotes are not escaped in a quoted section.
QuotedBackslash ==
  /\ Here("\\") /\ in_quotes
  /\ Goes(<<"\\">>, i + 1)
  /\ UNCHANGED in_quotes

\* A backslash in quotes escapes a quote and nothing else.
QuotedEscape ==
  /\ Here("\\") /\ in_quotes
  /\ IF NextChar(i) = "'" THEN Goes(<<"'">>, i + 2) ELSE Goes(<<"\\">>, i + 1)
  /\ UNCHANGED in_quotes

Quote == Here("'") /\ in_quotes' = ~in_quotes /\ Goes(<<>>, i + 1)

\* Is a variable dereferenced at i?
IsDeref == Here("$") /\ ~in_quotes /\ NextChar(i) = "letter"

lookup_env(name) == IF name \in DOMAIN Env THEN Env[name] ELSE <<>>

\* __interpret_deref, with the longest identifier.
Dereference ==
  /\ IsDeref
  /\ \E last \in (i + 1)..Len(str) :
       /\ \A k \in (i + 1)..last : str[k] \in IdentifierChars
       /\ NextChar(last) \notin IdentifierChars
       /\ Goes(lookup_env(SubSeq(str, i + 1, last)), last + 1)
  /\ UNCHANGED in_quotes

Keep ==
  /\ token_at = "scan" /\ i <= Len(str) /\ str[i] \notin {"\\", "'"} /\ ~IsDeref
  /\ Goes(<<str[i]>>, i + 1)
  /\ UNCHANGED in_quotes

\* The null character ends the loop; then comes the assertion.
Finish ==
  /\ token_at = "scan" /\ i > Len(str)
  /\ token_at' = IF in_quotes THEN "abort" ELSE "done"
  /\ UNCHANGED <<token, str, i, bld, in_quotes>>

TokenNext == Escape \/ QuotedEscape \/ Quote \/ Dereference \/ Keep \/ Finish

TokenSpec == TokenInit /\ [][TokenNext]_tokenVars

-----------------------------------------------------------------------------
(* Properties *)

\* The characters of a piece, each with whether it may be part of a variable.
\* What is no character, "", separates the pieces of an identifier.
Active(c) == [char |-> c, active |-> TRUE]
Literal(c) == [char |-> c, active |-> FALSE]
Meant(piece) ==
  CASE piece.kind = "plain" -> [k \in DOMAIN piece.text |-> Active(piece.text[k])]
    [] piece.kind = "escape" ->
         LET c == piece.text[1]
         IN CASE c \in Escapable -> <<Literal(c)>>
              [] c = "newline"   -> <<Literal("")>>
              [] OTHER           -> <<Literal("\\"), Literal(c)>>
    [] piece.kind = "quoted" ->
         <<Literal("")>> \o
         Lists!FlattenSeq([k \in DOMAIN piece.text |->
                       IF piece.text[k] = <<"\\", "'">> THEN <<Literal("'")>>
                       ELSE [j \in DOMAIN piece.text[k] |-> Literal(piece.text[k][j])]])

\* The characters behind k, up to n, may be part of one name; the longest such.
IsIdentifier(chars, k, n) ==
  \A j \in (k + 1)..n : chars[j].active /\ chars[j].char \in IdentifierChars
NameEnd(chars, k) ==
  CHOOSE n \in k..Len(chars) :
    /\ IsIdentifier(chars, k, n)
    /\ n < Len(chars) => ~IsIdentifier(chars, k, n + 1)

IsVariable(chars, k) ==
  chars[k] = Active("$") /\ k < Len(chars) /\ chars[k + 1] = Active("letter")

\* What the character at k, or the variable that begins there, adds to the
\* string, and the character that comes after it.
Adds(chars, k) ==
  IF IsVariable(chars, k)
  THEN lookup_env([j \in 1..(NameEnd(chars, k) - k) |-> chars[k + j].char])
  ELSE IF chars[k].char = "" THEN <<>> ELSE <<chars[k].char>>
After(chars, k) == IF IsVariable(chars, k) THEN NameEnd(chars, k) + 1 ELSE k + 1

\* The characters, from k on, with the values of the variables in their places.
Expanded(chars) ==
  LET from[k \in 1..(Len(chars) + 1)] ==
        IF k > Len(chars) THEN <<>> ELSE Adds(chars, k) \o from[After(chars, k)]
  IN  from[1]

Meaning == Expanded(Lists!FlattenSeq([k \in DOMAIN token |-> Meant(token[k])]))

\* A quoted section that ends with an escaped backslash.
EndsWithBackslash(piece) ==
  piece.kind = "quoted" /\ piece.text # <<>> /\ Lists!Last(piece.text) = <<"\\", "\\">>

\* The scan of the characters, one at a time, gives each piece the lexer has
\* matched its meaning, unless a quoted section ends with an escaped backslash:
\* a variable ends where its piece ends, its value is not scanned again, and
\* quotes that were escaped do not count.
TokenInterpreted ==
  (\A k \in DOMAIN token : ~EndsWithBackslash(token[k])) =>
    /\ token_at # "abort"
    /\ token_at = "done" => bld = Meaning

\* "assert(!in_quotes);" (parsing_interface.c): the quotes of every token that
\* the lexer has matched are closed where the scan sees its end.
QuotesAreClosed == token_at # "abort"
=============================================================================
