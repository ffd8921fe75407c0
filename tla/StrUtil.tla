------------------------------- MODULE StrUtil -------------------------------
(***************************************************************************)
(* The quoting helpers of src/retroshare/libretroshare/src/tor/StrUtil.cpp *)
(* as operators on strings, a string being a sequence of characters.  The *)
(* characters the helpers branch on are the quote, the backslash and the   *)
(* separator; any other value stands for an ordinary character (a word of  *)
(* the control protocol may be one symbol, as the helpers never look       *)
(* inside it).                                                             *)
(***************************************************************************)
EXTENDS Naturals, Sequences, SequencesExt

Q  == "\""     \* '"'
BS == "\\"     \* '\\'

\* Mutant: the backslash is copied as it is, not escaped.
EscapeNoBackslash(c) == IF c = Q THEN <<BS, Q>> ELSE <<c>>

\* The switch of quotedString, lines 44-55: '"' and '\\' get a backslash.
Escape(c) == IF c \in {Q, BS} THEN <<BS, c>> ELSE <<c>>

\* quotedString, lines 35-60.
quotedString(s) ==
  <<Q>> \o FlattenSeq([i \in DOMAIN s |-> Escape(s[i])]) \o <<Q>>

\* The loop of unquotedString from index i (lines 70-85): a backslash takes
\* the next character, if there is one, as it is; a quote ends the string.
RECURSIVE UnquoteFrom(_, _, _)
UnquoteFrom(s, i, out) ==
  IF i > Len(s) THEN out
  ELSE IF s[i] = BS
    THEN IF i + 1 <= Len(s) THEN UnquoteFrom(s, i + 2, Append(out, s[i + 1]))
                            ELSE out
  ELSE IF s[i] = Q THEN out
  ELSE UnquoteFrom(s, i + 1, Append(out, s[i]))

\* unquotedString, lines 62-86: a string shorter than 2 or not starting
\* with '"' is returned unchanged.
unquotedString(s) ==
  IF Len(s) < 2 \/ s[1] # Q THEN s ELSE UnquoteFrom(s, 2, <<>>)

\* Mutant: a backslash inside quotes does not skip the next character.
RECURSIVE SplitFromNoSkip(_, _, _, _, _, _)
SplitFromNoSkip(input, sep, i, inquote, start, out) ==
  IF i > Len(input)
    THEN IF start <= Len(input)
           THEN Append(out, SubSeq(input, start, Len(input))) ELSE out
  ELSE LET q == IF input[i] = Q THEN ~inquote ELSE inquote
       IN  IF ~q /\ input[i] = sep
             THEN SplitFromNoSkip(input, sep, i + 1, q, i + 1,
                                  Append(out, SubSeq(input, start, i - 1)))
             ELSE SplitFromNoSkip(input, sep, i + 1, q, start, out)

\* The loop of splitQuotedStrings from index i (lines 94-115, 1-based): a
\* quote toggles inquote, a backslash inside quotes skips the next
\* character, a separator outside quotes ends a token.  After the loop the
\* rest, if non-empty, is the last token.
RECURSIVE SplitFrom(_, _, _, _, _, _)
SplitFrom(input, sep, i, inquote, start, out) ==
  IF i > Len(input)
    THEN IF start <= Len(input)
           THEN Append(out, SubSeq(input, start, Len(input))) ELSE out
  ELSE LET q == IF input[i] = Q THEN ~inquote ELSE inquote
           j == IF input[i] = BS /\ inquote THEN i + 1 ELSE i
       IN  \* input[j] is read only when ~q, so never past the end
           IF ~q /\ input[j] = sep
             THEN SplitFrom(input, sep, j + 1, q, j + 1,
                            Append(out, SubSeq(input, start, j - 1)))
             ELSE SplitFrom(input, sep, j + 1, q, start, out)

\* splitQuotedStrings, lines 88-118.
splitQuotedStrings(input, sep) == SplitFrom(input, sep, 1, FALSE, 1, <<>>)

=============================================================================
