------------------------------- MODULE Strings -------------------------------
(***************************************************************************)
(* strtok and strparse (src/string.c), by which the shell splits its lines *)
(* and paths.  A string is a sequence of symbols; a name has one or two,   *)
(* none of which is a delimiter.                                           *)
(***************************************************************************)
EXTENDS Integers, Sequences, SequencesExt, FiniteSetsExt

\* next_token when no token is left; no string equals it.
NULL == <<"NULL">>

\* The string, cut at the first of the places where a delimiter is.
CutAt(str, hits) ==
    IF hits = {} THEN [token |-> str, next_token |-> NULL]
    ELSE [token |-> SubSeq(str, 1, Min(hits) - 1),
          next_token |-> SubSeq(str, Min(hits) + 1, Len(str))]

\* The dead branch for a token that starts at a delimiter lives: such a token
\* is skipped.
MutantStrtok(str, delim) == CutAt(str, {i \in DOMAIN str : str[i] = delim /\ i > 1})

\* One call: the token up to the first delimiter, which is overwritten, and
\* where the next call goes on.  A token may be empty.
strtok(str, delim) == CutAt(str, {i \in DOMAIN str : str[i] = delim})

More(tokens, t) == [tokens |-> Append(tokens, t.token), next_token |-> t.next_token]

\* strparse calls strtok until it returns NULL, which is at most once more than
\* there are symbols.
strparse(str, delim) ==
    LET next(v, i) == IF v.next_token = NULL THEN v ELSE More(v.tokens, strtok(v.next_token, delim))
    IN  FoldLeftDomain(next, [tokens |-> <<>>, next_token |-> str], str \o <<delim>>).tokens

\* What splitting means: the tokens have no delimiter in them, and with the
\* delimiter between them they are the string.
Splits(tokens, str, delim) ==
    /\ \A i \in DOMAIN tokens : ~Contains(tokens[i], delim)
    /\ tokens # <<>>
    /\ FoldLeft(LAMBDA joined, t : joined \o <<delim>> \o t, tokens[1], Tail(tokens)) = str
=============================================================================
