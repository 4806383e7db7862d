------------------------------ MODULE MCShell ------------------------------
(* A small instance of Shell.  Its names are those of the files of the     *)
(* system and one more.                                                    *)
EXTENDS Shell, TLC

CONSTANTS sh, osh, n, x, s1, s2, t1

MCNone == <<>>

MCShellName == <<sh>>

MCOshiete == <<osh>>

MCOs == <<x>>

MCShellData == <<s1, s2>>

Lined(words) == FoldLeft(LAMBDA l, w : l \o <<Blank>> \o w, words[1], Tail(words))

Lined2(verbs, paths) == {Lined(<<v, p>>) : v \in verbs, p \in paths}

Lined3(verbs, paths, dests) == {Lined(<<v, p, q>>) : v \in verbs, p \in paths, q \in dests}

Below == <<osh, Slash, n>>

RmR == <<"rm", Blank, "-r">>

CpR == <<"cp", Blank, "-r">>

MCLines ==
    Lined2({<<"cd">>}, {<<osh>>, Below, <<n>>, DotDot, <<osh, Slash, Dot, Dot, Slash, n>>})
    \cup Lined2({<<"mkdir">>}, {<<n>>, Below, <<Slash, n>>})
    \cup Lined2({<<"touch">>}, {<<n>>, <<n, x>>, Below, Below \o <<Blank, n, Dot, x>>})
    \cup Lined2({<<"rm">>, RmR}, {<<sh>>, <<osh>>, <<n>>, <<osh, Dot, x>>, Below, DotDot \o <<Slash, osh>>})
    \cup Lined3({<<"mv">>}, {<<sh>>, <<osh>>, <<n>>, Below}, {<<osh>>, <<n>>, Below, <<Dot>>})
    \cup Lined3({<<"cp">>, CpR}, {<<sh>>, <<osh>>, Below}, {<<osh>>, <<n>>, <<Dot>>})
    \cup Lined2({<<"whereis">>}, {<<n>>, <<osh, Dot, x>>})
    \cup {<<"ls">>, <<"ls", Blank, osh>>, <<"cat", Blank, n>>}

View == <<store, cwd, strayed, input.nth>>
=============================================================================
