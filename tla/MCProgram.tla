----------------------------- MODULE MCProgram -----------------------------
EXTENDS Program

MCSizes == {0, 1, 2, 22, 23, 31, 255, 256, 511}

MCHostLists == {<<1>>, <<0, 2>>}

MCQueries == {<<>>, <<97>>, <<40, 97>>}

MCNothing == {<<>>}

MCBehind == {<<97>>, <<40>>}

MCNumbers == {-33, -18} \cup (-9 .. 9) \cup {15, 16, 31, 32}

MCTexts ==
  {[kind |-> "absent"], [kind |-> "blank"]} \cup [kind : {"word"}, name : {"root", "nobody"}]
    \cup [kind : {"number"}, n : MCNumbers, rest : {"end", "space", "junk"}]

MCUsers == [u \in {"root"} |-> [uid |-> 5, gid |-> 6]]

MCGroups == [g \in {"root"} |-> 3]

MCLanguages ==
  [l \in {"de", "de-DE", "fr", "en", "-", "x*", ""} |->
     CASE l = "de-DE" -> <<"alnum", "alnum", "dash", "alnum", "alnum">>
       [] l = "-" -> <<"dash">>
       [] l = "x*" -> <<"alnum", "other">>
       [] l = "" -> <<>>
       [] OTHER -> <<"alnum", "alnum">>]

MCTable == [l \in {"de", "de-DE"} |-> "de_DE.UTF-8"]

MCLocales ==
  [l \in {"fr", "en", "-", "x*", ""} |->
     CASE l = "fr" -> "fr.UTF-8" [] l = "en" -> "en.UTF-8" [] l = "" -> ".UTF-8" [] OTHER -> "?"]

=============================================================================
