------------------------------- MODULE Orders -------------------------------
(* The few operations the window manager needs on its orders: vectors of    *)
(* client ids it filters (retain), reverses and searches.                   *)
EXTENDS Integers, Sequences, FiniteSetsExt

\* SelectSeq with a set for a test, as a recursive function.
Keep(s, S) ==
  LET kept[i \in 0 .. Len(s)] ==
        IF i = 0 THEN <<>>
        ELSE IF s[i] \in S THEN Append(kept[i - 1], s[i]) ELSE kept[i - 1]
  IN  kept[Len(s)]

Elements(s) == {s[i] : i \in DOMAIN s}

\* Nobody twice.
Distinct(s) == \A i, j \in DOMAIN s : s[i] = s[j] => i = j

Newest(s) == [i \in 1 .. Len(s) |-> s[Len(s) + 1 - i]]

\* The first and the last element of s in S, or `none'.
FirstOf(s, S, none) ==
  LET hits == {i \in DOMAIN s : s[i] \in S}
  IN  IF hits = {} THEN none ELSE s[Min(hits)]

LastOf(s, S, none) ==
  LET hits == {i \in DOMAIN s : s[i] \in S}
  IN  IF hits = {} THEN none ELSE s[Max(hits)]
=============================================================================
