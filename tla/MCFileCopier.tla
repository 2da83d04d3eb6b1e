----------------------------- MODULE MCFileCopier -----------------------------
(***************************************************************************)
(* A small copy with every kind of conflict: a directory onto a directory, *)
(* a file below it onto a file, a file onto a file whose first automatic   *)
(* name is taken, and a file onto itself.                                  *)
(***************************************************************************)
EXTENDS FileCopier

N(name) == <<name, << >>>>
MCBases == {"s", "d", "a", "x", "f", "g", "n"}
s == <<N("s")>>
d == <<N("d")>>
MCDirs == {s, d, Append(s, N("a")), Append(d, N("a"))}
MCFiles == {Append(s, N("a")) \o <<N("x")>>, Append(s, N("f")), Append(s, N("g")),
            Append(d, N("a")) \o <<N("x")>>, Append(d, N("f")), Append(d, <<"f", <<0>>>>)}
MCInitialFs == [p \in MCDirs \cup MCFiles |-> IF p \in MCDirs THEN Dir ELSE <<"orig", p>>]
MCCopyList == <<<<Append(s, N("f")), Append(d, N("f"))>>,
                <<Append(s, N("a")), Append(d, N("a"))>>,
                <<Append(s, N("g")), Append(s, N("g"))>>>>
MCNewNames == {N("n"), <<"f", <<0>>>>}

=============================================================================
