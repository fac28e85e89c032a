---------------------------- MODULE MCDimcliArgv ----------------------------
(***************************************************************************)
(* Every short line and every short list of arguments over the characters  *)
(* the conventions tell apart.                                             *)
(***************************************************************************)
EXTENDS DimcliArgv

Chars == {"a", "sp", "nl", "ff", "bs", "sq", "dq", "#"}

UpTo(S, n) == UNION {[1 .. k -> S] : k \in 0 .. n}

MCCharacters == Chars \cup {"cr", "$"}
MCConventions == {"gnu", "glib", "windows"}
MCLines == UpTo(Chars, 4) \cup [1 .. 5 -> {"a", "sp", "bs", "dq"}]
           \cup UpTo({"a", "$", "cr", "#", "dq", "bs"}, 3)
MCLists == UpTo(UpTo(Chars \ {"ff"}, 2), 2) \cup [1 .. 1 -> UpTo(Chars, 3)]
           \cup [1 .. 1 -> UpTo(MCCharacters, 2)]
=============================================================================
