--------------------------- MODULE MCShellStatus ---------------------------
(***************************************************************************)
(* Every output of up to four bytes that is text and of up to two that may *)
(* be none, with the statuses 0, 5, 10 and 125.                            *)
(***************************************************************************)
EXTENDS ShellStatus

UpTo(n) == UNION {[1..k -> Bytes] : k \in 0..n}

MCOutputs == UpTo(2) \cup {s \in UpTo(4) : ValidUtf8(s)}
MCStatuses == {<<"0">>, <<"5">>, <<"1", "0">>, <<"1", "2", "5">>}
=============================================================================
