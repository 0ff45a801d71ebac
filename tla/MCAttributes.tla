---------------------------- MODULE MCAttributes ----------------------------
(***************************************************************************)
(* Small instances of Attributes: days of two minutes, of two seconds, of   *)
(* two ticks; one end of a year and one leap day.                          *)
(***************************************************************************)
EXTENDS Attributes

MCMode(exec, special) == [exec |-> exec, special |-> special]

MCFile(mode, modified, plain) ==
    [mode |-> mode, uid |-> 1, gid |-> 1, accessed |-> 11, modified |-> modified,
     size |-> 1, plain |-> plain]

\* Year 1 is 32..55, year 2 is 56..87 with the leap day 80..87.
MCFiles == {MCFile(MCMode(FALSE, TRUE), 55, TRUE), MCFile(MCMode(TRUE, FALSE), 87, FALSE)}
MCOldFiles == {MCFile(MCMode(TRUE, FALSE), 55, TRUE)}
MCStarts == {55, 87}
MCNewYear == {55}

Optional(a, values) == {<< >>} \cup {[x \in {a} |-> v] : v \in values}

Join(f, g) == [a \in DOMAIN f \cup DOMAIN g |-> IF a \in DOMAIN f THEN f[a] ELSE g[a]]

Ask(mode, ids, gids, accessed, modified) ==
    {Join(Join(m, Join(u, g)), Join(Join(x, y), [size |-> 0])) :
       m \in mode, u \in ids, g \in gids, x \in accessed, y \in modified}

\* Every choice of attributes, and every choice of times.
MCAsks ==
    Ask(Optional("mode", {MCMode(TRUE, FALSE)}), Optional("uid", {2}),
        Optional("gid", {2}), Optional("accessed", {55}), Optional("modified", {55}))
    \cup Ask({<< >>}, {<< >>}, {<< >>}, Optional("accessed", {-1}),
             Optional("modified", {-1, 55, 87, 255}))
MCNoAsks == {[size |-> 0]}

MCZones == {-4, 4}
MCEach == [setstat |-> 1, stat |-> 1]
MCStatOnly == [setstat |-> 0, stat |-> 1]
MCUtc == {0}
MCNamed == {1}
=============================================================================
