----------------------------- MODULE MCRemoteFs -----------------------------
(***************************************************************************)
(* Small instances of RemoteFsClients: two names, paths of at most two     *)
(* components, the login directory /a.                                     *)
(***************************************************************************)
EXTENDS RemoteFsClients

Abs(p) == [abs |-> TRUE, names |-> p]
Rel(p) == [abs |-> FALSE, names |-> p]

One(ops, args) == {[op |-> o, path |-> p, other |-> p] : o \in ops, p \in args}
Two(ops, args) ==
    {[op |-> o, path |-> p, other |-> q] : o \in ops, p \in args, q \in args}

Tree(f) == [p \in Paths |-> IF p = Root THEN Dir
                            ELSE IF p \in DOMAIN f THEN f[p] ELSE None]

MCHome == <<"a">>
MCBoth == {"scp", "sftp"}
MCScp == {"scp"}

\* /a/ with a file, /b a file
FilesTree == Tree([p \in {<<"a">>, <<"a", "a">>, <<"b">>} |->
                     IF p = <<"a">> THEN Dir
                     ELSE IF p = <<"b">> THEN File(1) ELSE File(2)])

\* /a/ and /b/ with a directory
DirsTree == Tree([p \in {<<"a">>, <<"b">>, <<"b", "a">>} |-> Dir])

\* /a/ with a link to /a/b, which is not there, and /b a link to /a/
LinksTree == Tree([p \in {<<"a">>, <<"a", "a">>, <<"b">>} |->
                     IF p = <<"a">> THEN Dir
                     ELSE IF p = <<"b">> THEN Link(Abs(<<"a">>))
                     ELSE Link(Abs(<<"a", "b">>))])

\* /a/ with a file, /b/ empty
EmptyTree == Tree([p \in {<<"a">>, <<"a", "a">>, <<"b">>} |->
                     IF p = <<"a", "a">> THEN File(2) ELSE Dir])

\* The files of data 2, like /a/a, have an ACL.
MCMarked == {<<q, File(2)>> : q \in Paths}

MCTrees == {FilesTree, DirsTree, LinksTree}
MCRaceTrees == {EmptyTree, LinksTree}

MCArgs == {Abs(<<"b">>), Abs(<<"b", "a">>), Rel(<<"a">>), Abs(Root)}
MCFew == {Abs(<<"b">>), Rel(<<"a">>)}

Changes == {"remove_file", "remove_dir", "remove_dir_all", "create_dir", "create"}
Lookups == {"change_dir", "list_dir", "stat", "exists", "open"}
OnePath == Changes \cup Lookups \cup {"append"}
TwoPaths == {"copy", "mov", "symlink"}

\* Of the calls on the root those that a server might carry out, of those on one path
\* twice one mov, and for the relative path not every method.
MCAll == (One(OnePath, MCArgs \ {Abs(Root)})
           \ One({"open", "append", "create", "exists", "list_dir"}, {Rel(<<"a">>)}))
         \cup One({"list_dir", "stat", "remove_dir_all"}, {Abs(Root)})
         \cup {r \in Two(TwoPaths, MCArgs) :
                 /\ r.path # Abs(Root)
                 /\ r.other = Abs(Root) => r.op = "mov" /\ r.path = Abs(<<"b", "a">>)
                 /\ r.other = r.path => r.op = "mov" /\ r.path = Abs(<<"b">>)}
         \cup One({"exec"}, {Rel(<<"b">>)})

\* In the races no call names one path twice, and all lookups are of one path.
MCRace == One(Changes, MCFew) \cup One(Lookups \ {"open"}, {Abs(<<"b">>)})
            \cup {r \in Two(TwoPaths, MCFew) : r.path # r.other}
MCEmptyTree == {EmptyTree}

MCSymlinkAway == Two({"symlink"}, {Abs(<<"b", "b">>), Rel(<<"a">>)})
MCExec == One({"change_dir", "remove_dir"}, {Abs(<<"b">>)})
            \cup One({"exec"}, {Rel(<<"b">>)})

Symmetry == Permutations(Clients)
=============================================================================
