----------------------------- MODULE RemoteTree -----------------------------
(***************************************************************************)
(* The server's file system, which is outside the repository: a tree of    *)
(* directories, files and symbolic links, and what the shell commands of   *)
(* src/ssh/scp.rs and the SFTP requests of src/ssh/sftp.rs do to it.  A     *)
(* command is an operator that gives the set of its possible outcomes, an  *)
(* exit status and the tree it leaves; a command may always be refused     *)
(* (permissions, a full disk).                                             *)
(*                                                                         *)
(* A path is the sequence of its components below "/"; an argument of a    *)
(* call is a path with a flag that says whether it is absolute.            *)
(***************************************************************************)
EXTENDS Integers, Sequences, FiniteSets, SequencesExt

CONSTANTS
    Names,     \* the file names
    MaxDepth,  \* the longest path the server accepts
    MaxLinks   \* how many links a path resolution follows before ELOOP

ASSUME RemoteTreeAssumption ==
    /\ Names # {} /\ IsFiniteSet(Names)
    /\ MaxDepth \in Nat \ {0}
    /\ MaxLinks \in Nat

Paths == UNION {[1..n -> Names] : n \in 0..MaxDepth}

Root == << >>

Arg == [abs : BOOLEAN, names : Paths]

None == [kind |-> "none"]
Dir == [kind |-> "dir"]
File(data) == [kind |-> "file", data |-> data]
Link(to) == [kind |-> "link", to |-> to]

\* Every entry is in a directory.
TreeOK(t) ==
    /\ t = [p \in Paths |-> t[p]]
    /\ t[Root] = Dir
    /\ \A p \in Paths \ {Root} :
          /\ \/ t[p] \in {None, Dir}
             \/ t[p].kind = "file"
             \/ t[p].kind = "link" /\ t[p].to \in Arg
          /\ t[p] # None => t[Front(p)] = Dir

-----------------------------------------------------------------------------
(* Path resolution, links followed.                                        *)

\* A walk is in directory at, has the components rest to visit and may follow so
\* many links more; ok is FALSE when it cannot go on.
Walks == [at : Paths, rest : Seq(Names), ok : BOOLEAN, links : 0..MaxLinks]

\* One component of a walk.
Visit(t) ==
    [w \in Walks |->
       LET goes == w.ok /\ w.rest # << >>
           here == Append(w.at, Head(w.rest))
           more == Tail(w.rest)
           node == IF here \in Paths THEN t[here] ELSE None
       IN  CASE ~goes -> w
             [] goes /\ node.kind = "link" /\ w.links > 0 ->
                  [w EXCEPT !.at = IF node.to.abs THEN Root ELSE @,
                            !.rest = node.to.names \o more,
                            !.links = @ - 1]
             [] goes /\ (node = Dir \/ (node.kind = "file" /\ more = << >>)) ->
                  [w EXCEPT !.at = here, !.rest = more]
             [] OTHER -> [w EXCEPT !.ok = FALSE]]

\* How many components a walk along p visits at most.
Limit(p) == Len(p) + MaxLinks * MaxDepth

Walk(t, p) ==
    LET walk[n \in 0..Limit(p)] ==
            IF n = 0 THEN [at |-> Root, rest |-> p, ok |-> TRUE, links |-> MaxLinks]
                     ELSE Visit(t)[walk[n - 1]]
    IN  walk[Limit(p)]

\* test -e: the path leads to something, a dangling link does not.
TestE(t, p) == LET w == Walk(t, p) IN w.ok /\ w.rest = << >>

\* The place a path leads to, when it does.
Real(t, p) == Walk(t, p).at

\* test -d
TestD(t, p) == TestE(t, p) /\ t[Real(t, p)] = Dir

\* The directory entry a path names: only the links before it are followed.
HasPlace(t, p) ==
    /\ p # Root
    /\ TestD(t, Front(p))
    /\ Append(Real(t, Front(p)), Last(p)) \in Paths

Place(t, p) == Append(Real(t, Front(p)), Last(p))

Entry(t, p) == IF p = Root THEN Dir
               ELSE IF HasPlace(t, p) THEN t[Place(t, p)] ELSE None

\* What exists at place e and under it.
Below(t, e) == {q \in Paths : IsPrefix(e, q) /\ t[q] # None}

\* The names in the directory at place e.
NamesIn(t, e) == {Last(q) : q \in {r \in Below(t, e) : Len(r) = Len(e) + 1}}

-----------------------------------------------------------------------------
(* The commands.                                                           *)

Done(t) == [rc |-> "0", tree |-> t]
Refused(t) == [rc |-> "1", tree |-> t]

\* A command that succeeds, if the tree lets it, or is refused.
MayDo(t, possible, after) ==
    {Refused(t)} \cup (IF possible THEN {Done(after)} ELSE {})

Without(t, S) == [q \in Paths |-> IF q \in S THEN None ELSE t[q]]

\* mkdir p
MkDir(t, p) ==
    MayDo(t, HasPlace(t, p) /\ Entry(t, p) = None,
          [t EXCEPT ![Place(t, p)] = Dir])

\* rmdir p
RmDir(t, p) ==
    MayDo(t, HasPlace(t, p) /\ Entry(t, p) = Dir
             /\ NamesIn(t, Place(t, p)) = {},
          [t EXCEPT ![Place(t, p)] = None])

\* rm -f p: a missing entry is no error, a directory is.
RmF(t, p) ==
    IF Entry(t, p) = None
      THEN {Done(t)}
      ELSE MayDo(t, Entry(t, p) # Dir, [t EXCEPT ![Place(t, p)] = None])

\* rm -rf p: bottom up, so what it leaves when it fails is closed upwards.
RmRF(t, p) ==
    IF Entry(t, p) = None
      THEN {Done(t)}
      ELSE IF p = Root
        THEN {Refused(t)}
        ELSE LET all == Below(t, Place(t, p))
             IN  {Done(Without(t, all))} \cup
                 {[rc |-> "1", tree |-> Without(t, S)] :
                     S \in {R \in SUBSET all :
                              /\ R # all
                              /\ \A q \in R, r \in all : IsPrefix(q, r) => r \in R}}

\* ln -s to p: inside p when p leads to a directory.
LnS(t, to, p) ==
    IF TestD(t, p)
      THEN LET e == Append(Real(t, p), Last(to.names))
           IN  MayDo(t, to.names # Root /\ e \in Paths /\ t[e] = None,
                     [t EXCEPT ![e] = Link(to)])
      ELSE MayDo(t, HasPlace(t, p) /\ Entry(t, p) = None,
                 [t EXCEPT ![Place(t, p)] = Link(to)])

\* Where cp and mv put the entry named last: in d when d leads to a directory.
HasGoal(t, d, last) ==
    IF TestD(t, d) THEN Append(Real(t, d), last) \in Paths ELSE HasPlace(t, d)

Goal(t, d, last) ==
    IF TestD(t, d) THEN Append(Real(t, d), last) ELSE Place(t, d)

\* The place under goal that corresponds to r, which is under e.
Image(e, goal, r) == goal \o SubSeq(r, Len(e) + 1, Len(r))

\* The entries P, which are under e, repeated under goal.
Overlay(t, e, goal, P) ==
    [q \in Paths |-> IF \E r \in P : Image(e, goal, r) = q
                       THEN t[CHOOSE r \in P : Image(e, goal, r) = q]
                       ELSE t[q]]

\* They all fit, and none falls on something it cannot replace.
Fits(t, e, goal) ==
    /\ ~IsPrefix(e, goal)
    /\ \A r \in Below(t, e) :
          LET q == Image(e, goal, r)
          IN  /\ q \in Paths
              /\ \/ t[q] = None
                 \/ t[q].kind = t[r].kind /\ t[q].kind \in {"dir", "file"}

\* cp -rf s d: links are copied as links, directories merged; a copy that
\* fails on the way leaves the part it made.
CpRF(t, s, d) ==
    IF s = Root \/ Entry(t, s) = None \/ ~HasGoal(t, d, Last(s))
      THEN {Refused(t)}
      ELSE LET e == Place(t, s)
               direct == Goal(t, d, Last(s))
               goal == IF t[direct].kind = "link" /\ TestE(t, direct)
                         THEN Real(t, direct) ELSE direct
               all == Below(t, e)
           IN  IF ~Fits(t, e, goal)
                 THEN {Refused(t)}
                 ELSE {Done(Overlay(t, e, goal, all))} \cup
                      {[rc |-> "1", tree |-> Overlay(t, e, goal, P)] :
                          P \in {R \in SUBSET all :
                                   /\ R # all
                                   /\ \A q \in R, r \in all :
                                         IsPrefix(r, q) => r \in R}}

\* rename(2): e becomes goal, over a file or an empty directory of the same kind.
Replace(t, e, goal) ==
    LET all == Below(t, e)
    IN  MayDo(t, /\ ~IsPrefix(e, goal)
                 /\ \A r \in all : Image(e, goal, r) \in Paths
                 /\ \/ t[goal] = None
                    \/ t[e] # Dir /\ t[goal] # Dir
                    \/ t[e] = Dir /\ t[goal] = Dir /\ Below(t, goal) = {goal},
              [q \in Paths |-> IF q \in all THEN None
                               ELSE Overlay(t, e, goal, all)[q]])

\* mv -f s d
MvF(t, s, d) ==
    IF s = Root \/ Entry(t, s) = None \/ ~HasGoal(t, d, Last(s))
      THEN {Refused(t)}
      ELSE Replace(t, Place(t, s), Goal(t, d, Last(s)))

\* Where a new file appears when p is opened with O_CREAT: a dangling link on the
\* way is followed.
Landing(t, p) ==
    LET w == Walk(t, p)
    IN  IF ~w.ok /\ Len(w.rest) = 1 THEN w.at \o w.rest ELSE Root

\* open(p, O_CREAT): a new file holds data, an old one is emptied for data if
\* truncate says so.
OpenCreat(t, p, data, truncate) ==
    IF TestE(t, p)
      THEN MayDo(t, ~TestD(t, p),
                 IF truncate THEN [t EXCEPT ![Real(t, p)] = File(data)] ELSE t)
      ELSE LET e == Landing(t, p)
           IN  MayDo(t, e \in Paths \ {Root} /\ t[e] = None,
                     [t EXCEPT ![e] = File(data)])

\* scp -t p, the server's end of scp_send: opens the file for writing, in p when
\* p leads to a directory; it is cut to its new length only after the data.
ScpT(t, p, data) ==
    IF p = Root
      THEN {Refused(t)}
      ELSE OpenCreat(t, IF TestD(t, p) THEN Append(p, Last(p)) ELSE p, data, FALSE)

\* SSH_FXP_REMOVE: unlike rm -f, a missing entry is an error.
Unlink(t, p) ==
    MayDo(t, Entry(t, p) \notin {None, Dir}, [t EXCEPT ![Place(t, p)] = None])

\* SSH_FXP_SYMLINK: a link to to, at p itself.
SymlinkAt(t, to, p) ==
    MayDo(t, HasPlace(t, p) /\ Entry(t, p) = None, [t EXCEPT ![Place(t, p)] = Link(to)])

\* SSH_FXP_RENAME with overwrite, which a server may refuse when d is taken; an
\* entry that is renamed to itself stays.
Rename(t, s, d) ==
    IF s = Root \/ Entry(t, s) = None \/ ~HasPlace(t, d)
      THEN {Refused(t)}
      ELSE IF Place(t, s) = Place(t, d)
        THEN MayDo(t, TRUE, t)
        ELSE Replace(t, Place(t, s), Place(t, d))

=============================================================================
