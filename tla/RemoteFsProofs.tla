--------------------------- MODULE RemoteFsProofs ---------------------------
(***************************************************************************)
(* The safety of the two clients of RemoteFsClients, for every number of   *)
(* clients, every tree and every number of calls and faults.               *)
(*                                                                         *)
(* What one client can tell of a behaviour is its call k, the answer a,    *)
(* the result r of its last call and the history w.  The proofs are about  *)
(* these four, with p the kind of client: first what a step of the system  *)
(* does to them (Moves), then what every such move keeps.                  *)
(***************************************************************************)
EXTENDS RemoteFsClients, RemoteTreeProofs, FiniteSetTheorems

-----------------------------------------------------------------------------
(* The requests of a method.                                               *)

StepsOf(p, k) == IF p = "scp" THEN Scp!Steps(k) ELSE Sftp!Steps(k)
SupportedOf(p) == IF p = "scp" THEN Scp!Supported ELSE Sftp!Supported

\* Requests that look, that may stop half way, that ask for an entry, that ask for
\* a directory, and the others.
Looks(cmd) == cmd \in {"test -e", "stat", "test -d", "cd", "ls -la", "readdir",
                       "ls -l", "readlink", "scp -f", "open read"}
HalfWay(cmd) == cmd \in {"rm -rf", "cp -rf"}
Probes(cmd) == cmd \in {"test -e", "stat"}
Enters(cmd) == cmd \in {"test -d", "cd", "ls -la", "readdir"}
LsL(cmd) == cmd = "ls -l"
LsLa(cmd) == cmd = "ls -la"
TestDir(cmd) == cmd = "test -d"
Cuttable(cmd) == cmd \in {"ls -l", "ls -la", "cd"}

Commands == {"test -e", "stat", "test -d", "cd", "ls -la", "readdir", "ls -l",
             "readlink", "scp -f", "open read", "rm -f", "unlink", "rmdir",
             "rm -rf", "mkdir", "ln -s", "symlink", "cp -rf", "mv -f", "rename",
             "scp -t", "open create", "open append", "exec"}

\* The methods that may stop half way.
Half == {"remove_dir_all", "copy"}

\* A request that changes the tree ends its method, and says so.
EndsMethod(p, k, s) ==
    ~Looks(s.cmd) =>
       /\ s.ok = "Ok" /\ s.file = "Ok" /\ s.refused # GoOn /\ s.broken # GoOn
       /\ s.broken = "ProtocolError" \/ <<k.op, s.broken>> \in Vague(p)
       /\ IF k.op \in Half THEN <<k.op, s.refused>> \in Partial ELSE ~HalfWay(s.cmd)

\* exists is one probe.
AsksExists(p, k, s) ==
    k.op = "exists" =>
       /\ Probes(s.cmd) /\ s.on = k.a
       /\ s.ok = "Ok" /\ s.file = "Ok" /\ s.refused = "Ok"
       /\ s.broken = IF p = "scp" THEN "StatFailed" ELSE "Ok"

\* What says that a path is taken, or no directory, has looked at it.
FindsTaken(p, k, s) ==
    /\ s.ok # "DirectoryAlreadyExists" \/ (Probes(s.cmd) /\ s.on = k.a)
    /\ {s.refused, s.broken} \cap {"DirectoryAlreadyExists", "BadFile"} = {}
    /\ s.ok # "BadFile"
    /\ s.file = s.ok \/ (/\ p = "sftp" /\ k.op = "change_dir"
                         /\ s.cmd = "stat" /\ s.on = k.a /\ s.file = "BadFile")

\* What a method reports as missing.
SaysMissing(k, kind) ==
    kind = "NoSuchFileOrDirectory" \/ (k.op = "list_dir" /\ kind = "StatFailed")

\* What says that a path is missing has looked at it, or has had no answer.
FindsMissing(p, k, s) ==
    /\ ~SaysMissing(k, s.ok) /\ ~SaysMissing(k, s.file)
    /\ SaysMissing(k, s.refused) =>
          \/ k.op = "symlink" /\ Probes(s.cmd) /\ s.on = k.b
          \/ k.op = "change_dir" /\ (Probes(s.cmd) \/ Enters(s.cmd)) /\ s.on = k.a
          \/ k.op = "list_dir" /\ p = "sftp" /\ Enters(s.cmd) /\ s.on = k.a
          \/ k.op = "stat" /\ p = "scp" /\ LsL(s.cmd) /\ s.on = k.a
          \/ /\ k.op \notin {"symlink", "change_dir"}
             /\ ~(k.op \in {"list_dir"} /\ p = "sftp") /\ ~(k.op = "stat" /\ p = "scp")
             /\ Probes(s.cmd) /\ s.on = k.a
    /\ SaysMissing(k, s.broken) =>
          p = "sftp" \/ k.op \notin {"exists", "stat", "change_dir"}

\* stat of the SCP client asks for a directory first.
StatsTwice(p, k, s, i) ==
    /\ k.op = "stat" /\ p = "scp" =>
          \/ i = 1 /\ TestDir(s.cmd) /\ s.on = k.a /\ s.broken # GoOn
          \/ i = 2 /\ LsL(s.cmd)
    /\ TestDir(s.cmd) \/ LsL(s.cmd) => k.op = "stat" /\ p = "scp"

\* list_dir asks for the entries, and for the target of each link.
ListsAll(p, k, s, i) ==
    /\ k.op = "list_dir" /\ p = "scp" =>
          \/ i = 1 /\ Probes(s.cmd) /\ s.cmd # "stat" /\ s.ok # "Ok" /\ s.file # "Ok"
             /\ s.refused \notin {"Ok", GoOn} /\ s.broken \notin {"Ok", GoOn}
          \/ i = 2 /\ LsLa(s.cmd) /\ s.on = k.a /\ s.broken \notin {"Ok", GoOn}
    /\ k.op = "list_dir" /\ p = "sftp" =>
          \/ /\ i = 1 /\ s.cmd = "readdir" /\ s.on = k.a /\ s.ok = GoOn /\ s.file = GoOn
             /\ s.refused \notin {"Ok", GoOn} /\ s.broken \notin {"Ok", GoOn}
          \/ /\ i - 1 \in DOMAIN k.links /\ s.cmd = "readlink"
             /\ s.on = Append(k.a, k.links[i - 1])
             /\ s.ok = GoOn /\ s.file = GoOn /\ s.refused = GoOn /\ s.broken = GoOn
    /\ LsLa(s.cmd) \/ s.cmd \in {"readdir", "readlink"} => k.op = "list_dir"
    /\ LsLa(s.cmd) => p = "scp"
    /\ s.cmd \in {"readdir", "readlink"} => p = "sftp"

\* change_dir is one request, and Ok needs its answer.
Changes(k, s) ==
    k.op = "change_dir" => s.on = k.a /\ s.refused \notin {"Ok", GoOn} /\ s.broken \notin {"Ok", GoOn}

\* The requests by which a method changes the tree.
Mutations(p) ==
    IF p = "scp"
      THEN {<<"remove_file", "rm -f">>, <<"remove_dir", "rmdir">>,
            <<"remove_dir_all", "rm -rf">>, <<"create_dir", "mkdir">>,
            <<"symlink", "ln -s">>, <<"copy", "cp -rf">>, <<"mov", "mv -f">>,
            <<"exec", "exec">>, <<"create", "scp -t">>}
      ELSE {<<"remove_file", "unlink">>, <<"remove_dir", "rmdir">>,
            <<"create_dir", "mkdir">>, <<"symlink", "symlink">>, <<"copy", "cp -rf">>,
            <<"mov", "rename">>, <<"exec", "exec">>, <<"append", "open append">>,
            <<"create", "open create">>}

Writes(p, k, s) == ~Looks(s.cmd) => s.on = k.a /\ <<k.op, s.cmd>> \in Mutations(p)

\* The methods whose Ok promises nothing of the tree.
Unpromised == {"list_dir", "stat", "exists", "exec"}

\* The lookups on whose answer a method returns Ok.
Lookups(p) ==
    IF p = "scp" THEN {<<"change_dir", "cd">>, <<"open", "scp -f">>}
                 ELSE {<<"change_dir", "stat">>, <<"open", "open read">>}

\* Ok is earned by one request, which is done: an error or a refusal is no Ok.
Earns(p, k, s) ==
    k.op \notin Unpromised =>
       /\ s.refused # "Ok" /\ s.broken # "Ok"
       /\ s.file = "Ok" => s.ok = "Ok"
       /\ s.ok = "Ok" =>
             /\ s.on = k.a /\ <<k.op, s.cmd>> \in Mutations(p) \cup Lookups(p)
             /\ s.refused # GoOn /\ s.broken # GoOn
             /\ s.file # "Ok" <=> s.cmd = "stat"

\* A method that ends says how.
Tells(s) == {s.ok, s.file, s.refused, s.broken} \cap {"none"} = {}

Sends(p, k, s, i) ==
    /\ Tells(s)
    /\ s.cmd \in Commands /\ s.on \in Seq(Names)
    /\ EndsMethod(p, k, s) /\ AsksExists(p, k, s) /\ FindsTaken(p, k, s)
    /\ FindsMissing(p, k, s) /\ StatsTwice(p, k, s, i) /\ ListsAll(p, k, s, i)
    /\ Changes(k, s) /\ Writes(p, k, s) /\ Earns(p, k, s)

\* The last request of a method is the one that earns its Ok.
SendsLast(p, k, s, i) == Sends(p, k, s, i) /\ (k.op \notin Unpromised => s.ok = "Ok")

\* The requests are sent in order, one for each link.
InOrder(p, k, q) ==
    \E n \in Nat \ {0} :
       /\ DOMAIN q = 1..n /\ Len(q) = n
       /\ k.op = "list_dir" /\ p = "sftp" => n = 1 + Len(k.links)
       /\ k.op = "list_dir" /\ p = "scp" => n = 2
       /\ k.op \notin Unpromised => q[n].ok = "Ok"

SendsAll(p, k, q) == InOrder(p, k, q) /\ \A i \in DOMAIN q : Sends(p, k, q[i], i)

\* Methods of one, two and three requests.
LEMMA OneRequest ==
  ASSUME NEW p, NEW k, k.op # "list_dir", NEW x, SendsLast(p, k, x, 1)
  PROVE  SendsAll(p, k, <<x>>)
BY DEF SendsAll, InOrder, SendsLast

\* Methods of two.
LEMMA TwoRequests ==
  ASSUME NEW p, NEW k, p # "sftp" \/ k.op # "list_dir", NEW x, NEW y,
         Sends(p, k, x, 1), SendsLast(p, k, y, 2)
  PROVE  SendsAll(p, k, <<x, y>>)
BY DEF SendsAll, InOrder, SendsLast

\* Methods of three.
LEMMA ThreeRequests ==
  ASSUME NEW p, NEW k, k.op # "list_dir", NEW x, NEW y, NEW z,
         Sends(p, k, x, 1), Sends(p, k, y, 2), SendsLast(p, k, z, 3)
  PROVE  SendsAll(p, k, <<x, y, z>>)
BY DEF SendsAll, InOrder, SendsLast

\* The methods of the SCP client.
LEMMA ScpSends ==
  ASSUME NEW k, k.op \in Scp!Supported, k.a \in Seq(Names), k.b \in Seq(Names),
         k.links \in Seq(Names)
  PROVE  SendsAll("scp", k, Scp!Steps(k))
<1> USE DEF Sends, EndsMethod, AsksExists, FindsTaken, SaysMissing, FindsMissing,
            StatsTwice, ListsAll, Changes, Writes, Earns, SendsLast, Unpromised,
            Lookups, Mutations, Looks, HalfWay, Probes, Enters, LsL, LsLa,
            Tells, TestDir, Commands, Half, Partial, Vague, GoOn, Scp!GoOn, Sftp!GoOn, Scp!Step, Scp!Do,
            Scp!Must, Scp!MustNot, Scp!IsDirectory
<1>1. k.op = "change_dir" =>
         SendsLast("scp", k, Scp!Do("cd", k.a, "NoSuchFileOrDirectory"), 1)
  OBVIOUS
<1>2. k.op = "list_dir" =>
         /\ Sends("scp", k, Scp!Must("test -e", k.a), 1)
         /\ SendsLast("scp", k, Scp!Do("ls -la", k.a, "Ok"), 2)
  OBVIOUS
<1>3. k.op = "stat" =>
         /\ Sends("scp", k, Scp!IsDirectory(k.a), 1)
         /\ SendsLast("scp", k, Scp!Do("ls -l", k.a, "NoSuchFileOrDirectory"), 2)
         /\ SendsLast("scp", k, Scp!Step("ls -l", k.a, "StatFailed", "StatFailed", "ProtocolError"), 2)
  OBVIOUS
<1>4. k.op = "exists" =>
         SendsLast("scp", k, Scp!Step("test -e", k.a, "Ok", "Ok", "StatFailed"), 1)
  OBVIOUS
<1>5. k.op = "remove_file" =>
         /\ Sends("scp", k, Scp!Must("test -e", k.a), 1)
         /\ SendsLast("scp", k, Scp!Do("rm -f", k.a, "CouldNotRemoveFile"), 2)
  OBVIOUS
<1>6. k.op = "remove_dir" =>
         /\ Sends("scp", k, Scp!Must("test -e", k.a), 1)
         /\ SendsLast("scp", k, Scp!Do("rmdir", k.a, "DirectoryNotEmpty"), 2)
  OBVIOUS
<1>7. k.op = "remove_dir_all" =>
         /\ Sends("scp", k, Scp!Must("test -e", k.a), 1)
         /\ SendsLast("scp", k, Scp!Do("rm -rf", k.a, "CouldNotRemoveFile"), 2)
  OBVIOUS
<1>8. k.op = "create_dir" =>
         /\ Sends("scp", k, Scp!MustNot("test -e", k.a, "DirectoryAlreadyExists"), 1)
         /\ SendsLast("scp", k, Scp!Do("mkdir", k.a, "FileCreateDenied"), 2)
  OBVIOUS
<1>9. k.op = "symlink" =>
         /\ Sends("scp", k, Scp!Must("test -e", k.b), 1)
         /\ Sends("scp", k, Scp!MustNot("test -e", k.a, "FileCreateDenied"), 2)
         /\ SendsLast("scp", k, Scp!Do("ln -s", k.a, "FileCreateDenied"), 3)
  OBVIOUS
<1>10. k.op = "copy" =>
         /\ Sends("scp", k, Scp!Must("test -e", k.a), 1)
         /\ SendsLast("scp", k, Scp!Do("cp -rf", k.a, "FileCreateDenied"), 2)
  OBVIOUS
<1>11. k.op = "mov" =>
         /\ Sends("scp", k, Scp!Must("test -e", k.a), 1)
         /\ SendsLast("scp", k, Scp!Do("mv -f", k.a, "FileCreateDenied"), 2)
  OBVIOUS
<1>12. k.op = "exec" =>
         SendsLast("scp", k, Scp!Do("exec", k.a, "Ok"), 1)
  OBVIOUS
<1>13. k.op = "create" =>
         SendsLast("scp", k, Scp!Step("scp -t", k.a, "Ok", "FileCreateDenied", "FileCreateDenied"), 1)
  OBVIOUS
<1>14. k.op = "open" =>
         /\ Sends("scp", k, Scp!Must("test -e", k.a), 1)
         /\ SendsLast("scp", k, Scp!Step("scp -f", k.a, "Ok", "CouldNotOpenFile", "CouldNotOpenFile"), 2)
  OBVIOUS
<1> HIDE DEF Sends, EndsMethod, AsksExists, FindsTaken, SaysMissing, FindsMissing,
            StatsTwice, ListsAll, Changes, Writes, Earns, SendsLast, Unpromised,
            Lookups, Mutations, Looks, HalfWay, Probes, Enters, LsL, LsLa,
            Tells, TestDir, Commands, Half, Partial, Vague, GoOn, Scp!GoOn, Sftp!GoOn, Scp!Step, Scp!Do,
            Scp!Must, Scp!MustNot, Scp!IsDirectory
<1>15. k.op = "change_dir" => SendsAll("scp", k, Scp!Steps(k))
  BY <1>1, OneRequest DEF Scp!Steps, Scp!change_dir
<1>16. k.op = "list_dir" => SendsAll("scp", k, Scp!Steps(k))
  BY <1>2, TwoRequests DEF Scp!Steps, Scp!list_dir
<1>17. k.op = "stat" => SendsAll("scp", k, Scp!Steps(k))
  <2> DEFINE x == Scp!IsDirectory(k.a)
             y == Scp!Step("ls -l", k.a, "StatFailed", "StatFailed", "ProtocolError")
             z == Scp!Do("ls -l", k.a, "NoSuchFileOrDirectory")
  <2>1. k.op = "stat" => Scp!Steps(k) = <<x, IF k.a = << >> THEN y ELSE z>>
    BY DEF Scp!Steps, Scp!stat
  <2>2. k.op = "stat" =>
          Sends("scp", k, x, 1) /\ SendsLast("scp", k, y, 2) /\ SendsLast("scp", k, z, 2)
    BY <1>3
  <2> HIDE DEF x, y, z
  <2> QED
    BY <2>1, <2>2, TwoRequests
<1>18. k.op = "exists" => SendsAll("scp", k, Scp!Steps(k))
  BY <1>4, OneRequest DEF Scp!Steps, Scp!exists
<1>19. k.op = "remove_file" => SendsAll("scp", k, Scp!Steps(k))
  BY <1>5, TwoRequests DEF Scp!Steps, Scp!remove_file
<1>20. k.op = "remove_dir" => SendsAll("scp", k, Scp!Steps(k))
  BY <1>6, TwoRequests DEF Scp!Steps, Scp!remove_dir
<1>21. k.op = "remove_dir_all" => SendsAll("scp", k, Scp!Steps(k))
  BY <1>7, TwoRequests DEF Scp!Steps, Scp!remove_dir_all
<1>22. k.op = "create_dir" => SendsAll("scp", k, Scp!Steps(k))
  BY <1>8, TwoRequests DEF Scp!Steps, Scp!create_dir
<1>23. k.op = "symlink" => SendsAll("scp", k, Scp!Steps(k))
  BY <1>9, ThreeRequests DEF Scp!Steps, Scp!symlink
<1>24. k.op = "copy" => SendsAll("scp", k, Scp!Steps(k))
  BY <1>10, TwoRequests DEF Scp!Steps, Scp!copy
<1>25. k.op = "mov" => SendsAll("scp", k, Scp!Steps(k))
  BY <1>11, TwoRequests DEF Scp!Steps, Scp!mov
<1>26. k.op = "exec" => SendsAll("scp", k, Scp!Steps(k))
  BY <1>12, OneRequest DEF Scp!Steps, Scp!exec
<1>27. k.op = "create" => SendsAll("scp", k, Scp!Steps(k))
  BY <1>13, OneRequest DEF Scp!Steps, Scp!create
<1>28. k.op = "open" => SendsAll("scp", k, Scp!Steps(k))
  BY <1>14, TwoRequests DEF Scp!Steps, Scp!open
<1> QED
  BY <1>15, <1>16, <1>17, <1>18, <1>19, <1>20, <1>21, <1>22, <1>23, <1>24,
     <1>25, <1>26, <1>27, <1>28 DEF Scp!Supported

\* The methods of the SFTP client.
LEMMA SftpSends ==
  ASSUME NEW k, k.op \in Sftp!Supported, k.a \in Seq(Names), k.b \in Seq(Names),
         k.links \in Seq(Names)
  PROVE  SendsAll("sftp", k, Sftp!Steps(k))
<1> DEFINE x == Sftp!Step("readdir", k.a, GoOn, "StatFailed", "StatFailed")
           y(i) == Sftp!Step("readlink", Append(k.a, k.links[i]), GoOn, GoOn, GoOn)
           q == [i \in DOMAIN k.links |-> y(i)]
           n == Len(k.links)
<1> USE DEF Sends, EndsMethod, AsksExists, FindsTaken, SaysMissing, FindsMissing,
            StatsTwice, ListsAll, Changes, Writes, Earns, SendsLast, Unpromised,
            Lookups, Mutations, Looks, HalfWay, Probes, Enters, LsL, LsLa,
            Tells, TestDir, Commands, Half, Partial, Vague, GoOn, Scp!GoOn, Sftp!GoOn, Sftp!Step, Sftp!Do,
            Sftp!Must, Sftp!MustNot
<1>1. k.op = "change_dir" =>
         SendsLast("sftp", k, [Sftp!Do("stat", k.a, "NoSuchFileOrDirectory") EXCEPT !.file = "BadFile"], 1)
  OBVIOUS
<1>2. k.op = "list_dir" =>
         /\ Sends("sftp", k, x, 1)
         /\ \A i \in 1..n : Sends("sftp", k, y(i), i + 1)
  <2>1. k.op = "list_dir" => Sends("sftp", k, x, 1)
    OBVIOUS
  <2>2. n \in Nat /\ DOMAIN k.links = 1..n /\ \A i \in 1..n : k.links[i] \in Names
    OBVIOUS
  <2>3. ASSUME NEW i \in 1..n, k.op = "list_dir" PROVE Sends("sftp", k, y(i), i + 1)
    <3>1. i \in DOMAIN k.links /\ (i + 1) - 1 = i
      BY <2>2
    <3>2. Append(k.a, k.links[i]) \in Seq(Names)
      BY <2>2, AppendProperties
    <3> QED
      BY <2>3, <3>1, <3>2
  <2> HIDE DEF Sends, n, x, y
  <2> QED
    BY <2>1, <2>3
<1>3. k.op = "stat" =>
         SendsLast("sftp", k, Sftp!Do("stat", k.a, "NoSuchFileOrDirectory"), 1)
  OBVIOUS
<1>4. k.op = "exists" =>
         SendsLast("sftp", k, Sftp!Do("stat", k.a, "Ok"), 1)
  OBVIOUS
<1>5. k.op = "remove_file" =>
         SendsLast("sftp", k, Sftp!Do("unlink", k.a, "CouldNotRemoveFile"), 1)
  OBVIOUS
<1>6. k.op = "remove_dir" =>
         SendsLast("sftp", k, Sftp!Do("rmdir", k.a, "CouldNotRemoveFile"), 1)
  OBVIOUS
<1>7. k.op = "create_dir" =>
         /\ Sends("sftp", k, Sftp!MustNot("stat", k.a, "DirectoryAlreadyExists"), 1)
         /\ SendsLast("sftp", k, Sftp!Do("mkdir", k.a, "FileCreateDenied"), 2)
  OBVIOUS
<1>8. k.op = "symlink" =>
         /\ Sends("sftp", k, Sftp!Must("stat", k.b), 1)
         /\ SendsLast("sftp", k, Sftp!Do("symlink", k.a, "FileCreateDenied"), 2)
  OBVIOUS
<1>9. k.op = "copy" =>
         /\ Sends("sftp", k, Sftp!Must("stat", k.a), 1)
         /\ SendsLast("sftp", k, Sftp!Step("cp -rf", k.a, "Ok", "FileCreateDenied", "ProtocolError"), 2)
  OBVIOUS
<1>10. k.op = "mov" =>
         /\ Sends("sftp", k, Sftp!Must("stat", k.a), 1)
         /\ SendsLast("sftp", k, Sftp!Do("rename", k.a, "FileCreateDenied"), 2)
  OBVIOUS
<1>11. k.op = "exec" =>
         SendsLast("sftp", k, Sftp!Step("exec", k.a, "Ok", "Ok", "ProtocolError"), 1)
  OBVIOUS
<1>12. k.op = "append" =>
         SendsLast("sftp", k, Sftp!Do("open append", k.a, "CouldNotOpenFile"), 1)
  OBVIOUS
<1>13. k.op = "create" =>
         SendsLast("sftp", k, Sftp!Do("open create", k.a, "FileCreateDenied"), 1)
  OBVIOUS
<1>14. k.op = "open" =>
         /\ Sends("sftp", k, Sftp!Must("stat", k.a), 1)
         /\ SendsLast("sftp", k, Sftp!Do("open read", k.a, "CouldNotOpenFile"), 2)
  OBVIOUS
<1> HIDE DEF Sends, EndsMethod, AsksExists, FindsTaken, SaysMissing, FindsMissing,
            StatsTwice, ListsAll, Changes, Writes, Earns, SendsLast, Unpromised,
            Lookups, Mutations, Looks, HalfWay, Probes, Enters, LsL, LsLa,
            Tells, TestDir, Commands, Half, Partial, Vague, GoOn, Scp!GoOn, Sftp!GoOn, Sftp!Step, Sftp!Do,
            Sftp!Must, Sftp!MustNot
<1>15. k.op = "change_dir" => SendsAll("sftp", k, Sftp!Steps(k))
  BY <1>1, OneRequest DEF Sftp!Steps, Sftp!change_dir
<1>16. k.op = "list_dir" => SendsAll("sftp", k, Sftp!Steps(k))
  <2> SUFFICES ASSUME k.op = "list_dir" PROVE SendsAll("sftp", k, Sftp!Steps(k))
    OBVIOUS
  <2>1. Sftp!Steps(k) = <<x>> \o q
    BY DEF Sftp!Steps, Sftp!list_dir, GoOn, Scp!GoOn, Sftp!GoOn
  <2>2. n \in Nat /\ DOMAIN k.links = 1..n
    OBVIOUS
  <2>3. /\ DOMAIN (<<x>> \o q) = 1..1 + n /\ Len(<<x>> \o q) = 1 + n
        /\ (<<x>> \o q)[1] = x
        /\ \A i \in 1..n : (<<x>> \o q)[i + 1] = y(i)
    <3> HIDE DEF x, y
    <3>1. q \in Seq({y(i) : i \in 1..n}) /\ Len(q) = n
      BY <2>2
    <3> QED
      BY <2>2, <3>1
  <2>4. Sends("sftp", k, x, 1) /\ \A i \in 1..n : Sends("sftp", k, y(i), i + 1)
    BY <1>2
  <2> HIDE DEF x, y, q, n
  <2>5. ASSUME NEW i \in DOMAIN (<<x>> \o q) PROVE Sends("sftp", k, (<<x>> \o q)[i], i)
    <3>1. i = 1 \/ (i - 1 \in 1..n /\ (i - 1) + 1 = i)
      BY <2>2, <2>3
    <3> QED
      BY <2>3, <2>4, <3>1
  <2>7. InOrder("sftp", k, <<x>> \o q)
    BY <2>2, <2>3 DEF InOrder, Unpromised, n
  <2> QED
    BY <2>1, <2>5, <2>7 DEF SendsAll
<1>17. k.op = "stat" => SendsAll("sftp", k, Sftp!Steps(k))
  BY <1>3, OneRequest DEF Sftp!Steps, Sftp!stat
<1>18. k.op = "exists" => SendsAll("sftp", k, Sftp!Steps(k))
  BY <1>4, OneRequest DEF Sftp!Steps, Sftp!exists
<1>19. k.op = "remove_file" => SendsAll("sftp", k, Sftp!Steps(k))
  BY <1>5, OneRequest DEF Sftp!Steps, Sftp!remove_file
<1>20. k.op = "remove_dir" => SendsAll("sftp", k, Sftp!Steps(k))
  BY <1>6, OneRequest DEF Sftp!Steps, Sftp!remove_dir
<1>21. k.op = "create_dir" => SendsAll("sftp", k, Sftp!Steps(k))
  BY <1>7, TwoRequests DEF Sftp!Steps, Sftp!create_dir
<1>22. k.op = "symlink" => SendsAll("sftp", k, Sftp!Steps(k))
  BY <1>8, TwoRequests DEF Sftp!Steps, Sftp!symlink
<1>23. k.op = "copy" => SendsAll("sftp", k, Sftp!Steps(k))
  BY <1>9, TwoRequests DEF Sftp!Steps, Sftp!copy
<1>24. k.op = "mov" => SendsAll("sftp", k, Sftp!Steps(k))
  BY <1>10, TwoRequests DEF Sftp!Steps, Sftp!mov
<1>25. k.op = "exec" => SendsAll("sftp", k, Sftp!Steps(k))
  BY <1>11, OneRequest DEF Sftp!Steps, Sftp!exec
<1>26. k.op = "append" => SendsAll("sftp", k, Sftp!Steps(k))
  BY <1>12, OneRequest DEF Sftp!Steps, Sftp!append
<1>27. k.op = "create" => SendsAll("sftp", k, Sftp!Steps(k))
  BY <1>13, OneRequest DEF Sftp!Steps, Sftp!create
<1>28. k.op = "open" => SendsAll("sftp", k, Sftp!Steps(k))
  BY <1>14, TwoRequests DEF Sftp!Steps, Sftp!open
<1> QED
  BY <1>15, <1>16, <1>17, <1>18, <1>19, <1>20, <1>21, <1>22, <1>23, <1>24,
     <1>25, <1>26, <1>27, <1>28 DEF Sftp!Supported

-----------------------------------------------------------------------------
(* What the server answers.                                                *)

\* ls -l shows the entry k.a itself.
Lists(t, k) == Entry(t, k.a) # None /\ (k.dir \/ ~TestD(t, k.a))

\* The server denies a lookup of what is there.
Denies(k, s, t, o) == s.cmd \in Questions /\ Finds(t, k, s) /\ o.rc # "0"

\* A status says yes only of what is there, and no of it only when it is denied.
Says(yes, rc, denied) == (rc = "0" => yes) /\ (yes => rc = "0" \/ denied)

\* What a request does to the tree t, and what its status says of it.
Effect(k, s, t, o) ==
    /\ Kept(o)
    /\ Looks(s.cmd) => o.tree = t
    /\ ~HalfWay(s.cmd) => Clean(t, o)
    /\ Probes(s.cmd) => Says(TestE(t, s.on), o.rc, Denies(k, s, t, o))
    /\ Enters(s.cmd) => Says(TestD(t, s.on), o.rc, Denies(k, s, t, o))
    /\ LsL(s.cmd) => Says(Lists(t, k), o.rc, Denies(k, s, t, o))
    /\ s.cmd = "readlink" => Says(Entry(t, s.on).kind = "link", o.rc, Denies(k, s, t, o))

\* The commands, one by one.
LEMMA OutcomesEffect ==
  ASSUME TreeOK(tree), NEW c, wrkdir[c] \in Seq(Names), call[c].b \in Seq(Names),
         call[c].target \in Arg,
         NEW s, s.cmd \in Commands, s.on \in Seq(Names), NEW o \in Outcomes(c, s)
  PROVE  Effect(call[c], s, tree, o)
<1> DEFINE k == call[c]
<1>1. CASE s.cmd \in {"test -e", "stat"}
  <2>0. s.cmd \in Questions /\ Finds(tree, k, s) = (TestE(tree, s.on))
    BY <1>1 DEF Questions, Finds
  <2>1. o \in MayDo(tree, TestE(tree, s.on), tree)
    BY <1>1, <2>0 DEF Outcomes
  <2>2. Kept(o) /\ Clean(tree, o) /\ o.tree = tree /\ (o.rc = "0" => TestE(tree, s.on))
    BY <2>1, Looking
  <2>4. Says(TestE(tree, s.on), o.rc, Denies(k, s, tree, o))
    BY <2>0, <2>2 DEF Says, Denies
  <2>3. ~Enters(s.cmd) /\ ~LsL(s.cmd) /\ s.cmd # "readlink"
    BY <1>1 DEF Probes, Enters, LsL
  <2> QED
    BY <1>1, <2>2, <2>3, <2>4 DEF Effect
<1>2. CASE s.cmd \in {"test -d", "cd", "ls -la", "readdir"}
  <2>0. s.cmd \in Questions /\ Finds(tree, k, s) = (TestD(tree, s.on))
    BY <1>2 DEF Questions, Finds
  <2>1. o \in MayDo(tree, TestD(tree, s.on), tree)
    BY <1>2, <2>0 DEF Outcomes
  <2>2. Kept(o) /\ Clean(tree, o) /\ o.tree = tree /\ (o.rc = "0" => TestD(tree, s.on))
    BY <2>1, Looking
  <2>4. Says(TestD(tree, s.on), o.rc, Denies(k, s, tree, o))
    BY <2>0, <2>2 DEF Says, Denies
  <2>3. ~Probes(s.cmd) /\ ~LsL(s.cmd) /\ s.cmd # "readlink"
    BY <1>2 DEF Probes, Enters, LsL
  <2> QED
    BY <1>2, <2>2, <2>3, <2>4 DEF Effect
<1>3. CASE s.cmd = "ls -l"
  <2>0. s.cmd \in Questions /\ Finds(tree, k, s) = (Lists(tree, k))
    BY <1>3 DEF Questions, Finds, Lists
  <2>1. o \in MayDo(tree, Lists(tree, k), tree)
    BY <1>3, <2>0 DEF Outcomes
  <2>2. Kept(o) /\ Clean(tree, o) /\ o.tree = tree /\ (o.rc = "0" => Lists(tree, k))
    BY <2>1, Looking
  <2>4. Says(Lists(tree, k), o.rc, Denies(k, s, tree, o))
    BY <2>0, <2>2 DEF Says, Denies
  <2>3. ~Probes(s.cmd) /\ ~Enters(s.cmd) /\ s.cmd # "readlink"
    BY <1>3 DEF Probes, Enters, LsL
  <2> QED
    BY <1>3, <2>2, <2>3, <2>4 DEF Effect
<1>4. CASE s.cmd = "readlink"
  <2>0. s.cmd \in Questions /\ Finds(tree, k, s) = (Entry(tree, s.on).kind = "link")
    BY <1>4 DEF Questions, Finds
  <2>1. o \in MayDo(tree, Entry(tree, s.on).kind = "link", tree)
    BY <1>4, <2>0 DEF Outcomes
  <2>2. Kept(o) /\ Clean(tree, o) /\ o.tree = tree /\ (o.rc = "0" => Entry(tree, s.on).kind = "link")
    BY <2>1, Looking
  <2>4. Says(Entry(tree, s.on).kind = "link", o.rc, Denies(k, s, tree, o))
    BY <2>0, <2>2 DEF Says, Denies
  <2>3. ~Probes(s.cmd) /\ ~Enters(s.cmd) /\ ~LsL(s.cmd)
    BY <1>4 DEF Probes, Enters, LsL
  <2> QED
    BY <1>4, <2>2, <2>3, <2>4 DEF Effect
<1>5. CASE s.cmd = "scp -f"
  <2>1. o \in MayDo(tree, TestE(tree, s.on) /\ ~TestD(tree, s.on), tree)
    BY <1>5 DEF Outcomes, Questions
  <2>2. Kept(o) /\ Clean(tree, o) /\ o.tree = tree
    BY <2>1 DEF MayDo, Done, Refused, Kept, Clean
  <2> QED
    BY <1>5, <2>2 DEF Effect, Looks, HalfWay, Probes, Enters, LsL
<1>6. CASE s.cmd = "open read"
  <2>1. o \in MayDo(tree, TestE(tree, s.on), tree)
    BY <1>6 DEF Outcomes, Questions
  <2>2. Kept(o) /\ Clean(tree, o) /\ o.tree = tree
    BY <2>1 DEF MayDo, Done, Refused, Kept, Clean
  <2> QED
    BY <1>6, <2>2 DEF Effect, Looks, HalfWay, Probes, Enters, LsL
<1>7. CASE s.cmd = "rm -f"
  <2>1. o \in RmF(tree, s.on)
    BY <1>7 DEF Outcomes, Questions
  <2>3. Kept(o) /\ Clean(tree, o)
    BY <2>1, RmFKeeps
  <2> QED
    BY <1>7, <2>3 DEF Effect, Looks, HalfWay, Probes, Enters, LsL
<1>8. CASE s.cmd = "unlink"
  <2>1. o \in Unlink(tree, s.on)
    BY <1>8 DEF Outcomes, Questions
  <2>3. Kept(o) /\ Clean(tree, o)
    BY <2>1, UnlinkKeeps
  <2> QED
    BY <1>8, <2>3 DEF Effect, Looks, HalfWay, Probes, Enters, LsL
<1>9. CASE s.cmd = "rmdir"
  <2>1. o \in RmDir(tree, s.on)
    BY <1>9 DEF Outcomes, Questions
  <2>3. Kept(o) /\ Clean(tree, o)
    BY <2>1, RmDirKeeps
  <2> QED
    BY <1>9, <2>3 DEF Effect, Looks, HalfWay, Probes, Enters, LsL
<1>10. CASE s.cmd = "rm -rf"
  <2>1. o \in RmRF(tree, s.on)
    BY <1>10 DEF Outcomes, Questions
  <2>3. Kept(o)
    BY <2>1, RmRFKeeps
  <2> QED
    BY <1>10, <2>3 DEF Effect, Looks, HalfWay, Probes, Enters, LsL
<1>11. CASE s.cmd = "mkdir"
  <2>1. o \in MkDir(tree, s.on)
    BY <1>11 DEF Outcomes, Questions
  <2>3. Kept(o) /\ Clean(tree, o)
    BY <2>1, MkDirKeeps
  <2> QED
    BY <1>11, <2>3 DEF Effect, Looks, HalfWay, Probes, Enters, LsL
<1>12. CASE s.cmd = "ln -s"
  <2>1. o \in LnS(tree, k.target, s.on)
    BY <1>12 DEF Outcomes, Questions
  <2>3. Kept(o) /\ Clean(tree, o)
    BY <2>1, LnSKeeps
  <2> QED
    BY <1>12, <2>3 DEF Effect, Looks, HalfWay, Probes, Enters, LsL
<1>13. CASE s.cmd = "symlink"
  <2>1. o \in SymlinkAt(tree, k.target, s.on)
    BY <1>13 DEF Outcomes, Questions
  <2>3. Kept(o) /\ Clean(tree, o)
    BY <2>1, SymlinkAtKeeps
  <2> QED
    BY <1>13, <2>3 DEF Effect, Looks, HalfWay, Probes, Enters, LsL
<1>14. CASE s.cmd = "cp -rf"
  <2>1. o \in CpRF(tree, s.on, k.b)
    BY <1>14 DEF Outcomes, Questions
  <2>3. Kept(o)
    BY <2>1, CpRFKeeps
  <2> QED
    BY <1>14, <2>3 DEF Effect, Looks, HalfWay, Probes, Enters, LsL
<1>15. CASE s.cmd = "mv -f"
  <2>1. o \in MvF(tree, s.on, k.b)
    BY <1>15 DEF Outcomes, Questions
  <2>3. Kept(o) /\ Clean(tree, o)
    BY <2>1, MvFKeeps
  <2> QED
    BY <1>15, <2>3 DEF Effect, Looks, HalfWay, Probes, Enters, LsL
<1>16. CASE s.cmd = "rename"
  <2>1. o \in Rename(tree, s.on, k.b)
    BY <1>16 DEF Outcomes, Questions
  <2>3. Kept(o) /\ Clean(tree, o)
    BY <2>1, RenameKeeps
  <2> QED
    BY <1>16, <2>3 DEF Effect, Looks, HalfWay, Probes, Enters, LsL
<1>17. CASE s.cmd = "scp -t"
  <2>1. o \in ScpT(tree, s.on, c)
    BY <1>17 DEF Outcomes, Questions
  <2>3. Kept(o) /\ Clean(tree, o)
    BY <2>1, ScpTKeeps
  <2> QED
    BY <1>17, <2>3 DEF Effect, Looks, HalfWay, Probes, Enters, LsL
<1>18. CASE s.cmd = "open create"
  <2>1. o \in OpenCreat(tree, s.on, c, TRUE)
    BY <1>18 DEF Outcomes, Questions
  <2>3. Kept(o) /\ Clean(tree, o)
    BY <2>1, OpenCreatKeeps
  <2> QED
    BY <1>18, <2>3 DEF Effect, Looks, HalfWay, Probes, Enters, LsL
<1>19. CASE s.cmd = "open append"
  <2>1. o \in OpenCreat(tree, s.on, c, FALSE)
    BY <1>19 DEF Outcomes, Questions
  <2>3. Kept(o) /\ Clean(tree, o)
    BY <2>1, OpenCreatKeeps
  <2> QED
    BY <1>19, <2>3 DEF Effect, Looks, HalfWay, Probes, Enters, LsL
<1>20. CASE s.cmd = "exec"
  <2>0. PICK d \in ExecDirs(c) : o \in MkDir(tree, d \o k.target.names)
    BY <1>20 DEF Outcomes, Questions
  <2>1. d \in Seq(Names)
    BY PathsAreShort, RemoteFsAssumption DEF ExecDirs
  <2>2. d \o k.target.names \in Seq(Names)
    BY <2>1, PathsAreShort DEF Arg
  <2>3. Kept(o) /\ Clean(tree, o)
    BY <2>0, <2>2, MkDirKeeps
  <2> QED
    BY <1>20, <2>3 DEF Effect, Looks, HalfWay, Probes, Enters, LsL
<1> QED
  BY <1>1, <1>2, <1>3, <1>4, <1>5, <1>6, <1>7, <1>8, <1>9, <1>10, <1>11, <1>12, <1>13, <1>14, <1>15, <1>16, <1>17, <1>18, <1>19, <1>20 DEF Commands

-----------------------------------------------------------------------------
(* What a client is in the middle of.                                      *)

\* The lines of a listing.
Lines == [name : Names, kind : {"dir", "file", "link", "odd"}]

CallsOf(p) ==
    [op : SupportedOf(p), a : Seq(Names), b : Seq(Names), target : Arg, dir : BOOLEAN,
     entries : SUBSET Lines, links : Seq(Names), step : Nat]

\* A call at one of its requests.
Busy(p, k) == k \in CallsOf(p) /\ k.step \in DOMAIN StepsOf(p, k)

Now(p, k) == StepsOf(p, k)[k.step]

\* An answer to the call k.
AnswerOK(k, a) ==
    /\ DOMAIN a = {"rc", "out", "pwd"}
    /\ a.rc \in {"0", "1"} /\ a.pwd \in Seq(Names)
    /\ k.op = "list_dir" => a.out \subseteq Lines

Typed(p, k, a, r, w) ==
    /\ k = Idle \/ Busy(p, k)
    /\ k = Idle => a = NoAnswer
    /\ a = NoAnswer \/ a = Err \/ AnswerOK(k, a)
    /\ DOMAIN r = {"op", "kind", "value"}
    /\ DOMAIN w = DOMAIN NothingSeen /\ w.dir \in BOOLEAN

\* The definitions of RemoteFsClients that are about one client, said of its
\* call and answer.
OutputOf(t, s) ==
    CASE s.cmd = "readdir" -> Listing(t, s.on)
      [] s.cmd = "ls -la" -> Printed(t, s.on)
      [] s.cmd = "ls -l" -> {Found(IF s.on = Root THEN "dir" ELSE Shown(t, Place(t, s.on)))}
      [] s.cmd = "stat" -> {Found(t[Real(t, s.on)].kind)}
      [] OTHER -> {}

NotedOf(p, k, a) ==
    LET s == Now(p, k)
    IN  CASE s.cmd = "test -d" -> [k EXCEPT !.dir = a.rc = "0"]
          [] s.cmd = "readdir" /\ a # Err ->
               [k EXCEPT !.entries = {e \in a.out : e.kind # "link"},
                         !.links = SetToSeq({e.name : e \in {f \in a.out : f.kind = "link"}})]
          [] s.cmd = "readlink" -> Listed(k, Last(s.on), a.rc = "0")
          [] s.cmd = "ls -la" /\ a # Err -> [k EXCEPT !.entries = Readable(a.out)]
          [] OTHER -> k

VerdictOf(p, k, a) ==
    LET s == Now(p, k)
    IN  IF a = Err THEN s.broken
        ELSE IF SaysNo(s, a) THEN s.refused
        ELSE IF s.file # s.ok /\ a.out # {Found("dir")} THEN s.file
        ELSE s.ok

ValueOf(k, a) ==
    CASE k.op = "exists" -> {Found(IF a.rc = "0" THEN "true" ELSE "false")}
      [] k.op = "list_dir" -> k.entries
      [] k.op = "stat" -> a.out
      [] OTHER -> {}

FirstLookOf(p, op, a, b, target, t) ==
    See(p, [NothingSeen EXCEPT
              !.op = op, !.a = a, !.b = b, !.target = target, !.dir = TestD(t, a),
              !.always = IF op = "list_dir" THEN Legible(p, t, a) ELSE {}], t, t)

NewCall(op, a, b, target) ==
    [op |-> op, a |-> a, b |-> b, target |-> target, dir |-> FALSE, entries |-> {},
     links |-> << >>, step |-> 1]

Result(op, kind, value) == [op |-> op, kind |-> kind, value |-> value]

\* The answer on which a method returns Ok.
Earned(s, rc, out) == rc = "0" /\ s.ok = "Ok" /\ (s.file = "Ok" \/ out = {Found("dir")})

\* ScpFs::symlink promises nothing: a directory its probe missed swallows the link.
Binds(p, op) == ~(p = "scp" /\ op = "symlink")

\* The request that earns Ok keeps the promise of its method.
Achieves(p, k, s, t, o) ==
    Earned(s, o.rc, OutputOf(t, s)) =>
       /\ Binds(p, k.op) => Post(p, k, t, o.tree)
       /\ Sole(p, k.op) => o.tree # t

-----------------------------------------------------------------------------
(* What a step of the system does to one client.                           *)

\* Somebody else's step.
Watches(p, k, a, r, w, k2, a2, r2, w2) ==
    /\ k2 = k /\ a2 = a /\ r2 = r
    /\ w2 = w \/ (k # Idle /\ \E t, u : TreeOK(u) /\ w2 = See(p, w, t, u))

StaysLocal(p, k, a, r, w, k2, a2, r2, w2) ==
    /\ k = Idle /\ k2 = Idle /\ a2 = a /\ w2 = NothingSeen
    /\ \E op \in {"connect", "disconnect", "append"},
          kind \in {"Ok", "ProtocolError", "NotConnected", "ConnectionError",
                    "UnsupportedFeature"} :
          r2 = Result(op, kind, {})

Begins(p, k, a, r, w, k2, a2, r2, w2) ==
    /\ k = Idle /\ a2 = a
    /\ \E op \in SupportedOf(p), x \in Seq(Names), y \in Seq(Names), target \in Arg : \E t :
          /\ TreeOK(t)
          /\ w2 = FirstLookOf(p, op, x, y, target, t)
          /\ \/ k2 = Idle /\ r2 = Result(op, "NotConnected", {})
             \/ k2 = NewCall(op, x, y, target) /\ r2 = Result(op, "none", {})

IsServed(p, k, a, r, w, k2, a2, r2, w2) ==
    /\ k # Idle /\ a = NoAnswer /\ k2 = k /\ r2 = r
    /\ \E t, o :
          /\ TreeOK(t) /\ Effect(k, Now(p, k), t, o) /\ Achieves(p, k, Now(p, k), t, o)
          /\ a2 = [rc |-> o.rc, out |-> IF o.rc = "0" THEN OutputOf(t, Now(p, k)) ELSE {},
                   pwd |-> Now(p, k).on]
          /\ w2 = [See(p, w, t, o.tree) EXCEPT !.touched = w.touched \/ o.tree # t,
                                              !.denied = w.denied \/ Denies(k, Now(p, k), t, o)]

Fails(p, k, a, r, w, k2, a2, r2, w2) ==
    /\ k # Idle /\ k2 = k /\ r2 = r
    /\ a2 = Err /\ w2 = [w EXCEPT !.fault = TRUE]

IsCut(p, k, a, r, w, k2, a2, r2, w2) ==
    /\ k # Idle /\ k2 = k /\ r2 = r
    /\ a \notin {NoAnswer, Err} /\ a.rc = "0" /\ Cuttable(Now(p, k).cmd)
    /\ w2 = [w EXCEPT !.cut = TRUE]
    /\ \/ a2 = [a EXCEPT !.rc = "1", !.out = {}]
       \/ \E x \in PathLeft(Now(p, k).on) : a2 = [a EXCEPT !.pwd = x]
       \/ \E out \in LinesLeft(a.out) : a2 = [a EXCEPT !.out = out]

Takes(p, k, a, r, w, k2, a2, r2, w2) ==
    /\ k # Idle /\ a # NoAnswer /\ a2 = NoAnswer /\ w2 = w
    /\ LET n == NotedOf(p, k, a)
           verdict == VerdictOf(p, k, a)
           more == n.step < Len(StepsOf(p, n))
           Ends(kind) == k2 = Idle /\ r2 = Result(n.op, kind, IF kind = "Ok" THEN ValueOf(n, a) ELSE {})
       IN  \/ verdict = GoOn /\ more /\ k2 = [n EXCEPT !.step = @ + 1] /\ r2 = r
           \/ verdict = GoOn /\ ~more /\ Ends("Ok")
           \/ verdict # GoOn /\ Ends(verdict)

Moves(p, k, a, r, w, k2, a2, r2, w2) ==
    \/ Watches(p, k, a, r, w, k2, a2, r2, w2)
    \/ StaysLocal(p, k, a, r, w, k2, a2, r2, w2)
    \/ Begins(p, k, a, r, w, k2, a2, r2, w2)
    \/ IsServed(p, k, a, r, w, k2, a2, r2, w2)
    \/ Fails(p, k, a, r, w, k2, a2, r2, w2)
    \/ IsCut(p, k, a, r, w, k2, a2, r2, w2)
    \/ Takes(p, k, a, r, w, k2, a2, r2, w2)

\* The system around the clients.
Around ==
    /\ TreeOK(tree)
    /\ proto \in [Clients -> {"scp", "sftp"}]
    /\ session \in [Clients -> {"None", "Some"}] /\ sftp \in [Clients -> {"None", "Some"}]
    /\ link \in [Clients -> {"up", "down"}]
    /\ wrkdir \in [Clients -> Seq(Names)]
    /\ DOMAIN call = Clients /\ DOMAIN answer = Clients
    /\ DOMAIN result = Clients /\ DOMAIN saw = Clients
    /\ calls \in 0..MaxCalls /\ faults \in 0..MaxFaults
    /\ \A c \in Clients :
          /\ proto[c] = "sftp" => sftp[c] = session[c]
          /\ call[c] # Idle => session[c] = "Some"

Shape ==
    /\ Around
    /\ \A c \in Clients : Typed(proto[c], call[c], answer[c], result[c], saw[c])

\* What a step does to the client d.
MovesOf(d) ==
    Moves(proto[d], call[d], answer[d], result[d], saw[d],
          call'[d], answer'[d], result'[d], saw'[d])

\* The definitions of RemoteFsClients in these terms.
LEMMA OfOneClient ==
  ASSUME NEW c
  PROVE  /\ Current(c) = Now(proto[c], call[c])
         /\ Noted(c) = NotedOf(proto[c], call[c], answer[c])
         /\ Verdict(c) = VerdictOf(proto[c], call[c], answer[c])
         /\ \A k : Steps(c, k) = StepsOf(proto[c], k) /\ Value(c, k) = ValueOf(k, answer[c])
         /\ \A s : Output(s) = OutputOf(tree, s)
         /\ Supported(c) = SupportedOf(proto[c])
<1>1. Current(c) = Now(proto[c], call[c])
  BY DEF Current, Now, Steps, StepsOf
<1>2. Noted(c) = NotedOf(proto[c], call[c], answer[c])
  BY <1>1 DEF Noted, NotedOf
<1>3. Verdict(c) = VerdictOf(proto[c], call[c], answer[c])
  BY <1>1 DEF Verdict, VerdictOf
<1>4. \A k : Steps(c, k) = StepsOf(proto[c], k) /\ Value(c, k) = ValueOf(k, answer[c])
  BY DEF Steps, StepsOf, Value, ValueOf
<1>5. \A s : Output(s) = OutputOf(tree, s)
  BY DEF Output, OutputOf
<1>6. Supported(c) = SupportedOf(proto[c])
  BY DEF Supported, SupportedOf
<1> QED
  BY <1>1, <1>2, <1>3, <1>4, <1>5, <1>6

\* A request of a call.
LEMMA NowSends ==
  ASSUME NEW p \in {"scp", "sftp"}, NEW k, Busy(p, k)
  PROVE  Sends(p, k, Now(p, k), k.step)
<1>1. k \in CallsOf(p) /\ k.step \in DOMAIN StepsOf(p, k)
  BY DEF Busy
<1>2. k.a \in Seq(Names) /\ k.b \in Seq(Names) /\ k.links \in Seq(Names) /\ k.op \in SupportedOf(p)
  BY <1>1 DEF CallsOf
<1>3. CASE p = "scp"
  <2>1. SendsAll("scp", k, Scp!Steps(k))
    BY <1>2, <1>3, ScpSends DEF SupportedOf
  <2>2. StepsOf(p, k) = Scp!Steps(k)
    BY <1>3 DEF StepsOf
  <2> QED
    BY <1>1, <1>3, <2>1, <2>2 DEF SendsAll, Now
<1>4. CASE p = "sftp"
  <2>1. SendsAll("sftp", k, Sftp!Steps(k))
    BY <1>2, <1>4, SftpSends DEF SupportedOf
  <2>2. StepsOf(p, k) = Sftp!Steps(k)
    BY <1>4 DEF StepsOf
  <2> QED
    BY <1>1, <1>4, <2>1, <2>2 DEF SendsAll, Now
<1> QED
  BY <1>3, <1>4

\* The requests of a call, in order.
LEMMA StepsInOrder ==
  ASSUME NEW p \in {"scp", "sftp"}, NEW k \in CallsOf(p)
  PROVE  /\ DOMAIN StepsOf(p, k) = 1..Len(StepsOf(p, k)) /\ Len(StepsOf(p, k)) \in Nat
         /\ 1 \in DOMAIN StepsOf(p, k)
         /\ k.op = "list_dir" /\ p = "sftp" => Len(StepsOf(p, k)) = 1 + Len(k.links)
         /\ k.op = "list_dir" /\ p = "scp" => Len(StepsOf(p, k)) = 2
         /\ k.op \notin Unpromised => StepsOf(p, k)[Len(StepsOf(p, k))].ok = "Ok"
<1>1. k.a \in Seq(Names) /\ k.b \in Seq(Names) /\ k.links \in Seq(Names) /\ k.op \in SupportedOf(p)
  BY DEF CallsOf
<1>2. InOrder(p, k, StepsOf(p, k))
  <2>1. CASE p = "scp"
    BY <1>1, <2>1, ScpSends DEF SupportedOf, SendsAll, StepsOf
  <2>2. CASE p = "sftp"
    BY <1>1, <2>2, SftpSends DEF SupportedOf, SendsAll, StepsOf
  <2> QED
    BY <2>1, <2>2
<1> QED
  BY <1>2 DEF InOrder

-----------------------------------------------------------------------------
(* The call with what its answer adds.                                     *)

\* The members of a set of names, in some order.
LEMMA NamesInOrder ==
  ASSUME NEW S, S \subseteq Names
  PROVE  /\ SetToSeq(S) \in Seq(Names)
         /\ \A i \in DOMAIN SetToSeq(S) : SetToSeq(S)[i] \in S
         /\ \A x \in S : \E i \in DOMAIN SetToSeq(S) : SetToSeq(S)[i] = x
<1> DEFINE n == Cardinality(S)
           Lists1(f) == f \in [1..n -> S] /\ IsInjective(f)
<1>1. IsFiniteSet(S)
  BY FS_Subset, RemoteTreeAssumption
<1>2. n \in Nat /\ ExistsBijection(1..n, S)
  BY <1>1, FS_CardinalityType
<1>3. PICK g \in [1..n -> S] : g \in Bijection(1..n, S)
  BY <1>2 DEF ExistsBijection, Bijection, Injection
<1>4. \E f \in [1..n -> S] : IsInjective(f)
  BY <1>3 DEF Bijection, Injection
<1>5. SetToSeq(S) \in [1..n -> S] /\ IsInjective(SetToSeq(S))
  BY <1>4 DEF SetToSeq
<1> DEFINE f == SetToSeq(S)
<1> HIDE DEF n, f
<1>6. f \in [1..n -> S] /\ IsInjective(f)
  BY <1>5 DEF f
<1>7. f \in Injection(1..n, S)
  BY <1>6 DEF Injection
<1>8. IsFiniteSet(1..n) /\ Cardinality(1..n) = n
  BY <1>2, FS_Interval
<1>9. f \in Surjection(1..n, S)
  BY <1>1, <1>7, <1>8, FS_Injection DEF n
<1>10. /\ f \in Seq(Names) /\ DOMAIN f = 1..n
       /\ \A i \in 1..n : f[i] \in S
       /\ \A x \in S : \E i \in 1..n : f[i] = x
  BY <1>2, <1>6, <1>9 DEF Surjection
<1> QED
  BY <1>10 DEF f

\* The requests of a call depend on its arguments and its links only.
LEMMA SameSteps ==
  ASSUME NEW p \in {"scp", "sftp"}, NEW k, k.op \in SupportedOf(p), NEW n,
         n.op = k.op, n.a = k.a, n.b = k.b, n.links = k.links
  PROVE  StepsOf(p, n) = StepsOf(p, k)
<1>1. CASE p = "scp"
  BY <1>1 DEF StepsOf, Scp!Steps, Scp!change_dir, Scp!list_dir, Scp!stat, Scp!exists,
     Scp!remove_file, Scp!remove_dir, Scp!remove_dir_all, Scp!create_dir, Scp!symlink,
     Scp!copy, Scp!mov, Scp!exec, Scp!create, Scp!open
<1>2. CASE p = "sftp"
  BY <1>2 DEF StepsOf, Sftp!Steps, Sftp!change_dir, Sftp!list_dir, Sftp!stat, Sftp!exists,
     Sftp!remove_file, Sftp!remove_dir, Sftp!create_dir, Sftp!symlink,
     Sftp!copy, Sftp!mov, Sftp!exec, Sftp!append, Sftp!create, Sftp!open
<1> QED
  BY <1>1, <1>2

\* What is noted of an answer.
LEMMA NotedTyped ==
  ASSUME NEW p \in {"scp", "sftp"}, NEW k, Busy(p, k), NEW a, a = Err \/ AnswerOK(k, a)
  PROVE  LET n == NotedOf(p, k, a)
         IN  /\ n \in CallsOf(p) /\ n.step = k.step /\ n.op = k.op
             /\ n.a = k.a /\ n.b = k.b /\ n.target = k.target
             /\ n.links = k.links \/ (Now(p, k).cmd = "readdir" /\ a # Err)
             /\ n.dir = IF TestDir(Now(p, k).cmd) THEN a.rc = "0" ELSE k.dir
<1> DEFINE s == Now(p, k)
           n == NotedOf(p, k, a)
<1>1. k \in CallsOf(p)
  BY DEF Busy
<1>2. k.a \in Seq(Names) /\ k.links \in Seq(Names) /\ k.entries \subseteq Lines
      /\ k.op \in SupportedOf(p)
  BY <1>1 DEF CallsOf
<1>3. Sends(p, k, s, k.step)
  BY NowSends
<1> HIDE DEF s
<1>4. CASE s.cmd = "test -d"
  <2>1. n = [k EXCEPT !.dir = (a.rc = "0")] /\ TestDir(s.cmd)
    BY <1>4 DEF NotedOf, TestDir, s
  <2>2. n \in CallsOf(p)
    BY <1>1, <2>1 DEF CallsOf
  <2> HIDE DEF n
  <2> QED
    BY <1>1, <2>1, <2>2 DEF CallsOf, s, n
<1>5. CASE s.cmd = "readdir" /\ a # Err
  <2> DEFINE files == {e \in a.out : e.kind # "link"}
             names == {e.name : e \in {f \in a.out : f.kind = "link"}}
  <2>1. n = [k EXCEPT !.entries = files, !.links = SetToSeq(names)] /\ ~TestDir(s.cmd)
    BY <1>5 DEF NotedOf, TestDir, s
  <2>2. k.op = "list_dir"
    BY <1>3, <1>5 DEF Sends, ListsAll
  <2>3. a.out \subseteq Lines
    BY <1>5, <2>2 DEF AnswerOK
  <2>4. files \subseteq Lines /\ names \subseteq Names
    BY <2>3 DEF Lines
  <2>5. SetToSeq(names) \in Seq(Names)
    BY <2>4, NamesInOrder
  <2> HIDE DEF files, names, n
  <2>6. n \in CallsOf(p)
    BY <1>1, <2>1, <2>4, <2>5 DEF CallsOf
  <2> QED
    BY <1>1, <1>5, <2>1, <2>6 DEF CallsOf, s, n
<1>6. CASE s.cmd = "readlink"
  <2> DEFINE line == [name |-> Last(s.on), kind |-> make_fsentry("link", a.rc = "0")]
  <2>1. n = [k EXCEPT !.entries = @ \cup {line}] /\ ~TestDir(s.cmd)
    BY <1>6 DEF NotedOf, Listed, TestDir, s
  <2>2. \E i \in DOMAIN k.links : s.on = Append(k.a, k.links[i])
    BY <1>3, <1>6 DEF Sends, ListsAll
  <2>3. Last(s.on) \in Names
    BY <1>2, <2>2, AppendedName
  <2>4. line \in Lines
    BY <2>3 DEF Lines, make_fsentry
  <2> HIDE DEF line, n
  <2>5. n \in CallsOf(p)
    BY <1>1, <1>2, <2>1, <2>4 DEF CallsOf
  <2> QED
    BY <1>1, <2>1, <2>5 DEF CallsOf, s, n
<1>7. CASE s.cmd = "ls -la" /\ a # Err
  <2>1. n = [k EXCEPT !.entries = Readable(a.out)] /\ ~TestDir(s.cmd) /\ LsLa(s.cmd)
    BY <1>7 DEF NotedOf, TestDir, s, LsLa
  <2>2. k.op = "list_dir"
    BY <1>3, <2>1 DEF Sends, ListsAll
  <2>3. Readable(a.out) \subseteq Lines
    BY <1>7, <2>2 DEF AnswerOK, Readable
  <2> HIDE DEF n
  <2>4. n \in CallsOf(p)
    BY <1>1, <2>1, <2>3 DEF CallsOf
  <2> QED
    BY <1>1, <2>1, <2>4 DEF CallsOf, s, n
<1>8. CASE /\ s.cmd \notin {"test -d", "readlink"}
           /\ s.cmd \notin {"readdir", "ls -la"} \/ a = Err
  <2>1. n = k /\ ~TestDir(s.cmd)
    BY <1>8 DEF NotedOf, TestDir, s
  <2> HIDE DEF n
  <2> QED
    BY <1>1, <2>1 DEF CallsOf, s, n
<1> QED
  BY <1>4, <1>5, <1>6, <1>7, <1>8

\* The call is still at one of its requests, and so it is at the next if there is
\* one.
LEMMA NotedBusy ==
  ASSUME NEW p \in {"scp", "sftp"}, NEW k, Busy(p, k), NEW a, a = Err \/ AnswerOK(k, a)
  PROVE  LET n == NotedOf(p, k, a)
             m == [n EXCEPT !.step = @ + 1]
         IN  /\ n.step < Len(StepsOf(p, n)) => Busy(p, m)
             /\ StepsOf(p, m) = StepsOf(p, n)
<1> DEFINE n == NotedOf(p, k, a)
           m == [n EXCEPT !.step = n.step + 1]
<1>1. n \in CallsOf(p)
  BY NotedTyped
<1> HIDE DEF n
<1> HIDE DEF SupportedOf, Lines
<1>0. /\ DOMAIN n = {"op", "a", "b", "target", "dir", "entries", "links", "step"}
      /\ n.step \in Nat
  BY <1>1 DEF CallsOf
<1>7. m.step = n.step + 1 /\ m.op = n.op /\ m.a = n.a /\ m.b = n.b /\ m.links = n.links
  BY <1>0
<1>8. m \in CallsOf(p)
  BY <1>0, <1>1, SMTT(60) DEF CallsOf
<1>2. m \in CallsOf(p) /\ m.step = n.step + 1 /\ n.step \in Nat
      /\ m.op = n.op /\ m.a = n.a /\ m.b = n.b /\ m.links = n.links
  BY <1>0, <1>7, <1>8
<1>3. n.op \in SupportedOf(p)
  BY <1>1 DEF CallsOf
<1> HIDE DEF m
<1>4. StepsOf(p, m) = StepsOf(p, n)
  BY <1>2, <1>3, SameSteps
<1>5. DOMAIN StepsOf(p, n) = 1..Len(StepsOf(p, n)) /\ Len(StepsOf(p, n)) \in Nat
  BY <1>1, StepsInOrder
<1>6. n.step < Len(StepsOf(p, n)) => Busy(p, m)
  BY <1>2, <1>4, <1>5 DEF Busy
<1> QED
  BY <1>4, <1>6 DEF n, m

-----------------------------------------------------------------------------
(* The history.                                                            *)

\* After one more look at the tree it is a history still.
LEMMA StillHistory ==
  ASSUME NEW p, NEW w, DOMAIN w = DOMAIN NothingSeen, NEW t, NEW v
  PROVE  DOMAIN See(p, w, t, v) = DOMAIN NothingSeen /\ See(p, w, t, v).dir = w.dir
BY DEF See, NothingSeen

\* Looking at the tree adds nothing to what the history has of the call itself.
LEMMA StillTold ==
  ASSUME NEW p, NEW w, DOMAIN w = DOMAIN NothingSeen, NEW t, NEW v
  PROVE  LET u == See(p, w, t, v)
         IN  /\ u.op = w.op /\ u.a = w.a /\ u.b = w.b /\ u.dir = w.dir
             /\ u.target = w.target
             /\ u.touched = w.touched /\ u.fault = w.fault /\ u.cut = w.cut
             /\ u.denied = w.denied
BY DEF See, NothingSeen

\* A look at the tree adds to what was missing, what was there and what was done.
LEMMA StillSeen ==
  ASSUME NEW p, NEW w, DOMAIN w = DOMAIN NothingSeen, NEW t, NEW v
  PROVE  /\ w.missing \/ Missing(p, w, v) => See(p, w, t, v).missing
         /\ w.present \/ TestE(v, w.a) => See(p, w, t, v).present
         /\ w.post \/ Post(p, w, t, v) => See(p, w, t, v).post
<1>1. /\ See(p, w, t, v).missing = (w.missing \/ Missing(p, w, v))
      /\ See(p, w, t, v).present = (w.present \/ TestE(v, w.a))
      /\ See(p, w, t, v).post = (w.post \/ Post(p, w, t, v))
  BY DEF See, NothingSeen
<1> QED
  BY <1>1

\* What a look at the tree adds to the history of a listing.
LEMMA SeeListing ==
  ASSUME NEW p, NEW w, DOMAIN w = DOMAIN NothingSeen, NEW t, NEW v
  PROVE  /\ w.op = "list_dir" => /\ See(p, w, t, v).ever = w.ever \cup Listing(v, w.a)
                                 /\ See(p, w, t, v).always = w.always \cap Legible(p, v, w.a)
         /\ w.op # "list_dir" => /\ See(p, w, t, v).ever = w.ever
                                 /\ See(p, w, t, v).always = w.always
BY DEF See, NothingSeen

\* The first one.
LEMMA TheFirstLook ==
  ASSUME NEW p, NEW op, NEW a, NEW b, NEW target, NEW t
  PROVE  LET u == FirstLookOf(p, op, a, b, target, t)
         IN  /\ DOMAIN u = DOMAIN NothingSeen /\ u.dir \in BOOLEAN /\ u.dir = TestD(t, a)
             /\ u.op = op /\ u.a = a /\ u.b = b /\ u.target = target
             /\ ~u.touched /\ ~u.fault /\ ~u.cut /\ ~u.denied
             /\ op = "list_dir" => u.ever = Listing(t, a) /\ u.always = Legible(p, t, a)
             /\ op \in Unpromised => u.post
<1> DEFINE w == [NothingSeen EXCEPT
                   !.op = op, !.a = a, !.b = b, !.target = target, !.dir = TestD(t, a),
                   !.always = IF op = "list_dir" THEN Legible(p, t, a) ELSE {}]
<1>1. /\ DOMAIN w = DOMAIN NothingSeen /\ w.op = op /\ w.a = a /\ w.b = b
      /\ w.target = target /\ w.dir = TestD(t, a) /\ ~w.touched /\ ~w.fault /\ ~w.cut /\ ~w.denied
      /\ w.ever = {}
      /\ w.always = IF op = "list_dir" THEN Legible(p, t, a) ELSE {}
  BY DEF NothingSeen
<1>2. FirstLookOf(p, op, a, b, target, t) = See(p, w, t, t)
  BY DEF FirstLookOf
<1>3. TestD(t, a) \in BOOLEAN
  BY DEF TestD
<1>4. op \in Unpromised => Post(p, w, t, t)
  BY <1>1 DEF Post, Unpromised
<1> HIDE DEF w
<1> DEFINE u == See(p, w, t, t)
<1>5. /\ DOMAIN u = DOMAIN NothingSeen
      /\ u.op = w.op /\ u.a = w.a /\ u.b = w.b /\ u.target = w.target
      /\ u.dir = w.dir /\ u.touched = w.touched /\ u.fault = w.fault /\ u.cut = w.cut
      /\ u.denied = w.denied
  BY <1>1, StillHistory, StillTold
<1>7. Post(p, w, t, t) => u.post
  BY <1>1, StillSeen
<1>8. w.op = "list_dir" => /\ u.ever = w.ever \cup Listing(t, w.a)
                           /\ u.always = w.always \cap Legible(p, t, w.a)
  <2>1. DOMAIN w = DOMAIN NothingSeen
    BY <1>1
  <2> QED
    BY <2>1, SeeListing
<1> HIDE DEF u
<1>6. FirstLookOf(p, op, a, b, target, t) = u
  BY <1>2 DEF u
<1>9. op = "list_dir" => u.ever = Listing(t, a) /\ u.always = Legible(p, t, a)
  BY <1>1, <1>8
<1>10. /\ DOMAIN u = DOMAIN NothingSeen /\ u.dir \in BOOLEAN /\ u.dir = TestD(t, a)
       /\ u.op = op /\ u.a = a /\ u.b = b /\ u.target = target
       /\ ~u.touched /\ ~u.fault /\ ~u.cut /\ ~u.denied
  BY <1>1, <1>3, <1>5
<1> QED
  BY <1>4, <1>6, <1>7, <1>9, <1>10

\* A listing has names and kinds.
LEMMA ListingIsLines ==
  ASSUME NEW t, TreeOK(t), NEW p \in Seq(Names)
  PROVE  /\ Listing(t, p) \subseteq Lines
         /\ TestD(t, p) => \A n \in Names :
               LET e == Append(Real(t, p), n)
               IN  (e \in Paths /\ t[e] # None) => [name |-> n, kind |-> t[e].kind] \in Listing(t, p)
         /\ \A e \in Listing(t, p) :
               /\ TestD(t, p) /\ Append(Real(t, p), e.name) \in Paths
               /\ e.kind = t[Append(Real(t, p), e.name)].kind /\ e.kind # "none"
<1> DEFINE q == Real(t, p)
<1>1. q \in Seq(Names)
  BY WhereItLeads
<1>2. NamesIn(t, q) = {n \in Names : Append(q, n) \in Paths /\ t[Append(q, n)] # None}
  BY <1>1, NamesOfEntries
<1>3. \A e \in Paths : t[e] # None => t[e].kind \in {"dir", "file", "link"}
  BY Entries
<1> HIDE DEF q
<1>4. Listing(t, p) = IF TestD(t, p) THEN {[name |-> n, kind |-> t[Append(q, n)].kind] :
                                             n \in NamesIn(t, q)} ELSE {}
  BY DEF Listing, q
<1> QED
  BY <1>2, <1>3, <1>4 DEF Lines, q

\* What ls prints of it has its names, and its kinds where it can be read.
LEMMA PrintedIsLines ==
  ASSUME NEW t, TreeOK(t), NEW p \in Seq(Names)
  PROVE  /\ Printed(t, p) \subseteq Lines
         /\ Readable(Printed(t, p)) \subseteq Listing(t, p)
<1>1. ASSUME NEW e \in Listing(t, p)
      PROVE  LET l == [e EXCEPT !.kind = Shown(t, Append(Real(t, p), e.name))]
             IN  l \in Lines /\ (l.kind # "odd" => l = e)
  <2>1. e \in Lines /\ e.kind = t[Append(Real(t, p), e.name)].kind
    BY ListingIsLines
  <2>2. Shown(t, Append(Real(t, p), e.name)) \in {"odd", e.kind}
    BY <2>1 DEF Shown
  <2> QED
    BY <2>1, <2>2 DEF Lines
<1>2. \A l \in Printed(t, p) : \E e \in Listing(t, p) :
         l = [e EXCEPT !.kind = Shown(t, Append(Real(t, p), e.name))]
  BY DEF Printed
<1>3. ASSUME NEW l \in Printed(t, p)
      PROVE  l \in Lines /\ (l.kind # "odd" => l \in Listing(t, p))
  <2>1. PICK e \in Listing(t, p) : l = [e EXCEPT !.kind = Shown(t, Append(Real(t, p), e.name))]
    BY <1>2
  <2>2. /\ [e EXCEPT !.kind = Shown(t, Append(Real(t, p), e.name))] \in Lines
        /\ [e EXCEPT !.kind = Shown(t, Append(Real(t, p), e.name))].kind # "odd" =>
              [e EXCEPT !.kind = Shown(t, Append(Real(t, p), e.name))] = e
    BY <1>1
  <2> QED
    BY <2>1, <2>2
<1> QED
  BY <1>3 DEF Readable

\* What a client can read of a listing is of the listing.
LEMMA LegibleIsListed ==
  ASSUME NEW t, TreeOK(t), NEW q \in Seq(Names), NEW p
  PROVE  Legible(p, t, q) \subseteq Listing(t, q)
BY PrintedIsLines DEF Legible

-----------------------------------------------------------------------------
(* The types.                                                              *)

\* What an answer to a listing holds.
LEMMA OutputTyped ==
  ASSUME NEW p \in {"scp", "sftp"}, NEW k, Busy(p, k), k.op = "list_dir",
         NEW t, TreeOK(t)
  PROVE  OutputOf(t, Now(p, k)) \subseteq Lines
<1> DEFINE s == Now(p, k)
<1>1. Sends(p, k, s, k.step)
  BY NowSends
<1> HIDE DEF s
<1>2. s.on \in Seq(Names)
  BY <1>1 DEF Sends
<1>3. LsLa(s.cmd) \/ s.cmd \in {"readdir", "readlink"} \/ (Probes(s.cmd) /\ s.cmd # "stat")
  BY <1>1 DEF Sends, ListsAll
<1>4. OutputOf(t, s) \in {Listing(t, s.on), Printed(t, s.on), {}}
  BY <1>3 DEF OutputOf, LsLa, Probes
<1> QED
  BY <1>2, <1>4, ListingIsLines, PrintedIsLines DEF s

\* What a cut leaves of a listing.
LEMMA LeftTyped ==
  ASSUME NEW lines, lines \subseteq Lines, NEW out \in LinesLeft(lines)
  PROVE  out \subseteq Lines
<1>1. PICK rest \in SUBSET lines,
           part \in {{}} \cup {{[e EXCEPT !.kind = "file"]} : e \in {f \in lines : f.kind = "link"}} :
             out = rest \cup part
  BY DEF LinesLeft
<1>2. \A e \in lines : [e EXCEPT !.kind = "file"] \in Lines
  BY DEF Lines
<1> QED
  BY <1>1, <1>2

\* What is left of a path.
LEMMA PathLeftIsPath ==
  ASSUME NEW path \in Seq(Names), NEW x \in PathLeft(path)
  PROVE  x \in Seq(Names)
<1>1. Home \in Seq(Names)
  BY PathsAreShort, RemoteFsAssumption
<1>2. ASSUME NEW n \in 0..Len(path) - 1 PROVE SubSeq(path, 1, n) \in Seq(Names)
  OBVIOUS
<1> QED
  BY <1>1, <1>2 DEF PathLeft

\* Every move keeps the types.
LEMMA MovesTyped ==
  ASSUME NEW p \in {"scp", "sftp"}, NEW k, NEW a, NEW r, NEW w, Typed(p, k, a, r, w),
         NEW k2, NEW a2, NEW r2, NEW w2, Moves(p, k, a, r, w, k2, a2, r2, w2)
  PROVE  Typed(p, k2, a2, r2, w2)
<1>1. CASE Watches(p, k, a, r, w, k2, a2, r2, w2)
  BY <1>1, StillHistory DEF Watches, Typed
<1>2. CASE StaysLocal(p, k, a, r, w, k2, a2, r2, w2)
  <2>1. DOMAIN r2 = {"op", "kind", "value"}
    BY <1>2 DEF StaysLocal, Result
  <2>2. NothingSeen.dir \in BOOLEAN
    BY DEF NothingSeen
  <2> QED
    BY <1>2, <2>1, <2>2 DEF StaysLocal, Typed
<1>3. CASE Begins(p, k, a, r, w, k2, a2, r2, w2)
  <2>0. PICK op \in SupportedOf(p), x \in Seq(Names), y \in Seq(Names), target \in Arg : \E t :
          /\ TreeOK(t)
          /\ w2 = FirstLookOf(p, op, x, y, target, t)
          /\ \/ k2 = Idle /\ r2 = Result(op, "NotConnected", {})
             \/ k2 = NewCall(op, x, y, target) /\ r2 = Result(op, "none", {})
    BY <1>3 DEF Begins
  <2>1. PICK t :
          /\ TreeOK(t)
          /\ w2 = FirstLookOf(p, op, x, y, target, t)
          /\ \/ k2 = Idle /\ r2 = Result(op, "NotConnected", {})
             \/ k2 = NewCall(op, x, y, target) /\ r2 = Result(op, "none", {})
    BY <2>0
  <2>2. DOMAIN w2 = DOMAIN NothingSeen /\ w2.dir \in BOOLEAN
    BY <2>1, TheFirstLook
  <2>3. DOMAIN r2 = {"op", "kind", "value"}
    BY <2>1 DEF Result
  <2>4. k2 = Idle \/ Busy(p, k2)
    <3> SUFFICES ASSUME k2 = NewCall(op, x, y, target) PROVE Busy(p, k2)
      BY <2>1
    <3>1. << >> \in Seq(Names)
      BY EmptySeq
    <3>2. k2 \in CallsOf(p) /\ k2.step = 1
      BY <3>1 DEF NewCall, CallsOf
    <3>3. 1 \in DOMAIN StepsOf(p, k2)
      BY <3>2, StepsInOrder
    <3> QED
      BY <3>2, <3>3 DEF Busy
  <2>5. a2 = NoAnswer
    BY <1>3 DEF Begins, Typed
  <2> QED
    BY <2>2, <2>3, <2>4, <2>5 DEF Typed
<1>4. CASE IsServed(p, k, a, r, w, k2, a2, r2, w2)
  <2>1. PICK t, o :
          /\ TreeOK(t) /\ Effect(k, Now(p, k), t, o)
          /\ a2 = [rc |-> o.rc, out |-> IF o.rc = "0" THEN OutputOf(t, Now(p, k)) ELSE {},
                   pwd |-> Now(p, k).on]
          /\ w2 = [See(p, w, t, o.tree) EXCEPT !.touched = w.touched \/ o.tree # t,
                                              !.denied = w.denied \/ Denies(k, Now(p, k), t, o)]
    BY <1>4 DEF IsServed
  <2>2. k # Idle /\ Busy(p, k) /\ k2 = k /\ r2 = r
    BY <1>4 DEF IsServed, Typed
  <2>3. Now(p, k).on \in Seq(Names)
    BY <2>2, NowSends DEF Sends
  <2>4. k.op = "list_dir" => OutputOf(t, Now(p, k)) \subseteq Lines
    BY <2>1, <2>2, OutputTyped
  <2>5. o.rc \in {"0", "1"}
    BY <2>1 DEF Effect, Kept
  <2>6. AnswerOK(k2, a2)
    BY <2>1, <2>2, <2>3, <2>4, <2>5 DEF AnswerOK
  <2>7. DOMAIN w = DOMAIN NothingSeen /\ w.dir \in BOOLEAN
    BY DEF Typed
  <2>8. DOMAIN See(p, w, t, o.tree) = DOMAIN NothingSeen /\ See(p, w, t, o.tree).dir = w.dir
    BY <2>7, StillHistory
  <2>9. DOMAIN w2 = DOMAIN NothingSeen /\ w2.dir = w.dir
    BY <2>1, <2>8
  <2> QED
    BY <2>2, <2>6, <2>7, <2>9 DEF Typed
<1>5. CASE Fails(p, k, a, r, w, k2, a2, r2, w2)
  BY <1>5 DEF Fails, Typed
<1>6. CASE IsCut(p, k, a, r, w, k2, a2, r2, w2)
  <2>1. k # Idle /\ k2 = k /\ r2 = r /\ AnswerOK(k, a) /\ Busy(p, k)
    BY <1>6 DEF IsCut, Typed
  <2>0. Now(p, k).on \in Seq(Names)
    BY <2>1, NowSends DEF Sends
  <2>2. DOMAIN w2 = DOMAIN NothingSeen /\ w2.dir \in BOOLEAN
    BY <1>6 DEF IsCut, Typed
  <2>3. AnswerOK(k, a2)
    <3>1. CASE a2 = [a EXCEPT !.rc = "1", !.out = {}]
      BY <2>1, <3>1 DEF AnswerOK
    <3>2. CASE \E x \in PathLeft(Now(p, k).on) : a2 = [a EXCEPT !.pwd = x]
      BY <2>0, <2>1, <3>2, PathLeftIsPath DEF AnswerOK
    <3>3. CASE \E out \in LinesLeft(a.out) : a2 = [a EXCEPT !.out = out]
      BY <2>1, <3>3, LeftTyped DEF AnswerOK
    <3> QED
      BY <1>6, <3>1, <3>2, <3>3 DEF IsCut
  <2> QED
    BY <2>1, <2>2, <2>3 DEF Typed
<1>7. CASE Takes(p, k, a, r, w, k2, a2, r2, w2)
  <2> DEFINE n == NotedOf(p, k, a)
  <2>1. k # Idle /\ Busy(p, k) /\ (a = Err \/ AnswerOK(k, a)) /\ a2 = NoAnswer /\ w2 = w
    BY <1>7 DEF Takes, Typed
  <2>2. \/ n.step < Len(StepsOf(p, n)) /\ k2 = [n EXCEPT !.step = @ + 1] /\ r2 = r
        \/ k2 = Idle /\ \E op, kind, value : r2 = Result(op, kind, value)
    BY <1>7 DEF Takes
  <2>3. n.step < Len(StepsOf(p, n)) => Busy(p, [n EXCEPT !.step = @ + 1])
    BY <2>1, NotedBusy
  <2> HIDE DEF n
  <2>4. k2 = Idle \/ Busy(p, k2)
    BY <2>2, <2>3
  <2>5. DOMAIN r2 = {"op", "kind", "value"}
    BY <2>2 DEF Typed, Result
  <2> QED
    BY <2>1, <2>4, <2>5 DEF Typed
<1> QED
  BY <1>1, <1>2, <1>3, <1>4, <1>5, <1>6, <1>7 DEF Moves

-----------------------------------------------------------------------------
(* What Ok promises.                                                       *)

\* The kind that stat answers.
LEMMA StatOutput ==
  ASSUME NEW t, NEW s, s.cmd = "stat"
  PROVE  OutputOf(t, s) = {Found(t[Real(t, s.on)].kind)}
BY DEF OutputOf

\* The request that earns the Ok of a method in which only one call can succeed has
\* changed the tree.
LEMMA OutcomesAct ==
  ASSUME TreeOK(tree), NEW c, proto[c] \in {"scp", "sftp"}, Busy(proto[c], call[c]),
         NEW o \in Outcomes(c, Current(c)), Sole(proto[c], call[c].op),
         Earned(Current(c), o.rc, OutputOf(tree, Current(c)))
  PROVE  o.tree # tree
<1> DEFINE p == proto[c]
           k == call[c]
           s == Current(c)
<1>1. k.a \in Seq(Names) /\ k.b \in Seq(Names) /\ k.target \in Arg
  BY DEF Busy, CallsOf
<1>2. Sends(p, k, s, k.step)
  BY NowSends, OfOneClient
<1>3. k.op \notin Unpromised /\ Sole(p, k.op)
  BY DEF Sole, Unpromised
<1> HIDE DEF p, s
<1>4. s.on = k.a /\ <<k.op, s.cmd>> \in Mutations(p) \cup Lookups(p) /\ o.rc = "0"
  BY <1>2, <1>3 DEF Sends, Earns, Earned, s
<1>5. CASE k.op = "create_dir"
  <2>1. o \in MkDir(tree, k.a)
    BY <1>4, <1>5 DEF Mutations, Lookups, Outcomes, Questions, s
  <2> QED
    BY <1>1, <1>4, <2>1, MkDirActs
<1>6. CASE k.op = "remove_dir"
  <2>1. o \in RmDir(tree, k.a)
    BY <1>4, <1>6 DEF Mutations, Lookups, Outcomes, Questions, s
  <2> QED
    BY <1>1, <1>4, <2>1, RemoveActs
<1>7. CASE k.op = "remove_file" /\ p = "sftp"
  <2>1. o \in Unlink(tree, k.a)
    BY <1>4, <1>7 DEF Mutations, Lookups, Outcomes, Questions, s
  <2> QED
    BY <1>1, <1>4, <2>1, RemoveActs
<1>8. CASE k.op = "symlink"
  <2>1. o \in LnS(tree, k.target, k.a) \cup SymlinkAt(tree, k.target, k.a)
    BY <1>4, <1>8 DEF Mutations, Lookups, Outcomes, Questions, s
  <2> QED
    BY <1>1, <1>4, <2>1, LinkActs
<1>9. CASE k.op = "mov" /\ p = "scp"
  <2>1. o \in MvF(tree, k.a, k.b)
    BY <1>4, <1>9 DEF Mutations, Lookups, Outcomes, Questions, s
  <2> QED
    BY <1>1, <1>4, <2>1, MvFActs
<1> QED
  BY <1>3, <1>5, <1>6, <1>7, <1>8, <1>9 DEF Sole

\* The request that earns the Ok of a method does what the method promises.
LEMMA OutcomesAchieve ==
  ASSUME TreeOK(tree), NEW c, proto[c] \in {"scp", "sftp"}, Busy(proto[c], call[c]),
         NEW o \in Outcomes(c, Current(c))
  PROVE  Achieves(proto[c], call[c], Current(c), tree, o)
<1> DEFINE p == proto[c]
           k == call[c]
           s == Current(c)
<1>1. k.a \in Seq(Names) /\ k.b \in Seq(Names) /\ k.target \in Arg
  BY DEF Busy, CallsOf
<1>2. Sends(p, k, s, k.step)
  BY NowSends, OfOneClient
<1> HIDE DEF p, s
<1> SUFFICES ASSUME Binds(p, k.op), Earned(s, o.rc, OutputOf(tree, s))
             PROVE  Post(p, k, tree, o.tree)
  BY OutcomesAct DEF Achieves, p, s
<1>3. CASE k.op \in Unpromised
  BY <1>3 DEF Unpromised, Post
<1>4. CASE k.op \notin Unpromised
  <2>1. /\ s.on = k.a /\ <<k.op, s.cmd>> \in Mutations(p) \cup Lookups(p)
        /\ s.cmd = "stat" => OutputOf(tree, s) = {Found("dir")}
        /\ o.rc = "0"
    BY <1>2, <1>4 DEF Sends, Earns, Earned
  <2>2. CASE k.op \in {"remove_file", "remove_dir", "remove_dir_all"}
    <3>1. CASE s.cmd \in {"rm -f", "unlink", "rmdir"}
      <4>1. o \in RmF(tree, k.a) \cup RmDir(tree, k.a) \cup Unlink(tree, k.a)
        BY <2>1, <3>1 DEF Outcomes, Questions, s
      <4>2. Entry(o.tree, k.a) = None
        BY <1>1, <2>1, <4>1, RemoveDone
      <4> QED
        BY <2>2, <4>2 DEF Post
    <3>2. CASE s.cmd = "rm -rf"
      <4>1. o \in RmRF(tree, k.a)
        BY <2>1, <3>2 DEF Outcomes, Questions, s
      <4>2. Entry(o.tree, k.a) = None
        BY <1>1, <2>1, <4>1, RmRFDone
      <4> QED
        BY <2>2, <4>2 DEF Post
    <3> QED
      BY <2>1, <2>2, <3>1, <3>2 DEF Mutations, Lookups
  <2>3. CASE k.op = "create_dir"
    <3>1. o \in MkDir(tree, k.a)
      BY <2>1, <2>3 DEF Mutations, Lookups, Outcomes, Questions, s
    <3>2. TestD(o.tree, k.a)
      BY <1>1, <2>1, <3>1, MkDirDone
    <3> QED
      BY <2>3, <3>2 DEF Post
  <2>4. CASE k.op = "change_dir"
    <3>1. CASE s.cmd = "cd"
      <4>1. o \in MayDo(tree, TestD(tree, k.a), tree)
        BY <2>1, <3>1 DEF Outcomes, Questions, Finds, s
      <4>2. TestD(o.tree, k.a)
        BY <2>1, <4>1, Looking
      <4> QED
        BY <2>4, <4>2 DEF Post
    <3>2. CASE s.cmd = "stat"
      <4>1. o \in MayDo(tree, TestE(tree, k.a), tree)
        BY <2>1, <3>2 DEF Outcomes, Questions, Finds, s
      <4>2. TestE(tree, k.a) /\ o.tree = tree
        BY <2>1, <4>1, Looking
      <4>3. OutputOf(tree, s) = {Found(tree[Real(tree, k.a)].kind)}
        BY <2>1, <3>2, StatOutput
      <4>4. Found(tree[Real(tree, k.a)].kind) = Found("dir")
        BY <2>1, <3>2, <4>3
      <4>5. tree[Real(tree, k.a)].kind = "dir"
        BY <4>4 DEF Found
      <4>6. TestD(tree, k.a)
        BY <1>1, <4>2, <4>5, WhereItLeads, Entries DEF TestD
      <4> QED
        BY <2>4, <4>2, <4>6 DEF Post
    <3> QED
      BY <2>1, <2>4, <3>1, <3>2 DEF Mutations, Lookups
  <2>5. CASE k.op = "symlink"
    <3>1. s.cmd = "symlink"
      BY <2>1, <2>5 DEF Mutations, Lookups, Binds, p
    <3>2. o \in SymlinkAt(tree, k.target, k.a)
      BY <2>1, <3>1 DEF Outcomes, Questions, s
    <3>3. Entry(o.tree, k.a) = Link(k.target)
      BY <1>1, <2>1, <3>2, SymlinkAtDone
    <3> QED
      BY <2>5, <3>3 DEF Post
  <2>6. CASE k.op = "copy"
    <3>1. o \in CpRF(tree, k.a, k.b)
      BY <2>1, <2>6 DEF Mutations, Lookups, Outcomes, Questions, s
    <3>2. Entry(o.tree, k.b) # None
      BY <1>1, <2>1, <3>1, CpRFDone
    <3> QED
      BY <2>6, <3>2 DEF Post
  <2>7. CASE k.op = "mov" /\ p = "scp"
    <3>1. o \in MvF(tree, k.a, k.b)
      BY <2>1, <2>7 DEF Mutations, Lookups, Outcomes, Questions, s
    <3>2. /\ k.a # Root /\ Entry(tree, k.a) # None /\ HasGoal(tree, k.b, Last(k.a))
          /\ o.tree[Goal(tree, k.b, Last(k.a))] = tree[Place(tree, k.a)]
          /\ o.tree[Place(tree, k.a)] = None
      BY <1>1, <2>1, <3>1, MvFDone
    <3>3. /\ HasTarget(p, k, tree) = HasGoal(tree, k.b, Last(k.a))
          /\ Target(p, k, tree) = Goal(tree, k.b, Last(k.a))
      BY <2>7 DEF HasTarget, Target
    <3> QED
      BY <2>7, <3>2, <3>3 DEF Post
  <2>8. CASE k.op = "mov" /\ p = "sftp"
    <3>1. o \in Rename(tree, k.a, k.b)
      BY <2>1, <2>8 DEF Mutations, Lookups, Outcomes, Questions, s
    <3>2. /\ k.a # Root /\ Entry(tree, k.a) # None /\ HasPlace(tree, k.b)
          /\ o.tree[Place(tree, k.b)] = tree[Place(tree, k.a)]
          /\ o.tree[Place(tree, k.a)] = None \/ Place(tree, k.a) = Place(tree, k.b)
      BY <1>1, <2>1, <3>1, RenameDone
    <3>3. /\ HasTarget(p, k, tree) = HasPlace(tree, k.b)
          /\ Target(p, k, tree) = Place(tree, k.b)
      BY <2>8 DEF HasTarget, Target
    <3> QED
      BY <2>8, <3>2, <3>3 DEF Post
  <2>9. CASE k.op \in {"create", "append"}
    <3>1. CASE s.cmd = "scp -t"
      <4>1. o \in ScpT(tree, k.a, c)
        BY <2>1, <3>1 DEF Outcomes, Questions, s
      <4>2. TestE(o.tree, k.a)
        BY <1>1, <2>1, <4>1, ScpTDone
      <4> QED
        BY <2>9, <4>2 DEF Post
    <3>2. CASE s.cmd \in {"open create", "open append"}
      <4>1. o \in OpenCreat(tree, k.a, c, TRUE) \/ o \in OpenCreat(tree, k.a, c, FALSE)
        BY <2>1, <3>2 DEF Outcomes, Questions, s
      <4>2. TestE(o.tree, k.a)
        BY <1>1, <2>1, <4>1, OpenCreatDone
      <4> QED
        BY <2>9, <4>2 DEF Post
    <3> QED
      BY <2>1, <2>9, <3>1, <3>2 DEF Mutations, Lookups
  <2>10. CASE k.op = "open"
    <3>1. CASE s.cmd = "scp -f"
      <4>1. o \in MayDo(tree, TestE(tree, k.a) /\ ~TestD(tree, k.a), tree)
        BY <2>1, <3>1 DEF Outcomes, Questions, s
      <4>2. TestE(o.tree, k.a)
        BY <2>1, <4>1 DEF MayDo, Done, Refused
      <4> QED
        BY <2>10, <4>2 DEF Post
    <3>2. CASE s.cmd = "open read"
      <4>1. o \in MayDo(tree, TestE(tree, k.a), tree)
        BY <2>1, <3>2 DEF Outcomes, Questions, s
      <4>2. TestE(o.tree, k.a)
        BY <2>1, <4>1 DEF MayDo, Done, Refused
      <4> QED
        BY <2>10, <4>2 DEF Post
    <3> QED
      BY <2>1, <2>10, <3>1, <3>2 DEF Mutations, Lookups
  <2> QED
    <3>1. k.op \in {"remove_file", "remove_dir", "remove_dir_all", "create_dir", "change_dir",
                     "symlink", "copy", "mov", "create", "append", "open"}
      BY <1>4, <2>1 DEF Mutations, Lookups, Unpromised
    <3>2. p \in {"scp", "sftp"}
      BY DEF p
    <3> QED
      BY <2>2, <2>3, <2>4, <2>5, <2>6, <2>7, <2>8, <2>9, <2>10, <3>1, <3>2
<1> QED
  BY <1>3, <1>4

-----------------------------------------------------------------------------
(* The steps of the system.                                                *)

\* A method that looks at nothing on the server.
LEMMA LocalMoves ==
  ASSUME Shape, NEW c \in Clients, NEW op \in {"connect", "disconnect", "append"},
         NEW kind \in {"Ok", "ProtocolError", "NotConnected", "ConnectionError",
                       "UnsupportedFeature"},
         Local(c, op, kind)
  PROVE  /\ \A d \in Clients : MovesOf(d)
         /\ proto' = proto /\ tree' = tree /\ call' = call /\ answer' = answer
         /\ calls' = calls /\ faults' = faults
         /\ DOMAIN result' = Clients /\ DOMAIN saw' = Clients /\ call[c] = Idle
<1>1. /\ proto' = proto /\ tree' = tree /\ call' = call /\ answer' = answer
      /\ calls' = calls /\ faults' = faults /\ call[c] = Idle
      /\ result' = [result EXCEPT ![c] = Result(op, kind, {})]
      /\ saw' = [saw EXCEPT ![c] = NothingSeen]
  BY DEF Local, Returns, bounds, Result
<1>2. DOMAIN result = Clients /\ DOMAIN saw = Clients
  BY DEF Shape, Around
<1>3. ASSUME NEW d \in Clients PROVE MovesOf(d)
  <2>1. CASE d = c
    <3>1. result'[d] = Result(op, kind, {}) /\ saw'[d] = NothingSeen
      BY <1>1, <1>2, <2>1
    <3>2. StaysLocal(proto[d], call[d], answer[d], result[d], saw[d],
                     call'[d], answer'[d], result'[d], saw'[d])
      BY <1>1, <2>1, <3>1 DEF StaysLocal
    <3> QED
      BY <3>2 DEF MovesOf, Moves
  <2>2. CASE d # c
    <3>1. result'[d] = result[d] /\ saw'[d] = saw[d]
      BY <1>1, <1>2, <2>2
    <3> QED
      BY <1>1, <3>1 DEF MovesOf, Moves, Watches
  <2> QED
    BY <2>1, <2>2
<1> QED
  BY <1>1, <1>2, <1>3

\* The steps that only this client's connection is about.
LEMMA ConnectionMoves ==
  ASSUME Shape, NEW c \in Clients,
         \/ ScpConnect(c) \/ SftpConnect(c) \/ ConnectFails(c)
         \/ Disconnect(c) \/ DisconnectFails(c) \/ AppendUnsupported(c)
  PROVE  Around' /\ proto' = proto /\ \A d \in Clients : MovesOf(d)
<1> USE DEF Shape
<1>0. Around
  OBVIOUS
<1>1. Home \in Seq(Names)
  BY PathsAreShort, RemoteFsAssumption
<1> DEFINE Same == UNCHANGED <<proto, tree, call, answer, calls, faults>>
<1>2. CASE ScpConnect(c)
  <2>1. Local(c, "connect", "Ok") /\ proto[c] = "scp" /\ sftp' = sftp
        /\ session' = [session EXCEPT ![c] = "Some"]
        /\ link' = [link EXCEPT ![c] = "up"]
        /\ wrkdir' = [wrkdir EXCEPT ![c] = Home]
    BY <1>2 DEF ScpConnect
  <2>2. /\ \A d \in Clients : MovesOf(d)
        /\ Same /\ DOMAIN result' = Clients /\ DOMAIN saw' = Clients /\ call[c] = Idle
    BY <2>1, LocalMoves
  <2> QED
    BY <1>0, <1>1, <2>1, <2>2 DEF Around
<1>3. CASE SftpConnect(c)
  <2>1. Local(c, "connect", "Ok") /\ sftp' = [sftp EXCEPT ![c] = "Some"]
        /\ session' = [session EXCEPT ![c] = "Some"]
        /\ link' = [link EXCEPT ![c] = "up"]
        /\ wrkdir' = [wrkdir EXCEPT ![c] = Home]
    BY <1>3 DEF SftpConnect
  <2>2. /\ \A d \in Clients : MovesOf(d)
        /\ Same /\ DOMAIN result' = Clients /\ DOMAIN saw' = Clients /\ call[c] = Idle
    BY <2>1, LocalMoves
  <2> QED
    BY <1>0, <1>1, <2>1, <2>2 DEF Around
<1>4. CASE Disconnect(c)
  <2>1. Local(c, "disconnect", "Ok") /\ sftp' = [sftp EXCEPT ![c] = "None"]
        /\ session' = [session EXCEPT ![c] = "None"]
        /\ link' = [link EXCEPT ![c] = "down"] /\ wrkdir' = wrkdir
    BY <1>4 DEF Disconnect
  <2>2. /\ \A d \in Clients : MovesOf(d)
        /\ Same /\ DOMAIN result' = Clients /\ DOMAIN saw' = Clients /\ call[c] = Idle
    BY <2>1, LocalMoves
  <2> QED
    BY <1>0, <2>1, <2>2 DEF Around
<1>5. CASE ConnectFails(c) \/ DisconnectFails(c) \/ AppendUnsupported(c)
  <2>1. /\ sftp' = sftp /\ session' = session /\ link' = link /\ wrkdir' = wrkdir
        /\ \E op \in {"connect", "disconnect", "append"},
              kind \in {"Ok", "ProtocolError", "NotConnected", "ConnectionError",
                        "UnsupportedFeature"} : Local(c, op, kind)
    BY <1>5 DEF ConnectFails, DisconnectFails, AppendUnsupported, conn
  <2>2. /\ \A d \in Clients : MovesOf(d)
        /\ Same /\ DOMAIN result' = Clients /\ DOMAIN saw' = Clients /\ call[c] = Idle
    BY <2>1, LocalMoves
  <2> QED
    BY <1>0, <2>1, <2>2 DEF Around
<1> QED
  BY <1>2, <1>3, <1>4, <1>5

\* Somebody else's step changes nothing of a client but what it has seen.
LEMMA OthersWatch ==
  ASSUME Shape, NEW c \in Clients, NEW d \in Clients, d # c,
         call'[d] = call[d], answer'[d] = answer[d], result'[d] = result[d],
         saw'[d] = saw[d]
  PROVE  MovesOf(d)
BY DEF MovesOf, Moves, Watches

\* An argument made absolute.
LEMMA Absolute ==
  ASSUME Shape, NEW c \in Clients, NEW arg \in Arg
  PROVE  absolutize(c, arg) \in Seq(Names)
<1>1. arg.names \in Seq(Names)
  BY PathsAreShort DEF Arg
<1>2. wrkdir[c] \in Seq(Names)
  BY DEF Shape, Around
<1>3. wrkdir[c] \o arg.names \in Seq(Names)
  BY <1>1, <1>2
<1> QED
  BY <1>1, <1>3 DEF absolutize

\* A call begins, or is refused for want of a connection.
LEMMA InvokeMoves ==
  ASSUME Shape, NEW c \in Clients, Invoke(c)
  PROVE  Around' /\ proto' = proto /\ \A d \in Clients : MovesOf(d)
<1>0. Around
  BY DEF Shape
<1>1. PICK r \in Requests :
          /\ r.op \in Supported(c)
          /\ saw' = [saw EXCEPT ![c] = FirstLook(c, r)]
          /\ \/ /\ ~Ready(c, r.op)
                /\ Returns(c, r.op, "NotConnected", {})
                /\ UNCHANGED call
             \/ /\ Ready(c, r.op)
                /\ call' = [call EXCEPT ![c] =
                              [op |-> r.op, a |-> absolutize(c, r.path),
                               b |-> absolutize(c, r.other), target |-> r.other,
                               dir |-> FALSE, entries |-> {}, links |-> << >>,
                               step |-> 1]]
                /\ Returns(c, r.op, "none", {})
  BY DEF Invoke
<1> DEFINE x == absolutize(c, r.path)
           y == absolutize(c, r.other)
           u == FirstLookOf(proto[c], r.op, x, y, r.other, tree)
           n == NewCall(r.op, x, y, r.other)
<1>2. call[c] = Idle /\ calls' = calls + 1 /\ calls < MaxCalls
      /\ UNCHANGED <<proto, tree, session, sftp, link, wrkdir, answer, faults>>
  BY DEF Invoke, conn
<1>3. r.op \in SupportedOf(proto[c])
  BY <1>1, OfOneClient
<1>4. x \in Seq(Names) /\ y \in Seq(Names) /\ r.other \in Arg
  BY Absolute, RemoteFsAssumption
<1>5. FirstLook(c, r) = u
  BY DEF FirstLook, FirstLookOf
<1>6. \/ call' = call /\ result' = [result EXCEPT ![c] = Result(r.op, "NotConnected", {})]
      \/ /\ Ready(c, r.op)
         /\ call' = [call EXCEPT ![c] = n]
         /\ result' = [result EXCEPT ![c] = Result(r.op, "none", {})]
  BY <1>1 DEF Returns, NewCall, Result
<1>7. /\ DOMAIN call = Clients /\ DOMAIN result = Clients /\ DOMAIN saw = Clients
      /\ TreeOK(tree)
  BY <1>0 DEF Around
<1> HIDE DEF x, y, u, n
<1>8. ASSUME NEW d \in Clients PROVE MovesOf(d)
  <2>1. CASE d = c
    <3>1. /\ saw'[d] = u /\ answer'[d] = answer[d] /\ call[d] = Idle
          /\ \/ call'[d] = Idle /\ result'[d] = Result(r.op, "NotConnected", {})
             \/ call'[d] = n /\ result'[d] = Result(r.op, "none", {})
      BY <1>1, <1>2, <1>5, <1>6, <1>7, <2>1
    <3>2. Begins(proto[d], call[d], answer[d], result[d], saw[d],
                 call'[d], answer'[d], result'[d], saw'[d])
      BY <1>3, <1>4, <1>7, <2>1, <3>1 DEF Begins, u, n
    <3> QED
      BY <3>2 DEF MovesOf, Moves
  <2>2. CASE d # c
    BY <1>1, <1>2, <1>6, <1>7, <2>2, OthersWatch
  <2> QED
    BY <2>1, <2>2
<1>9. Ready(c, r.op) => session[c] = "Some"
  BY <1>0 DEF Ready, check_connection, Around
<1>10. Around'
  <2>1. calls' \in 0..MaxCalls
    BY <1>0, <1>2, RemoteFsAssumption DEF Around
  <2>2. DOMAIN call' = Clients /\ DOMAIN result' = Clients /\ DOMAIN saw' = Clients
    BY <1>1, <1>6, <1>7
  <2>3. ASSUME NEW d \in Clients, call'[d] # Idle PROVE session[d] = "Some"
    <3>1. CASE d = c /\ Ready(c, r.op)
      BY <1>9, <3>1
    <3>2. CASE ~(d = c /\ Ready(c, r.op))
      <4>1. call'[d] = call[d]
        BY <1>6, <1>7, <3>2
      <4> QED
        BY <1>0, <2>3, <4>1 DEF Around
    <3> QED
      BY <3>1, <3>2
  <2> QED
    BY <1>0, <1>2, <2>1, <2>2, <2>3 DEF Around
<1> QED
  BY <1>2, <1>8, <1>10

\* The server runs a request.
LEMMA ServeMoves ==
  ASSUME Shape, NEW c \in Clients, Serve(c)
  PROVE  Around' /\ proto' = proto /\ \A d \in Clients : MovesOf(d)
<1>0. Around /\ Typed(proto[c], call[c], answer[c], result[c], saw[c])
  BY DEF Shape
<1> DEFINE p == proto[c]
           k == call[c]
           s == Current(c)
<1>1. PICK o \in Outcomes(c, s) :
          /\ tree' = o.tree
          /\ answer' = [answer EXCEPT ![c] =
               [rc |-> o.rc, out |-> IF o.rc = "0" THEN Output(s) ELSE {}, pwd |-> s.on]]
          /\ saw' = [Seen(o.tree) EXCEPT ![c].touched = @ \/ o.tree # tree,
                                         ![c].denied = @ \/ Denies(k, s, tree, o)]
  BY DEF Serve, Denies
<1>2. /\ k # Idle /\ answer[c] = NoAnswer
      /\ UNCHANGED <<proto, session, sftp, link, wrkdir, call, result, calls, faults>>
  BY DEF Serve, Waiting, conn, bounds
<1>3. p \in {"scp", "sftp"} /\ Busy(p, k) /\ DOMAIN saw[c] = DOMAIN NothingSeen
  BY <1>0, <1>2 DEF Around, Typed
<1>4. s = Now(p, k) /\ Output(s) = OutputOf(tree, s)
  BY OfOneClient
<1>5. Sends(p, k, s, k.step)
  BY <1>3, <1>4, NowSends
<1>6. k.b \in Seq(Names) /\ k.target \in Arg
  BY <1>3 DEF Busy, CallsOf
<1>7. TreeOK(tree) /\ wrkdir[c] \in Seq(Names) /\ DOMAIN answer = Clients
  BY <1>0 DEF Around
<1> HIDE DEF p, k, s
<1>8. s.cmd \in Commands /\ s.on \in Seq(Names)
  BY <1>5 DEF Sends
<1>9. Effect(k, s, tree, o)
  BY <1>6, <1>7, <1>8, OutcomesEffect DEF k
<1>16. Achieves(p, k, s, tree, o)
  BY <1>3, <1>7, OutcomesAchieve DEF p, k, s
<1>10. TreeOK(o.tree)
  BY <1>9 DEF Effect, Kept
<1>11. /\ DOMAIN saw' = Clients
       /\ \A d \in Clients : d # c =>
             saw'[d] = IF call[d] = Idle THEN saw[d] ELSE See(proto[d], saw[d], tree, o.tree)
       /\ saw'[c] = [See(p, saw[c], tree, o.tree) EXCEPT
                       !.touched = @ \/ o.tree # tree, !.denied = @ \/ Denies(k, s, tree, o)]
  BY <1>1, <1>2 DEF Seen, p, k
<1>12. /\ See(p, saw[c], tree, o.tree).touched = saw[c].touched
       /\ See(p, saw[c], tree, o.tree).denied = saw[c].denied
  BY <1>3, StillTold
<1>13. ASSUME NEW d \in Clients PROVE MovesOf(d)
  <2>1. CASE d = c
    <3>1. answer'[d] = [rc |-> o.rc, out |-> IF o.rc = "0" THEN OutputOf(tree, s) ELSE {},
                        pwd |-> s.on]
      BY <1>1, <1>4, <1>7, <2>1
    <3>2. saw'[d] = [See(p, saw[c], tree, o.tree) EXCEPT
                       !.touched = saw[c].touched \/ o.tree # tree,
                       !.denied = saw[c].denied \/ Denies(k, s, tree, o)]
      BY <1>11, <1>12, <2>1
    <3>3. /\ p = proto[d] /\ k = call[d] /\ s = Now(proto[d], call[d])
          /\ call'[d] = call[d] /\ result'[d] = result[d] /\ call[d] # Idle
          /\ answer[d] = NoAnswer
      BY <1>2, <1>4, <2>1 DEF p, k
    <3>4. TreeOK(tree) /\ Effect(call[d], Now(proto[d], call[d]), tree, o)
          /\ Achieves(proto[d], call[d], Now(proto[d], call[d]), tree, o)
      BY <1>7, <1>9, <1>16, <3>3
    <3>5. answer'[d] = [rc |-> o.rc,
                        out |-> IF o.rc = "0" THEN OutputOf(tree, Now(proto[d], call[d])) ELSE {},
                        pwd |-> Now(proto[d], call[d]).on]
      BY <3>1, <3>3
    <3>6. saw'[d] = [See(proto[d], saw[d], tree, o.tree) EXCEPT
                       !.touched = saw[d].touched \/ o.tree # tree,
                       !.denied = saw[d].denied \/ Denies(call[d], Now(proto[d], call[d]), tree, o)]
      BY <2>1, <3>2, <3>3
    <3>7. IsServed(proto[d], call[d], answer[d], result[d], saw[d],
                   call'[d], answer'[d], result'[d], saw'[d])
      <4> DEFINE A == answer'[d]
                 W == saw'[d]
                 s1 == Now(proto[d], call[d])
      <4>1. \E t, x :
             /\ TreeOK(t) /\ Effect(call[d], s1, t, x) /\ Achieves(proto[d], call[d], s1, t, x)
             /\ A = [rc |-> x.rc, out |-> IF x.rc = "0" THEN OutputOf(t, s1) ELSE {},
                      pwd |-> s1.on]
             /\ W = [See(proto[d], saw[d], t, x.tree) EXCEPT
                       !.touched = saw[d].touched \/ x.tree # t,
                       !.denied = saw[d].denied \/ Denies(call[d], s1, t, x)]
        <5> HIDE DEF A, W, s1
        <5> WITNESS tree, o
        <5> QED
          BY <3>4, <3>5, <3>6 DEF A, W, s1
      <4> QED
        BY <3>3, <4>1 DEF IsServed
    <3> QED
      BY <3>7 DEF MovesOf, Moves
  <2>2. CASE d # c
    <3>1. answer'[d] = answer[d] /\ call'[d] = call[d] /\ result'[d] = result[d]
      BY <1>1, <1>2, <1>7, <2>2
    <3>2. saw'[d] = IF call[d] = Idle THEN saw[d] ELSE See(proto[d], saw[d], tree, o.tree)
      BY <1>11, <2>2
    <3>3. Watches(proto[d], call[d], answer[d], result[d], saw[d],
                  call'[d], answer'[d], result'[d], saw'[d])
      BY <1>10, <3>1, <3>2 DEF Watches
    <3> QED
      BY <3>3 DEF MovesOf, Moves
  <2> QED
    BY <2>1, <2>2
<1>14. DOMAIN answer' = Clients
  BY <1>1, <1>7
<1>15. Around'
  BY <1>0, <1>1, <1>2, <1>10, <1>11, <1>14 DEF Around
<1> QED
  BY <1>2, <1>13, <1>15

\* A request or an answer is lost.
LEMMA FaultMoves ==
  ASSUME Shape, NEW c \in Clients, Unsent(c) \/ Lost(c)
  PROVE  Around' /\ proto' = proto /\ \A d \in Clients : MovesOf(d)
<1>0. Around
  BY DEF Shape
<1>1. /\ call[c] # Idle
      /\ answer' = [answer EXCEPT ![c] = Err]
      /\ saw' = [saw EXCEPT ![c].fault = TRUE]
      /\ UNCHANGED <<proto, tree, session, sftp, link, wrkdir, call, result, calls>>
      /\ faults' = faults \/ (faults < MaxFaults /\ faults' = faults + 1)
  BY DEF Unsent, Lost, Failing, Waiting, conn
<1>2. DOMAIN answer = Clients /\ DOMAIN saw = Clients
  BY <1>0 DEF Around
<1>3. ASSUME NEW d \in Clients PROVE MovesOf(d)
  <2>1. CASE d = c
    <3>1. answer'[d] = Err /\ saw'[d] = [saw[d] EXCEPT !.fault = TRUE]
      BY <1>1, <1>2, <2>1
    <3> QED
      BY <1>1, <2>1, <3>1 DEF MovesOf, Moves, Fails
  <2>2. CASE d # c
    <3>1. answer'[d] = answer[d] /\ saw'[d] = saw[d]
      BY <1>1, <1>2, <2>2
    <3> QED
      BY <1>1, <2>2, <3>1, OthersWatch
  <2> QED
    BY <2>1, <2>2
<1>4. faults' \in 0..MaxFaults
  BY <1>0, <1>1, RemoteFsAssumption DEF Around
<1>5. DOMAIN answer' = Clients /\ DOMAIN saw' = Clients
  BY <1>1, <1>2
<1>6. Around'
  BY <1>0, <1>1, <1>4, <1>5 DEF Around
<1> QED
  BY <1>1, <1>3, <1>6

\* A text ends early.
LEMMA CutMoves ==
  ASSUME Shape, NEW c \in Clients, Cut(c)
  PROVE  Around' /\ proto' = proto /\ \A d \in Clients : MovesOf(d)
<1>0. Around /\ Typed(proto[c], call[c], answer[c], result[c], saw[c])
  BY DEF Shape
<1> DEFINE a == answer[c]
<1>1. /\ call[c] # Idle /\ a \notin {NoAnswer, Err} /\ a.rc = "0"
      /\ faults < MaxFaults /\ faults' = faults + 1
      /\ saw' = [saw EXCEPT ![c].cut = TRUE]
      /\ UNCHANGED <<proto, tree, session, sftp, link, wrkdir, call, result, calls>>
  BY DEF Cut, conn
<1>2. Cuttable(Now(proto[c], call[c]).cmd)
  BY OfOneClient DEF Cut, Cuttable
<1>3. Current(c).on = Now(proto[c], call[c]).on
  BY OfOneClient
<1>4. \/ answer' = [answer EXCEPT ![c] = [a EXCEPT !.rc = "1", !.out = {}]]
      \/ \E x \in PathLeft(Now(proto[c], call[c]).on) : answer' = [answer EXCEPT ![c].pwd = x]
      \/ \E out \in LinesLeft(a.out) : answer' = [answer EXCEPT ![c].out = out]
  BY <1>3 DEF Cut
<1>5. DOMAIN answer = Clients /\ DOMAIN saw = Clients
  BY <1>0 DEF Around
<1>6. ASSUME NEW d \in Clients PROVE MovesOf(d)
  <2>1. CASE d = c
    <3>1. /\ saw'[d] = [saw[d] EXCEPT !.cut = TRUE]
          /\ \/ answer'[d] = [a EXCEPT !.rc = "1", !.out = {}]
             \/ \E x \in PathLeft(Now(proto[c], call[c]).on) : answer'[d] = [a EXCEPT !.pwd = x]
             \/ \E out \in LinesLeft(a.out) : answer'[d] = [a EXCEPT !.out = out]
      BY <1>1, <1>4, <1>5, <2>1
    <3>2. IsCut(proto[d], call[d], answer[d], result[d], saw[d],
                call'[d], answer'[d], result'[d], saw'[d])
      BY <1>1, <1>2, <2>1, <3>1 DEF IsCut
    <3> QED
      BY <3>2 DEF MovesOf, Moves
  <2>2. CASE d # c
    <3>1. answer'[d] = answer[d] /\ saw'[d] = saw[d]
      BY <1>1, <1>4, <1>5, <2>2
    <3> QED
      BY <1>1, <2>2, <3>1, OthersWatch
  <2> QED
    BY <2>1, <2>2
<1>7. faults' \in 0..MaxFaults
  BY <1>0, <1>1, RemoteFsAssumption DEF Around
<1>8. DOMAIN answer' = Clients /\ DOMAIN saw' = Clients
  BY <1>1, <1>4, <1>5
<1>9. Around'
  BY <1>0, <1>1, <1>7, <1>8 DEF Around
<1> QED
  BY <1>1, <1>6, <1>9

\* A link breaks.
LEMMA LinkMoves ==
  ASSUME Shape, NEW c \in Clients, LinkBreaks(c)
  PROVE  Around' /\ proto' = proto /\ \A d \in Clients : MovesOf(d)
<1>1. /\ faults < MaxFaults /\ faults' = faults + 1
      /\ link' = [link EXCEPT ![c] = "down"]
      /\ UNCHANGED <<proto, tree, session, sftp, wrkdir, call, answer, result, saw, calls>>
  BY DEF LinkBreaks
<1>2. \A d \in Clients : MovesOf(d)
  BY <1>1 DEF MovesOf, Moves, Watches
<1>3. Around
  BY DEF Shape
<1>4. faults' \in 0..MaxFaults
  BY <1>1, <1>3, RemoteFsAssumption DEF Around
<1>5. Around'
  BY <1>1, <1>3, <1>4 DEF Around
<1> QED
  BY <1>1, <1>2, <1>5

\* A client takes an answer.
LEMMA TakeMoves ==
  ASSUME Shape, NEW c \in Clients, Take(c)
  PROVE  Around' /\ proto' = proto /\ \A d \in Clients : MovesOf(d)
<1>0. Around /\ Typed(proto[c], call[c], answer[c], result[c], saw[c])
  BY DEF Shape
<1> DEFINE p == proto[c]
           k == call[c]
           a == answer[c]
           n == NotedOf(p, k, a)
           verdict == VerdictOf(p, k, a)
           more == n.step < Len(StepsOf(p, n))
           Ends(kind) ==
               /\ call' = [call EXCEPT ![c] = Idle]
               /\ result' = [result EXCEPT ![c] =
                               Result(n.op, kind, IF kind = "Ok" THEN ValueOf(n, a) ELSE {})]
               /\ wrkdir' = IF n.op = "change_dir" /\ kind = "Ok"
                              THEN [wrkdir EXCEPT ![c] = IF p = "scp" THEN a.pwd ELSE n.a]
                              ELSE wrkdir
<1>1. /\ k # Idle /\ a # NoAnswer
      /\ UNCHANGED <<proto, tree, session, sftp, link, saw, calls, faults>>
      /\ answer' = [answer EXCEPT ![c] = NoAnswer]
  BY DEF Take, conn, bounds, Finish, Proceed
<1>2. /\ Noted(c) = n /\ Verdict(c) = verdict /\ Steps(c, n) = StepsOf(p, n)
      /\ Value(c, n) = ValueOf(n, a)
  BY OfOneClient
<1>3. \/ /\ verdict = GoOn /\ more /\ call' = [call EXCEPT ![c] = [n EXCEPT !.step = @ + 1]]
         /\ result' = result /\ wrkdir' = wrkdir
      \/ verdict = GoOn /\ ~more /\ Ends("Ok")
      \/ verdict # GoOn /\ Ends(verdict)
  <2> HIDE DEF n, verdict
  <2> QED
    BY <1>2 DEF Take, Finish, Proceed, Returns, Result
<1>4. DOMAIN answer = Clients /\ DOMAIN call = Clients /\ DOMAIN result = Clients
      /\ DOMAIN saw = Clients
  BY <1>0 DEF Around
<1>5. p \in {"scp", "sftp"} /\ Busy(p, k) /\ (a = Err \/ AnswerOK(k, a))
  BY <1>0, <1>1 DEF Around, Typed
<1>6. n.op = k.op /\ n.a = k.a /\ k.a \in Seq(Names)
  BY <1>5, NotedTyped DEF Busy, CallsOf
<1>7. k.op = "change_dir" /\ verdict \in {"Ok", GoOn} => a.pwd \in Seq(Names)
  <2>1. Changes(k, Now(p, k))
    BY <1>5, NowSends DEF Sends
  <2>2. k.op = "change_dir" /\ verdict \in {"Ok", GoOn} => a # Err
    BY <2>1 DEF Changes, VerdictOf
  <2> QED
    BY <1>5, <2>2 DEF AnswerOK
<1> HIDE DEF p, k, a, n, verdict, more
<1>8. ASSUME NEW d \in Clients PROVE MovesOf(d)
  <2>1. CASE d = c
    <3>1. /\ answer'[d] = NoAnswer /\ saw'[d] = saw[d]
          /\ \/ verdict = GoOn /\ more /\ call'[d] = [n EXCEPT !.step = @ + 1]
                /\ result'[d] = result[d]
             \/ verdict = GoOn /\ ~more /\ call'[d] = Idle
                /\ result'[d] = Result(n.op, "Ok", ValueOf(n, a))
             \/ verdict # GoOn /\ call'[d] = Idle
                /\ result'[d] = Result(n.op, verdict, IF verdict = "Ok" THEN ValueOf(n, a) ELSE {})
      BY <1>1, <1>3, <1>4, <2>1
    <3>2. Takes(proto[d], call[d], answer[d], result[d], saw[d],
                call'[d], answer'[d], result'[d], saw'[d])
      BY <1>1, <2>1, <3>1 DEF Takes, p, k, a, n, verdict, more
    <3> QED
      BY <3>2 DEF MovesOf, Moves
  <2>2. CASE d # c
    <3>1. answer'[d] = answer[d] /\ saw'[d] = saw[d] /\ call'[d] = call[d]
          /\ result'[d] = result[d]
      BY <1>1, <1>3, <1>4, <2>2
    <3> QED
      BY <2>2, <3>1, OthersWatch
  <2> QED
    BY <2>1, <2>2
<1>9. wrkdir' \in [Clients -> Seq(Names)]
  <2>1. wrkdir \in [Clients -> Seq(Names)]
    BY <1>0 DEF Around
  <2>2. CASE wrkdir' = wrkdir
    BY <2>1, <2>2
  <2>3. CASE wrkdir' # wrkdir
    <3>1. /\ n.op = "change_dir" /\ verdict \in {"Ok", GoOn}
          /\ wrkdir' = [wrkdir EXCEPT ![c] = IF p = "scp" THEN a.pwd ELSE n.a]
      BY <1>3, <2>3
    <3> QED
      BY <1>6, <1>7, <2>1, <3>1
  <2> QED
    BY <2>2, <2>3
<1>10. /\ DOMAIN answer' = Clients /\ DOMAIN call' = Clients /\ DOMAIN result' = Clients
       /\ DOMAIN saw' = Clients
  BY <1>1, <1>3, <1>4
<1>11. \A d \in Clients : call'[d] # Idle => session[d] = "Some"
  <2>1. \A d \in Clients : call'[d] # Idle => call[d] # Idle
    BY <1>1, <1>3, <1>4 DEF k
  <2> QED
    BY <1>0, <2>1 DEF Around
<1>12. Around'
  BY <1>0, <1>1, <1>9, <1>10, <1>11 DEF Around
<1> QED
  BY <1>1, <1>8, <1>12

\* Every step keeps the shape, and moves each client as Moves says.
LEMMA StepMoves ==
  ASSUME Shape, [Next]_vars
  PROVE  Shape' /\ proto' = proto /\ \A d \in Clients : MovesOf(d)
<1>1. Around' /\ proto' = proto /\ \A d \in Clients : MovesOf(d)
  <2>1. CASE UNCHANGED vars
    <3>1. UNCHANGED <<proto, tree, session, sftp, link, wrkdir, call, answer, result, saw,
                      calls, faults>>
      BY <2>1 DEF vars
    <3>2. \A d \in Clients : MovesOf(d)
      BY <3>1 DEF MovesOf, Moves, Watches
    <3>3. Around'
      BY <3>1 DEF Shape, Around
    <3> QED
      BY <3>1, <3>2, <3>3
  <2>2. CASE Next
    BY <2>2, ConnectionMoves, InvokeMoves, TakeMoves, ServeMoves, FaultMoves, CutMoves,
       LinkMoves DEF Next
  <2> QED
    BY <2>1, <2>2
<1>2. ASSUME NEW d \in Clients
      PROVE  Typed(proto[d], call'[d], answer'[d], result'[d], saw'[d])
  <2>1. proto[d] \in {"scp", "sftp"} /\ Typed(proto[d], call[d], answer[d], result[d], saw[d])
    BY DEF Shape, Around
  <2> QED
    BY <1>1, <2>1, MovesTyped DEF MovesOf
<1> QED
  BY <1>1, <1>2 DEF Shape

\* It holds at the start.
LEMMA InitShape ==
  ASSUME Init
  PROVE  Shape
<1>1. Home \in Seq(Names) /\ Root \in Seq(Names)
  BY PathsAreShort, RootIsPath, RemoteFsAssumption
<1>2. Around
  <2>1. proto \in [Clients -> {"scp", "sftp"}] /\ TreeOK(tree)
    BY RemoteFsAssumption DEF Init
  <2>2. calls \in 0..MaxCalls /\ faults \in 0..MaxFaults
    BY RemoteFsAssumption DEF Init
  <2>3. /\ wrkdir \in [Clients -> Seq(Names)]
        /\ DOMAIN call = Clients /\ DOMAIN answer = Clients
        /\ DOMAIN result = Clients /\ DOMAIN saw = Clients
    BY <1>1 DEF Init
  <2>4. \A c \in Clients : sftp[c] = session[c] /\ call[c] = Idle
    BY DEF Init
  <2> QED
    BY <2>1, <2>2, <2>3, <2>4 DEF Init, Around
<1>3. ASSUME NEW d \in Clients
      PROVE  Typed(proto[d], call[d], answer[d], result[d], saw[d])
  BY DEF Init, Typed, NothingSeen
<1> QED
  BY <1>2, <1>3 DEF Shape

\* Where a step leaves the working directory of the client d: only connect and a
\* change_dir that succeeds move it.
Goes(d) ==
    \/ /\ wrkdir'[d] = wrkdir[d]
       /\ call[d] # Idle /\ call'[d] = Idle /\ result'[d].op = "change_dir" =>
             result'[d].kind # "Ok"
    \/ result'[d].op = "connect"
    \/ /\ call[d] # Idle /\ call'[d] = Idle /\ call[d].op = "change_dir"
       /\ answer[d] # NoAnswer /\ answer[d] # Err
       /\ wrkdir'[d] \in {call[d].a, answer[d].pwd}

\* A client takes an answer.
LEMMA TakeGoes ==
  ASSUME Shape, NEW c \in Clients, Take(c)
  PROVE  \A d \in Clients : Goes(d)
<1>0. Around /\ Typed(proto[c], call[c], answer[c], result[c], saw[c])
  BY DEF Shape
<1> DEFINE p == proto[c]
           k == call[c]
           a == answer[c]
           n == NotedOf(p, k, a)
           verdict == VerdictOf(p, k, a)
           Ends(kind) ==
               /\ call' = [call EXCEPT ![c] = Idle]
               /\ \E value : result' = [result EXCEPT ![c] = Result(n.op, kind, value)]
               /\ wrkdir' = IF n.op = "change_dir" /\ kind = "Ok"
                              THEN [wrkdir EXCEPT ![c] = IF p = "scp" THEN a.pwd ELSE n.a]
                              ELSE wrkdir
<1>1. k # Idle /\ a # NoAnswer
  BY DEF Take
<1>2. Noted(c) = n /\ Verdict(c) = verdict
  BY OfOneClient
<1>3. \/ call' = [call EXCEPT ![c] = [n EXCEPT !.step = @ + 1]] /\ wrkdir' = wrkdir
      \/ verdict = GoOn /\ Ends("Ok")
      \/ Ends(verdict)
  <2> HIDE DEF n, verdict
  <2> QED
    BY <1>2 DEF Take, Finish, Proceed, Returns, Result
<1>4. /\ DOMAIN call = Clients /\ DOMAIN result = Clients
      /\ wrkdir \in [Clients -> Seq(Names)]
  BY <1>0 DEF Around
<1>5. p \in {"scp", "sftp"} /\ Busy(p, k) /\ (a = Err \/ AnswerOK(k, a))
  BY <1>0, <1>1 DEF Around, Typed
<1>6. n \in CallsOf(p) /\ n.op = k.op /\ n.a = k.a
  BY <1>5, NotedTyped
<1>7. k.op = "change_dir" /\ verdict \in {"Ok", GoOn} => a # Err
  <2>1. Changes(k, Now(p, k))
    BY <1>5, NowSends DEF Sends
  <2> QED
    BY <2>1 DEF Changes, VerdictOf
<1>8. [n EXCEPT !.step = @ + 1] # Idle
  <2> HIDE DEF n
  <2>1. "step" \in DOMAIN [n EXCEPT !.step = @ + 1] /\ "step" \notin DOMAIN Idle
    BY <1>6 DEF CallsOf, Idle
  <2> QED
    BY <2>1
<1> HIDE DEF p, k, a, n, verdict
<1> SUFFICES ASSUME NEW d \in Clients PROVE Goes(d)
  OBVIOUS
<1>9. CASE wrkdir' = wrkdir /\ call' = [call EXCEPT ![c] = [n EXCEPT !.step = @ + 1]]
  <2>1. ~(call[d] # Idle /\ call'[d] = Idle)
    BY <1>4, <1>8, <1>9
  <2> QED
    BY <1>9, <2>1 DEF Goes
<1>10. ASSUME NEW kind, kind = "Ok" => verdict \in {"Ok", GoOn}, Ends(kind)
       PROVE  Goes(d)
  <2>1. PICK value : result' = [result EXCEPT ![c] = Result(n.op, kind, value)]
    BY <1>10
  <2>2. CASE d # c
    <3>1. wrkdir'[d] = wrkdir[d] /\ call'[d] = call[d]
      BY <1>4, <1>10, <2>2
    <3> QED
      BY <3>1 DEF Goes
  <2>3. CASE d = c /\ n.op = "change_dir" /\ kind = "Ok"
    <3>1. wrkdir'[d] \in {k.a, a.pwd} /\ call'[d] = Idle
      BY <1>4, <1>6, <1>10, <2>3
    <3>2. k.op = "change_dir" /\ k # Idle /\ a # NoAnswer /\ a # Err
      BY <1>1, <1>6, <1>7, <1>10, <2>3
    <3> QED
      BY <2>3, <3>1, <3>2 DEF Goes, k, a
  <2>4. CASE d = c /\ ~(n.op = "change_dir" /\ kind = "Ok")
    <3>1. wrkdir'[d] = wrkdir[d]
      BY <1>10, <2>4
    <3>2. result'[d].op = n.op /\ result'[d].kind = kind
      BY <1>4, <2>1, <2>4 DEF Result
    <3> QED
      BY <2>4, <3>1, <3>2 DEF Goes
  <2> QED
    BY <2>2, <2>3, <2>4
<1> QED
  BY <1>3, <1>9, <1>10

\* And any other step.
LEMMA StepGoes ==
  ASSUME Shape, [Next]_vars
  PROVE  \A d \in Clients : Goes(d)
<1>1. CASE UNCHANGED <<wrkdir, call>>
  <2>1. wrkdir' = wrkdir /\ call' = call
    BY <1>1
  <2> QED
    BY <2>1 DEF Goes
<1>2. ASSUME NEW c \in Clients, ScpConnect(c) \/ SftpConnect(c)
      PROVE  \A d \in Clients : Goes(d)
  <2>1. /\ wrkdir' = [wrkdir EXCEPT ![c] = Home] /\ call' = call
        /\ result' = [result EXCEPT ![c] = Result("connect", "Ok", {})]
    BY <1>2 DEF ScpConnect, SftpConnect, Local, Returns, Result
  <2>2. DOMAIN wrkdir = Clients /\ DOMAIN result = Clients
    BY DEF Shape, Around
  <2>3. ASSUME NEW d \in Clients PROVE Goes(d)
    <3>1. CASE d = c
      <4>1. result'[d].op = "connect"
        BY <2>1, <2>2, <3>1 DEF Result
      <4> QED
        BY <4>1 DEF Goes
    <3>2. CASE d # c
      <4>1. wrkdir'[d] = wrkdir[d] /\ call'[d] = call[d]
        BY <2>1, <2>2, <3>2
      <4> QED
        BY <4>1 DEF Goes
    <3> QED
      BY <3>1, <3>2
  <2> QED
    BY <2>3
<1>3. ASSUME NEW c \in Clients, Invoke(c)
      PROVE  \A d \in Clients : Goes(d)
  <2>1. wrkdir' = wrkdir /\ call[c] = Idle
    BY <1>3 DEF Invoke
  <2>2. DOMAIN call = Clients
    BY DEF Shape, Around
  <2>3. \A d \in Clients : d # c => call'[d] = call[d]
    BY <1>3, <2>2 DEF Invoke
  <2>4. \A d \in Clients : ~(call[d] # Idle /\ call'[d] = Idle)
    BY <2>1, <2>3
  <2> QED
    BY <2>1, <2>4 DEF Goes
<1>4. \/ UNCHANGED <<wrkdir, call>>
      \/ \E c \in Clients : \/ ScpConnect(c) \/ SftpConnect(c) \/ Invoke(c) \/ Take(c)
  <2>1. CASE UNCHANGED vars
    BY <2>1 DEF vars
  <2>2. CASE Next
    BY <2>2 DEF Next, ConnectFails, Disconnect, DisconnectFails, AppendUnsupported, Local,
       Serve, Unsent, Lost, Cut, LinkBreaks
  <2> QED
    BY <2>1, <2>2
<1> QED
  BY <1>1, <1>2, <1>3, <1>4, TakeGoes

\* The types that a run checks are part of it.
LEMMA ShapeTypes ==
  ASSUME Shape
  PROVE  TypeOK
<1>1. ASSUME NEW c \in Clients
      PROVE  /\ session[c] \in {"None", "Some"} /\ sftp[c] \in {"None", "Some"}
             /\ link[c] \in {"up", "down"} /\ wrkdir[c] \in Seq(Names)
             /\ call[c] # Idle =>
                   /\ call[c].op \in Supported(c)
                   /\ call[c].step \in DOMAIN Steps(c, call[c])
                   /\ session[c] = "Some"
                   /\ proto[c] = "sftp" => sftp[c] = "Some"
             /\ answer[c] # NoAnswer => call[c] # Idle
  <2>1. Typed(proto[c], call[c], answer[c], result[c], saw[c])
    BY DEF Shape
  <2>2. call[c] # Idle => /\ call[c].op \in Supported(c)
                          /\ call[c].step \in DOMAIN Steps(c, call[c])
    BY <2>1, OfOneClient DEF Typed, Busy, CallsOf
  <2> QED
    BY <2>1, <2>2 DEF Shape, Around, Typed
<1> QED
  BY <1>1 DEF TypeOK, Shape, Around

-----------------------------------------------------------------------------
(* An error is definite.                                                   *)

\* What the history has of the call in progress.
InCall(p, k, a, r, w) ==
    /\ k # Idle => r = Result(k.op, "none", {}) /\ w.op = k.op /\ w.a = k.a /\ w.b = k.b
                /\ w.target = k.target
    /\ a = Err => w.fault

\* Somebody else's step, or one that touches nothing, adds a look at the most.
LEMMA WatchesKeeps ==
  ASSUME NEW p, NEW k, NEW a, NEW r, NEW w, Typed(p, k, a, r, w),
         NEW k2, NEW a2, NEW r2, NEW w2, Watches(p, k, a, r, w, k2, a2, r2, w2)
  PROVE  /\ w2.op = w.op /\ w2.a = w.a /\ w2.b = w.b /\ w2.target = w.target /\ w2.dir = w.dir
         /\ w2.touched = w.touched /\ w2.fault = w.fault /\ w2.cut = w.cut
         /\ w2.denied = w.denied
<1>1. DOMAIN w = DOMAIN NothingSeen
  BY DEF Typed
<1>2. w2 = w \/ \E t, v : w2 = See(p, w, t, v)
  BY DEF Watches
<1> QED
  BY <1>1, <1>2, StillTold

\* The server's answer.
LEMMA ServedKeeps ==
  ASSUME NEW p, NEW k, NEW a, NEW r, NEW w, Typed(p, k, a, r, w),
         NEW k2, NEW a2, NEW r2, NEW w2, IsServed(p, k, a, r, w, k2, a2, r2, w2)
  PROVE  \E t, o :
           /\ TreeOK(t) /\ Effect(k, Now(p, k), t, o) /\ Achieves(p, k, Now(p, k), t, o)
           /\ a2.rc = o.rc /\ a2.out = (IF o.rc = "0" THEN OutputOf(t, Now(p, k)) ELSE {}) /\ a2 # Err /\ a2 # NoAnswer
           /\ a2.pwd = Now(p, k).on
           /\ w2.op = w.op /\ w2.a = w.a /\ w2.b = w.b /\ w2.target = w.target /\ w2.dir = w.dir
           /\ w2.denied = (w.denied \/ Denies(k, Now(p, k), t, o))
           /\ w2.touched = (w.touched \/ o.tree # t) /\ w2.fault = w.fault /\ w2.cut = w.cut
           /\ w2.missing = See(p, w, t, o.tree).missing /\ w2.present = See(p, w, t, o.tree).present
           /\ w2.ever = See(p, w, t, o.tree).ever /\ w2.always = See(p, w, t, o.tree).always
           /\ w2.post = See(p, w, t, o.tree).post
<1>1. PICK t, o :
          /\ TreeOK(t) /\ Effect(k, Now(p, k), t, o) /\ Achieves(p, k, Now(p, k), t, o)
          /\ a2 = [rc |-> o.rc, out |-> IF o.rc = "0" THEN OutputOf(t, Now(p, k)) ELSE {},
                   pwd |-> Now(p, k).on]
          /\ w2 = [See(p, w, t, o.tree) EXCEPT !.touched = w.touched \/ o.tree # t,
                                              !.denied = w.denied \/ Denies(k, Now(p, k), t, o)]
  BY DEF IsServed
<1>2. DOMAIN w = DOMAIN NothingSeen
  BY DEF Typed
<1>3. DOMAIN See(p, w, t, o.tree) = DOMAIN NothingSeen
  BY <1>2, StillHistory
<1>4. {"touched", "denied"} \subseteq DOMAIN See(p, w, t, o.tree)
  BY <1>3 DEF NothingSeen
<1>5. /\ See(p, w, t, o.tree).op = w.op /\ See(p, w, t, o.tree).a = w.a
      /\ See(p, w, t, o.tree).b = w.b /\ See(p, w, t, o.tree).dir = w.dir
      /\ See(p, w, t, o.tree).target = w.target
      /\ See(p, w, t, o.tree).fault = w.fault /\ See(p, w, t, o.tree).cut = w.cut
  BY <1>2, StillTold
<1> DEFINE u == See(p, w, t, o.tree)
           s == Now(p, k)
<1>6. /\ w2.op = w.op /\ w2.a = w.a /\ w2.b = w.b /\ w2.target = w.target /\ w2.dir = w.dir
      /\ w2.denied = (w.denied \/ Denies(k, s, t, o))
      /\ w2.touched = (w.touched \/ o.tree # t) /\ w2.fault = w.fault /\ w2.cut = w.cut
      /\ w2.missing = u.missing /\ w2.present = u.present /\ w2.ever = u.ever
      /\ w2.always = u.always /\ w2.post = u.post
  <2> HIDE DEF u, s
  <2>1. w2 = [u EXCEPT !.touched = w.touched \/ o.tree # t,
                       !.denied = w.denied \/ Denies(k, s, t, o)]
    BY <1>1 DEF u, s
  <2>2. /\ u.op = w.op /\ u.a = w.a /\ u.b = w.b /\ u.target = w.target /\ u.dir = w.dir
        /\ u.fault = w.fault /\ u.cut = w.cut /\ {"touched", "denied"} \subseteq DOMAIN u
    BY <1>4, <1>5 DEF u
  <2> QED
    BY <1>3, <2>1, <2>2 DEF NothingSeen, u
<1>7. a2.rc = o.rc /\ a2.out = (IF o.rc = "0" THEN OutputOf(t, s) ELSE {}) /\ a2.pwd = s.on /\ a2 # Err /\ a2 # NoAnswer
  <2> HIDE DEF s
  <2>1. a2 = [rc |-> o.rc, out |-> IF o.rc = "0" THEN OutputOf(t, s) ELSE {}, pwd |-> s.on]
    BY <1>1 DEF s
  <2>2. o.rc \in {"0", "1"}
    BY <1>1 DEF Effect, Kept
  <2> QED
    BY <2>1, <2>2 DEF Err, NoAnswer
<1> HIDE DEF u, s
<1>8. TreeOK(t) /\ Effect(k, s, t, o) /\ Achieves(p, k, s, t, o)
  BY <1>1 DEF s
<1> USE DEF u, s
<1> QED
  BY <1>6, <1>7, <1>8

\* A cut answer.
LEMMA CutKeeps ==
  ASSUME NEW p, NEW k, NEW a, NEW r, NEW w, Typed(p, k, a, r, w),
         NEW k2, NEW a2, NEW r2, NEW w2, IsCut(p, k, a, r, w, k2, a2, r2, w2)
  PROVE  /\ k # Idle /\ k2 = k /\ r2 = r /\ AnswerOK(k, a) /\ a.rc = "0"
         /\ a # Err /\ a # NoAnswer /\ a2 # Err /\ a2 # NoAnswer
         /\ Cuttable(Now(p, k).cmd)
         /\ \/ a2.rc = "1" /\ a2.out = {}
            \/ a2.rc = "0" /\ (a2.out = a.out \/ a2.out \in LinesLeft(a.out))
         /\ w2.op = w.op /\ w2.a = w.a /\ w2.b = w.b /\ w2.target = w.target /\ w2.dir = w.dir
         /\ w2.touched = w.touched /\ w2.fault = w.fault /\ w2.cut /\ w2.denied = w.denied
         /\ w2.missing = w.missing /\ w2.present = w.present
         /\ w2.ever = w.ever /\ w2.always = w.always /\ w2.post = w.post
         /\ a2.pwd = a.pwd \/ a2.pwd \in PathLeft(Now(p, k).on)
<1>1. /\ k # Idle /\ k2 = k /\ r2 = r /\ a # NoAnswer /\ a # Err /\ a.rc = "0"
      /\ Cuttable(Now(p, k).cmd) /\ w2 = [w EXCEPT !.cut = TRUE]
      /\ \/ a2 = [a EXCEPT !.rc = "1", !.out = {}]
         \/ \E x \in PathLeft(Now(p, k).on) : a2 = [a EXCEPT !.pwd = x]
         \/ \E out \in LinesLeft(a.out) : a2 = [a EXCEPT !.out = out]
  BY DEF IsCut
<1>2. AnswerOK(k, a) /\ DOMAIN w = DOMAIN NothingSeen
  BY <1>1 DEF Typed
<1>3. DOMAIN a = {"rc", "out", "pwd"}
  BY <1>2 DEF AnswerOK
<1>4. /\ DOMAIN a2 = {"rc", "out", "pwd"}
      /\ \/ a2.rc = "1" /\ a2.out = {}
         \/ a2.rc = "0" /\ (a2.out = a.out \/ a2.out \in LinesLeft(a.out))
      /\ a2.pwd = a.pwd \/ a2.pwd \in PathLeft(Now(p, k).on)
  BY <1>1, <1>3
<1>5. a2 # Err /\ a2 # NoAnswer
  <2>1. DOMAIN Err = {"rc"} /\ DOMAIN NoAnswer = {"rc"}
    BY DEF Err, NoAnswer
  <2> QED
    BY <1>4, <2>1
<1>6. /\ w2.op = w.op /\ w2.a = w.a /\ w2.b = w.b /\ w2.target = w.target /\ w2.dir = w.dir
      /\ w2.touched = w.touched /\ w2.fault = w.fault /\ w2.cut /\ w2.denied = w.denied
      /\ w2.missing = w.missing /\ w2.present = w.present
      /\ w2.ever = w.ever /\ w2.always = w.always /\ w2.post = w.post
  BY <1>1, <1>2 DEF NothingSeen
<1> QED
  BY <1>1, <1>2, <1>4, <1>5, <1>6

\* Every move keeps it.
LEMMA MovesInCall ==
  ASSUME NEW p \in {"scp", "sftp"}, NEW k, NEW a, NEW r, NEW w,
         Typed(p, k, a, r, w), InCall(p, k, a, r, w),
         NEW k2, NEW a2, NEW r2, NEW w2, Moves(p, k, a, r, w, k2, a2, r2, w2)
  PROVE  InCall(p, k2, a2, r2, w2)
<1>0. NoAnswer # Err
  BY DEF NoAnswer, Err
<1>1. CASE Watches(p, k, a, r, w, k2, a2, r2, w2)
  BY <1>1, WatchesKeeps DEF Watches, InCall
<1>2. CASE StaysLocal(p, k, a, r, w, k2, a2, r2, w2)
  BY <1>0, <1>2 DEF StaysLocal, Typed, InCall
<1>3. CASE Begins(p, k, a, r, w, k2, a2, r2, w2)
  <2>1. PICK op, x, y, target, t :
          /\ w2 = FirstLookOf(p, op, x, y, target, t)
          /\ \/ k2 = Idle
             \/ k2 = NewCall(op, x, y, target) /\ r2 = Result(op, "none", {})
    BY <1>3 DEF Begins
  <2>2. w2.op = op /\ w2.a = x /\ w2.b = y /\ w2.target = target
    BY <2>1, TheFirstLook
  <2>3. k2 = NewCall(op, x, y, target) =>
              k2.op = op /\ k2.a = x /\ k2.b = y /\ k2.target = target
    BY DEF NewCall
  <2>4. a2 # Err
    BY <1>0, <1>3 DEF Begins, Typed
  <2> QED
    BY <2>1, <2>2, <2>3, <2>4 DEF InCall
<1>4. CASE IsServed(p, k, a, r, w, k2, a2, r2, w2)
  <2>1. /\ w2.op = w.op /\ w2.a = w.a /\ w2.b = w.b /\ w2.target = w.target /\ a2 # Err
    BY <1>4, ServedKeeps
  <2> QED
    BY <1>4, <2>1 DEF IsServed, InCall
<1>5. CASE Fails(p, k, a, r, w, k2, a2, r2, w2)
  <2>1. DOMAIN w = DOMAIN NothingSeen /\ w2 = [w EXCEPT !.fault = TRUE] /\ k2 = k /\ r2 = r
    BY <1>5 DEF Fails, Typed
  <2>2. /\ w2.op = w.op /\ w2.a = w.a /\ w2.b = w.b /\ w2.target = w.target /\ w2.fault
    BY <2>1 DEF NothingSeen
  <2> QED
    BY <2>1, <2>2 DEF InCall
<1>6. CASE IsCut(p, k, a, r, w, k2, a2, r2, w2)
  <2>1. k2 = k /\ r2 = r /\ a2 # Err
        /\ w2.op = w.op /\ w2.a = w.a /\ w2.b = w.b /\ w2.target = w.target
    BY <1>6, CutKeeps
  <2> QED
    BY <2>1 DEF InCall
<1>7. CASE Takes(p, k, a, r, w, k2, a2, r2, w2)
  <2> DEFINE n == NotedOf(p, k, a)
  <2>1. k # Idle /\ Busy(p, k) /\ (a = Err \/ AnswerOK(k, a)) /\ a2 = NoAnswer /\ w2 = w
    BY <1>7 DEF Takes, Typed
  <2>2. k2 = Idle \/ (k2 = [n EXCEPT !.step = @ + 1] /\ r2 = r)
    BY <1>7 DEF Takes
  <2>3. n \in CallsOf(p) /\ n.op = k.op /\ n.a = k.a /\ n.b = k.b /\ n.target = k.target
    BY <2>1, NotedTyped
  <2> HIDE DEF n
  <2>4. k2 # Idle => /\ k2.op = k.op /\ k2.a = k.a /\ k2.b = k.b /\ k2.target = k.target
                      /\ r2 = r
    BY <2>2, <2>3 DEF CallsOf
  <2> QED
    BY <1>0, <2>1, <2>4 DEF InCall
<1> QED
  BY <1>1, <1>2, <1>3, <1>4, <1>5, <1>6, <1>7 DEF Moves

\* A request whose status may have been cut looks.
LEMMA CutsLook ==
  ASSUME NEW cmd, Cuttable(cmd)
  PROVE  Looks(cmd)
BY DEF Cuttable, Looks

\* A call that has changed the tree has had an answer to the request that does, or
\* lost it; a result is an error only as DefiniteErrors says.
Definite(p, k, a, r, w) ==
    /\ k # Idle /\ w.touched =>
          /\ ~Looks(Now(p, k).cmd) /\ a # NoAnswer
          /\ k.op \notin Half => a = Err \/ a.rc = "0"
    /\ r.kind \notin {"none", "Ok"} /\ w.touched /\ <<r.op, r.kind>> \notin Partial =>
          /\ w.fault
          /\ r.kind = "ProtocolError" \/ <<r.op, r.kind>> \in Vague(p)

\* Every move keeps it.
LEMMA MovesDefinite ==
  ASSUME NEW p \in {"scp", "sftp"}, NEW k, NEW a, NEW r, NEW w,
         Typed(p, k, a, r, w), InCall(p, k, a, r, w), Definite(p, k, a, r, w),
         NEW k2, NEW a2, NEW r2, NEW w2, Moves(p, k, a, r, w, k2, a2, r2, w2)
  PROVE  Definite(p, k2, a2, r2, w2)
<1>0. NoAnswer # Err
  BY DEF NoAnswer, Err
<1>1. CASE Watches(p, k, a, r, w, k2, a2, r2, w2)
  BY <1>1, WatchesKeeps DEF Watches, Definite
<1>2. CASE StaysLocal(p, k, a, r, w, k2, a2, r2, w2)
  <2>1. ~w2.touched
    BY <1>2 DEF StaysLocal, NothingSeen
  <2> QED
    BY <2>1 DEF Definite
<1>3. CASE Begins(p, k, a, r, w, k2, a2, r2, w2)
  <2>1. ~w2.touched
    BY <1>3, TheFirstLook DEF Begins
  <2> QED
    BY <2>1 DEF Definite
<1>4. CASE IsServed(p, k, a, r, w, k2, a2, r2, w2)
  <2>1. PICK t, o :
           /\ TreeOK(t) /\ Effect(k, Now(p, k), t, o)
           /\ a2.rc = o.rc /\ a2 # NoAnswer
           /\ w2.touched = (w.touched \/ o.tree # t)
    BY <1>4, ServedKeeps
  <2>2. k # Idle /\ a = NoAnswer /\ k2 = k /\ r2 = r /\ Busy(p, k)
    BY <1>4 DEF IsServed, Typed
  <2>3. r2.kind = "none"
    BY <2>2 DEF InCall, Result
  <2>4. ASSUME w2.touched
        PROVE  ~Looks(Now(p, k).cmd) /\ (k.op \notin Half => a2.rc = "0")
    <3>1. ~w.touched
      BY <1>0, <2>2, <2>4 DEF Definite
    <3>2. o.tree # t
      BY <2>1, <2>4, <3>1
    <3>3. ~Looks(Now(p, k).cmd)
      BY <2>1, <3>2 DEF Effect
    <3>4. k.op \notin Half => ~HalfWay(Now(p, k).cmd)
      BY <2>2, <2>4, <3>3, NowSends DEF Sends, EndsMethod
    <3>5. k.op \notin Half => o.rc = "0"
      BY <2>1, <3>2, <3>4 DEF Effect, Clean, Kept
    <3> QED
      BY <2>1, <3>3, <3>5
  <2> QED
    BY <2>1, <2>2, <2>3, <2>4 DEF Definite
<1>5. CASE Fails(p, k, a, r, w, k2, a2, r2, w2)
  <2>1. DOMAIN w = DOMAIN NothingSeen /\ w2 = [w EXCEPT !.fault = TRUE] /\ k2 = k /\ r2 = r
        /\ a2 = Err
    BY <1>5 DEF Fails, Typed
  <2>2. w2.touched = w.touched /\ w2.fault
    BY <2>1 DEF NothingSeen
  <2> QED
    BY <1>0, <2>1, <2>2 DEF Definite
<1>6. CASE IsCut(p, k, a, r, w, k2, a2, r2, w2)
  <2>1. k # Idle /\ k2 = k /\ r2 = r /\ w2.touched = w.touched /\ w2.fault = w.fault
        /\ Cuttable(Now(p, k).cmd)
    BY <1>6, CutKeeps
  <2>2. Looks(Now(p, k).cmd)
    BY <2>1, CutsLook
  <2>3. ~w.touched
    BY <2>1, <2>2 DEF Definite
  <2> QED
    BY <2>1, <2>3 DEF Definite
<1>7. CASE Takes(p, k, a, r, w, k2, a2, r2, w2)
  <2> DEFINE n == NotedOf(p, k, a)
             s == Now(p, k)
             verdict == VerdictOf(p, k, a)
  <2>1. k # Idle /\ Busy(p, k) /\ (a = Err \/ AnswerOK(k, a)) /\ a2 = NoAnswer /\ w2 = w
    BY <1>7 DEF Takes, Typed
  <2>2. \/ verdict = GoOn /\ k2 = [n EXCEPT !.step = @ + 1] /\ r2 = r
        \/ verdict = GoOn /\ k2 = Idle /\ \E value : r2 = Result(n.op, "Ok", value)
        \/ verdict # GoOn /\ k2 = Idle /\ \E value : r2 = Result(n.op, verdict, value)
    BY <1>7 DEF Takes
  <2>3. n \in CallsOf(p) /\ n.op = k.op
    BY <2>1, NotedTyped
  <2>4. r.kind = "none"
    BY <2>1 DEF InCall, Result
  <2>5. Sends(p, k, s, k.step)
    BY <2>1, NowSends
  <2> HIDE DEF n, s, verdict
  <2>8. ASSUME w.touched
        PROVE  k2 = Idle /\ (r2.kind \notin {"none", "Ok"} /\ <<r2.op, r2.kind>> \notin Partial =>
                   w.fault /\ (r2.kind = "ProtocolError" \/ <<r2.op, r2.kind>> \in Vague(p)))
    <3>1. ~Looks(s.cmd) /\ (k.op \notin Half => a = Err \/ a.rc = "0")
      BY <2>1, <2>8 DEF Definite, s
    <3>2. /\ s.ok = "Ok" /\ s.file = "Ok" /\ s.broken # GoOn /\ s.refused # GoOn
          /\ s.broken = "ProtocolError" \/ <<k.op, s.broken>> \in Vague(p)
          /\ k.op \in Half => <<k.op, s.refused>> \in Partial
      BY <2>5, <2>8, <3>1 DEF Sends, EndsMethod
    <3>3. /\ verdict = IF a = Err THEN s.broken ELSE IF a.rc # "0" THEN s.refused ELSE "Ok"
          /\ a = Err \/ a.rc = "0" \/ k.op \in Half
      BY <3>1, <3>2 DEF VerdictOf, SaysNo, Looks, verdict, s
    <3>4. "Ok" # GoOn
      BY DEF GoOn, Scp!GoOn
    <3>5. k2 = Idle /\ \E value : r2 = Result(n.op, verdict, value)
      BY <2>2, <3>2, <3>3, <3>4
    <3>6. r2.kind = verdict /\ r2.op = k.op
      BY <2>3, <3>5 DEF Result
    <3>7. a = Err => w.fault
      BY DEF InCall
    <3> QED
      BY <3>2, <3>3, <3>5, <3>6, <3>7
  <2> QED
    BY <2>1, <2>8 DEF Definite
<1> QED
  BY <1>1, <1>2, <1>3, <1>4, <1>5, <1>6, <1>7 DEF Moves

-----------------------------------------------------------------------------
(* Lookups are honest.                                                     *)

\* What only grows during a call.
Grows(w, u) ==
    /\ u.op = w.op /\ u.a = w.a /\ u.b = w.b /\ u.dir = w.dir
    /\ w.missing => u.missing
    /\ w.present => u.present
    /\ w.fault => u.fault
    /\ w.cut => u.cut
    /\ w.denied => u.denied
    /\ w.post => u.post
    /\ w.touched => u.touched

\* A look adds to what was seen.
LEMMA SeeGrows ==
  ASSUME NEW p, NEW w, DOMAIN w = DOMAIN NothingSeen, NEW t, NEW v
  PROVE  Grows(w, See(p, w, t, v))
<1> DEFINE u == See(p, w, t, v)
<1>1. u.op = w.op /\ u.a = w.a /\ u.b = w.b /\ u.dir = w.dir /\ u.fault = w.fault
      /\ u.cut = w.cut /\ u.touched = w.touched /\ u.denied = w.denied
  BY StillTold
<1>2. (w.missing => u.missing) /\ (w.present => u.present) /\ (w.post => u.post)
  BY StillSeen
<1> HIDE DEF u
<1> QED
  BY <1>1, <1>2 DEF Grows, u

\* While a call waits for its answer its history only grows.
LEMMA HistoryGrows ==
  ASSUME NEW p, NEW k, NEW a, NEW r, NEW w, Typed(p, k, a, r, w),
         NEW k2, NEW a2, NEW r2, NEW w2,
         \/ Watches(p, k, a, r, w, k2, a2, r2, w2) \/ IsServed(p, k, a, r, w, k2, a2, r2, w2)
         \/ Fails(p, k, a, r, w, k2, a2, r2, w2) \/ IsCut(p, k, a, r, w, k2, a2, r2, w2)
  PROVE  Grows(w, w2) /\ k2 = k /\ r2 = r
<1>0. DOMAIN w = DOMAIN NothingSeen
  BY DEF Typed
<1>1. CASE Watches(p, k, a, r, w, k2, a2, r2, w2)
  <2>1. k2 = k /\ r2 = r /\ (w2 = w \/ \E t, v : w2 = See(p, w, t, v))
    BY <1>1 DEF Watches
  <2>2. Grows(w, w)
    BY DEF Grows
  <2> QED
    BY <1>0, <2>1, <2>2, SeeGrows
<1>2. CASE IsServed(p, k, a, r, w, k2, a2, r2, w2)
  <2>1. PICK t, o :
           /\ w2.op = w.op /\ w2.a = w.a /\ w2.b = w.b /\ w2.dir = w.dir
           /\ w2.touched = (w.touched \/ o.tree # t) /\ w2.fault = w.fault /\ w2.cut = w.cut
           /\ w2.denied = (w.denied \/ Denies(k, Now(p, k), t, o))
           /\ w2.missing = See(p, w, t, o.tree).missing
           /\ w2.present = See(p, w, t, o.tree).present
           /\ w2.post = See(p, w, t, o.tree).post
    BY <1>2, ServedKeeps
  <2>2. /\ w.missing => See(p, w, t, o.tree).missing
        /\ w.present => See(p, w, t, o.tree).present
        /\ w.post => See(p, w, t, o.tree).post
    BY <1>0, StillSeen
  <2> QED
    BY <1>2, <2>1, <2>2 DEF Grows, IsServed
<1>3. CASE Fails(p, k, a, r, w, k2, a2, r2, w2)
  <2>1. w2 = [w EXCEPT !.fault = TRUE] /\ k2 = k /\ r2 = r
    BY <1>3 DEF Fails
  <2> QED
    BY <1>0, <2>1 DEF Grows, NothingSeen
<1>4. CASE IsCut(p, k, a, r, w, k2, a2, r2, w2)
  BY <1>4, CutKeeps DEF Grows
<1> QED
  BY <1>1, <1>2, <1>3, <1>4

\* What may be read as a missing file.
MaskedBy(p, op, w) ==
    \/ w.cut \/ w.denied
    \/ w.fault /\ (p = "sftp" \/ op \notin {"exists", "stat", "change_dir"})

\* What a result says was so.
HonestResult(p, r, w) ==
    /\ r.op = "exists" /\ r.value = {Found("true")} => w.present
    /\ r.op = "exists" /\ r.value = {Found("false")} => w.missing \/ MaskedBy(p, r.op, w)
    /\ r.kind = "DirectoryAlreadyExists" => w.present
    /\ r.kind = "BadFile" => w.missing
    /\ SaysMissing(r, r.kind) => w.missing \/ MaskedBy(p, r.op, w)

\* What an answer says was so.
HonestAnswer(p, k, a, w) ==
    LET s == Now(p, k)
    IN  k # Idle /\ a # NoAnswer /\ a # Err =>
          /\ Probes(s.cmd) /\ s.on = k.a /\ a.rc = "0" => w.present
          /\ (SaysMissing(k, s.refused) \/ k.op = "exists") /\ SaysNo(s, a) => w.missing \/ w.cut \/ w.denied
          /\ s.file # s.ok /\ a.rc = "0" /\ a.out # {Found("dir")} => w.missing
          /\ TestDir(s.cmd) /\ a.rc # "0" => ~w.dir \/ w.missing \/ w.denied

\* stat of the SCP client that asks for the entry itself has found no directory, or
\* one that was none before.
HonestProbe(p, k, w) ==
    k # Idle /\ k.op = "stat" /\ p = "scp" /\ k.step # 1 /\ ~k.dir =>
        ~w.dir \/ w.missing \/ w.denied

Honest(p, k, a, r, w) ==
    HonestResult(p, r, w) /\ HonestAnswer(p, k, a, w) /\ HonestProbe(p, k, w)

\* More history does no harm.
LEMMA HonestGrows ==
  ASSUME NEW p, NEW k, NEW a, NEW r, NEW w, Honest(p, k, a, r, w), NEW u, Grows(w, u)
  PROVE  HonestResult(p, r, u) /\ HonestAnswer(p, k, a, u) /\ HonestProbe(p, k, u)
<1>1. MaskedBy(p, r.op, w) => MaskedBy(p, r.op, u)
  BY DEF MaskedBy, Grows
<1>2. HonestResult(p, r, u)
  BY <1>1 DEF Honest, HonestResult, Grows
<1>3. HonestAnswer(p, k, a, u)
  BY DEF Honest, HonestAnswer, Grows
<1>4. HonestProbe(p, k, u)
  BY DEF Honest, HonestProbe, Grows
<1> QED
  BY <1>2, <1>3, <1>4

\* The requests that look, and which of them may be cut.
LEMMA ProbesLook ==
  ASSUME NEW cmd, Probes(cmd) \/ Enters(cmd) \/ LsL(cmd) \/ TestDir(cmd)
  PROVE  Looks(cmd) /\ (TestDir(cmd) => Enters(cmd)) /\ (Probes(cmd) => ~Cuttable(cmd))
         /\ (TestDir(cmd) => ~Cuttable(cmd) /\ ~LsL(cmd))
BY DEF Probes, Enters, LsL, TestDir, Looks, Cuttable

\* An answer says what the tree is like.
LEMMA ServedHonest ==
  ASSUME NEW p \in {"scp", "sftp"}, NEW k, NEW a, NEW r, NEW w,
         Typed(p, k, a, r, w), InCall(p, k, a, r, w), Honest(p, k, a, r, w),
         NEW k2, NEW a2, NEW r2, NEW w2, IsServed(p, k, a, r, w, k2, a2, r2, w2)
  PROVE  HonestAnswer(p, k2, a2, w2)
<1> DEFINE s == Now(p, k)
<1>1. PICK t, o :
           /\ TreeOK(t) /\ Effect(k, s, t, o)
           /\ a2.rc = o.rc /\ a2.out = IF o.rc = "0" THEN OutputOf(t, s) ELSE {}
           /\ w2.denied = (w.denied \/ Denies(k, s, t, o))
           /\ w2.dir = w.dir
           /\ w2.missing = See(p, w, t, o.tree).missing /\ w2.present = See(p, w, t, o.tree).present
  BY ServedKeeps
<1>2. k # Idle /\ k2 = k /\ Busy(p, k) /\ DOMAIN w = DOMAIN NothingSeen /\ w.dir \in BOOLEAN
  BY DEF IsServed, Typed
<1>3. Sends(p, k, s, k.step)
  BY <1>2, NowSends
<1>4. w.op = k.op /\ w.a = k.a /\ w.b = k.b
  BY <1>2 DEF InCall
<1> HIDE DEF s
<1>5. Probes(s.cmd) \/ Enters(s.cmd) \/ LsL(s.cmd) \/ TestDir(s.cmd) => o.tree = t
  BY <1>1, ProbesLook DEF Effect
<1>6. /\ o.tree = t /\ Missing(p, w, t) => w2.missing
      /\ o.tree = t /\ TestE(t, w.a) => w2.present
      /\ w.missing => w2.missing
  BY <1>1, <1>2, StillSeen
<1>7. Probes(s.cmd) /\ s.on = k.a /\ a2.rc = "0" => w2.present
  BY <1>1, <1>4, <1>5, <1>6 DEF Effect, Says
<1>11. o.rc # "0" /\ ~Denies(k, s, t, o) =>
          /\ Probes(s.cmd) => ~TestE(t, s.on)
          /\ Enters(s.cmd) => ~TestD(t, s.on)
          /\ LsL(s.cmd) => ~Lists(t, k)
  BY <1>1 DEF Effect, Says
<1>12. LsL(s.cmd) /\ o.rc = "0" => Lists(t, k)
  BY <1>1 DEF Effect, Says
<1>8. ASSUME SaysMissing(k, s.refused) \/ k.op = "exists", SaysNo(s, a2), ~w2.denied
      PROVE  w2.missing
  <2>0. ~Denies(k, s, t, o) /\ ~w.denied
    BY <1>1, <1>8
  <2>9. ~LsL(s.cmd) => o.rc # "0"
    BY <1>1, <1>8 DEF SaysNo, LsL
  <2>10. (Probes(s.cmd) \/ Enters(s.cmd)) => ~LsL(s.cmd)
    BY DEF Probes, Enters, LsL
  <2>1. ~TestE(t, s.on) => ~TestD(t, s.on)
    BY DEF TestD
  <2>2. CASE k.op = "exists"
    <3>1. Probes(s.cmd) /\ s.on = k.a
      BY <1>3, <2>2 DEF Sends, AsksExists
    <3>2. o.tree = t /\ ~TestE(t, w.a)
      BY <1>4, <1>5, <1>11, <2>0, <2>9, <2>10, <3>1
    <3> QED
      BY <1>4, <1>6, <2>2, <3>2 DEF Missing
  <2>3. CASE k.op = "symlink" /\ Probes(s.cmd) /\ s.on = k.b
    <3>1. o.tree = t /\ ~TestE(t, w.b)
      BY <1>4, <1>5, <1>11, <2>0, <2>9, <2>10, <2>3
    <3> QED
      BY <1>4, <1>6, <2>3, <3>1 DEF Missing
  <2>4. CASE k.op = "change_dir" /\ (Probes(s.cmd) \/ Enters(s.cmd)) /\ s.on = k.a
    <3>1. o.tree = t /\ ~TestD(t, w.a)
      BY <1>4, <1>5, <1>11, <2>0, <2>1, <2>4, <2>9, <2>10
    <3> QED
      BY <1>4, <1>6, <2>4, <3>1 DEF Missing
  <2>5. CASE k.op = "list_dir" /\ p = "sftp" /\ Enters(s.cmd) /\ s.on = k.a
    <3>1. o.tree = t /\ ~TestD(t, w.a)
      BY <1>4, <1>5, <1>11, <2>0, <2>9, <2>10, <2>5
    <3> QED
      BY <1>4, <1>6, <2>5, <3>1 DEF Missing
  <2>6. CASE k.op = "stat" /\ p = "scp" /\ LsL(s.cmd) /\ s.on = k.a
    <3>1. o.tree = t /\ s.on \in Seq(Names)
      BY <1>3, <1>5, <2>6 DEF Sends
    <3>3. k.step # 1
      BY <1>3, <2>6, ProbesLook DEF Sends, StatsTwice
    <3>4. ~k.dir => ~w.dir \/ w.missing
      BY <1>2, <2>0, <2>6, <3>3 DEF Honest, HonestProbe
    <3>5. CASE ~Lists(t, k)
      <4>1. Entry(t, w.a) = None \/ (~k.dir /\ TestD(t, w.a))
        BY <1>4, <3>5 DEF Lists
      <4>2. Entry(t, w.a) = None \/ w.missing \/ TestD(t, w.a) # w.dir
        BY <3>4, <4>1
      <4> QED
        BY <1>4, <1>6, <2>6, <3>1, <4>2 DEF Missing
    <3>6. CASE Lists(t, k)
      <4>1. o.rc = "0"
        BY <1>11, <2>0, <2>6, <3>6
      <4>2. Readable(OutputOf(t, s)) = {}
        BY <1>1, <1>8, <4>1 DEF SaysNo
      <4>3. OutputOf(t, s) = {Found(IF s.on = Root THEN "dir" ELSE Shown(t, Place(t, s.on)))}
        BY <2>6 DEF OutputOf, LsL
      <4>4. Found(IF s.on = Root THEN "dir" ELSE Shown(t, Place(t, s.on))).kind = "odd"
        BY <4>2, <4>3 DEF Readable
      <4>5. s.on # Root /\ Shown(t, Place(t, s.on)) = "odd"
        BY <4>4 DEF Found
      <4> QED
        BY <1>4, <1>6, <2>6, <3>1, <4>5 DEF Missing
    <3> QED
      BY <3>5, <3>6
  <2>7. CASE /\ k.op \notin {"symlink", "change_dir"}
             /\ ~(k.op \in {"list_dir"} /\ p = "sftp") /\ ~(k.op = "stat" /\ p = "scp")
             /\ Probes(s.cmd) /\ s.on = k.a
    <3>1. o.tree = t /\ ~TestE(t, w.a)
      BY <1>4, <1>5, <1>11, <2>0, <2>9, <2>10, <2>7
    <3> QED
      BY <1>4, <1>6, <2>7, <3>1 DEF Missing
  <2> QED
    BY <1>3, <1>8, <2>2, <2>3, <2>4, <2>5, <2>6, <2>7 DEF Sends, FindsMissing
<1>9. ASSUME s.file # s.ok, a2.rc = "0", a2.out # {Found("dir")}
      PROVE  w2.missing
  <2>1. p = "sftp" /\ k.op = "change_dir" /\ s.cmd = "stat" /\ s.on = k.a
    BY <1>3, <1>9 DEF Sends, FindsTaken
  <2>2. Probes(s.cmd)
    BY <2>1 DEF Probes
  <2>3. TestE(t, k.a) /\ o.tree = t
    BY <1>1, <1>5, <1>9, <2>1, <2>2 DEF Effect, Says
  <2>4. OutputOf(t, s) = {Found(t[Real(t, k.a)].kind)}
    BY <2>1, StatOutput
  <2>5. t[Real(t, k.a)] # Dir
    BY <1>1, <1>9, <2>4 DEF Dir
  <2>6. ~TestD(t, w.a)
    BY <1>4, <2>5 DEF TestD
  <2> QED
    BY <1>4, <1>6, <2>1, <2>3, <2>6 DEF Missing
<1>10. ASSUME TestDir(s.cmd), a2.rc # "0", ~w2.denied PROVE ~w2.dir \/ w2.missing
  <2>1. k.op = "stat" /\ p = "scp" /\ s.on = k.a
    BY <1>3, <1>10 DEF Sends, StatsTwice, TestDir, LsL
  <2>2. Enters(s.cmd) /\ o.tree = t
    BY <1>5, <1>10, ProbesLook
  <2>3. ~TestD(t, w.a)
    BY <1>1, <1>4, <1>10, <1>11, <2>1, <2>2
  <2>4. w.dir => TestD(t, w.a) # w.dir
    BY <2>3
  <2> QED
    BY <1>1, <1>4, <1>6, <2>1, <2>2, <2>4 DEF Missing
<1> QED
  BY <1>2, <1>7, <1>8, <1>9, <1>10 DEF HonestAnswer, s

\* The result that an answer makes.
LEMMA TakenHonest ==
  ASSUME NEW p \in {"scp", "sftp"}, NEW k, NEW a, NEW r, NEW w,
         Typed(p, k, a, r, w), InCall(p, k, a, r, w), Honest(p, k, a, r, w),
         NEW k2, NEW a2, NEW r2, NEW w2, Takes(p, k, a, r, w, k2, a2, r2, w2)
  PROVE  HonestResult(p, r2, w) /\ HonestProbe(p, k2, w)
<1> DEFINE n == NotedOf(p, k, a)
           s == Now(p, k)
           verdict == VerdictOf(p, k, a)
<1>1. k # Idle /\ Busy(p, k) /\ (a = Err \/ AnswerOK(k, a)) /\ a # NoAnswer
  BY DEF Takes, Typed
<1>2. \/ verdict = GoOn /\ k2 = [n EXCEPT !.step = @ + 1] /\ r2 = r
      \/ /\ k2 = Idle
         /\ \/ verdict \in {GoOn, "Ok"} /\ r2 = Result(n.op, "Ok", ValueOf(n, a))
            \/ verdict \notin {GoOn, "Ok"} /\ r2 = Result(n.op, verdict, {})
  BY DEF Takes
<1>3. n \in CallsOf(p) /\ n.op = k.op /\ n.step = k.step
      /\ n.dir = IF TestDir(s.cmd) THEN a.rc = "0" ELSE k.dir
  BY <1>1, NotedTyped
<1>4. Sends(p, k, s, k.step)
  BY <1>1, NowSends
<1>5. a = Err => w.fault /\ verdict = s.broken /\ a.rc = "err"
  BY DEF InCall, VerdictOf, Err
<1>6. a # Err => /\ SaysNo(s, a) => verdict = s.refused
                 /\ ~SaysNo(s, a) => verdict = s.ok \/ (verdict = s.file /\ s.file # s.ok
                                                         /\ a.out # {Found("dir")})
                 /\ a.rc \in {"0", "1"}
  BY <1>1 DEF VerdictOf, AnswerOK
<1>13. a.rc # "0" => SaysNo(s, a)
  BY DEF SaysNo
<1>7. HonestResult(p, r, w) /\ HonestAnswer(p, k, a, w) /\ HonestProbe(p, k, w)
  BY DEF Honest
<1> HIDE DEF n, s, verdict
<1>8. /\ a # Err /\ Probes(s.cmd) /\ s.on = k.a /\ a.rc = "0" => w.present
      /\ a # Err /\ (SaysMissing(k, s.refused) \/ k.op = "exists") /\ SaysNo(s, a) =>
            w.missing \/ w.cut \/ w.denied
      /\ a # Err /\ s.file # s.ok /\ a.rc = "0" /\ a.out # {Found("dir")} => w.missing
      /\ a # Err /\ TestDir(s.cmd) /\ a.rc # "0" => ~w.dir \/ w.missing \/ w.denied
  BY <1>1, <1>7 DEF HonestAnswer, s
<1>9. HonestProbe(p, k2, w)
  <2> SUFFICES ASSUME k2 # Idle, k2.op = "stat", p = "scp", k2.step # 1, ~k2.dir
               PROVE  ~w.dir \/ w.missing \/ w.denied
    BY DEF HonestProbe
  <2>1. verdict = GoOn /\ k2 = [n EXCEPT !.step = @ + 1]
    BY <1>2
  <2>2. k2.op = k.op /\ k2.dir = n.dir
    BY <1>3, <2>1 DEF CallsOf
  <2>3. CASE k.step = 1
    <3>1. TestDir(s.cmd) /\ s.broken # GoOn
      BY <1>4, <2>2, <2>3 DEF Sends, StatsTwice
    <3>2. a # Err
      BY <1>5, <2>1, <3>1
    <3>3. a.rc # "0"
      BY <1>3, <2>2, <3>1
    <3> QED
      BY <1>8, <3>1, <3>2, <3>3
  <2>4. CASE k.step # 1
    <3>1. ~TestDir(s.cmd)
      BY <1>4, <2>2, <2>4, ProbesLook DEF Sends, StatsTwice
    <3> QED
      BY <1>1, <1>3, <1>7, <2>2, <2>4, <3>1 DEF HonestProbe
  <2> QED
    BY <2>3, <2>4
<1>10. CASE r2 = r
  BY <1>7, <1>9, <1>10
<1>11. CASE verdict \in {GoOn, "Ok"} /\ r2 = Result(n.op, "Ok", ValueOf(n, a))
  <2>1. r2.op = k.op /\ r2.kind = "Ok" /\ r2.value = ValueOf(n, a)
    BY <1>3, <1>11 DEF Result
  <2>2. ASSUME k.op = "exists"
        PROVE  /\ r2.value = {Found("true")} => w.present
               /\ r2.value = {Found("false")} => w.missing \/ MaskedBy(p, "exists", w)
    <3>1. r2.value = {Found(IF a.rc = "0" THEN "true" ELSE "false")}
      BY <1>3, <2>1, <2>2 DEF ValueOf
    <3>2. (r2.value = {Found("true")} => a.rc = "0") /\ (r2.value = {Found("false")} => a.rc # "0")
      <4>1. Found("true") # Found("false")
        <5>1. Found("true").kind = "true" /\ Found("false").kind = "false"
          BY DEF Found
        <5> QED
          BY <5>1
      <4> QED
        BY <3>1, <4>1
    <3>3. /\ Probes(s.cmd) /\ s.on = k.a
          /\ s.broken = IF p = "scp" THEN "StatFailed" ELSE "Ok"
      BY <1>4, <2>2 DEF Sends, AsksExists
    <3>4. a = Err => p = "sftp" /\ w.fault
      BY <1>5, <1>11, <3>3 DEF GoOn, Scp!GoOn
    <3> QED
      BY <1>5, <1>8, <1>13, <2>2, <3>2, <3>3, <3>4 DEF MaskedBy
  <2> QED
    BY <1>9, <2>1, <2>2 DEF HonestResult, SaysMissing
<1>12. CASE verdict \notin {GoOn, "Ok"} /\ r2 = Result(n.op, verdict, {})
  <2>1. r2.op = k.op /\ r2.kind = verdict /\ r2.value = {}
    BY <1>3, <1>12 DEF Result
  <2>2. FindsTaken(p, k, s) /\ FindsMissing(p, k, s)
    BY <1>4 DEF Sends
  <2>3. verdict = "DirectoryAlreadyExists" => w.present
    BY <1>5, <1>6, <1>8, <1>13, <2>2 DEF FindsTaken
  <2>4. verdict = "BadFile" => w.missing
    BY <1>5, <1>6, <1>8, <1>13, <2>2 DEF FindsTaken
  <2>5. SaysMissing(k, verdict) => w.missing \/ MaskedBy(p, k.op, w)
    <3>1. CASE a = Err
      BY <1>5, <2>2, <3>1 DEF FindsMissing, MaskedBy
    <3>2. CASE a # Err
      BY <1>6, <1>8, <1>13, <2>2, <3>2 DEF FindsMissing, MaskedBy
    <3> QED
      BY <3>1, <3>2
  <2>6. SaysMissing(r2, verdict) <=> SaysMissing(k, verdict)
    BY <2>1 DEF SaysMissing
  <2> QED
    BY <1>9, <2>1, <2>3, <2>4, <2>5, <2>6 DEF HonestResult
<1> QED
  BY <1>2, <1>10, <1>11, <1>12

\* Every move keeps it.
LEMMA MovesHonest ==
  ASSUME NEW p \in {"scp", "sftp"}, NEW k, NEW a, NEW r, NEW w,
         Typed(p, k, a, r, w), InCall(p, k, a, r, w), Honest(p, k, a, r, w),
         NEW k2, NEW a2, NEW r2, NEW w2, Moves(p, k, a, r, w, k2, a2, r2, w2)
  PROVE  Honest(p, k2, a2, r2, w2)
<1>1. CASE Watches(p, k, a, r, w, k2, a2, r2, w2)
  <2>1. Grows(w, w2) /\ k2 = k /\ r2 = r /\ a2 = a
    BY <1>1, HistoryGrows DEF Watches
  <2> QED
    BY <2>1, HonestGrows DEF Honest
<1>2. CASE StaysLocal(p, k, a, r, w, k2, a2, r2, w2)
  <2>1. PICK op \in {"connect", "disconnect", "append"},
             kind \in {"Ok", "ProtocolError", "NotConnected", "ConnectionError",
                       "UnsupportedFeature"} :
          r2 = Result(op, kind, {})
    BY <1>2 DEF StaysLocal
  <2>2. HonestResult(p, r2, w2)
    BY <2>1 DEF HonestResult, SaysMissing, Result
  <2>3. k2 = Idle
    BY <1>2 DEF StaysLocal
  <2> QED
    BY <2>2, <2>3 DEF Honest, HonestAnswer, HonestProbe
<1>3. CASE Begins(p, k, a, r, w, k2, a2, r2, w2)
  <2>1. \E op, x, y, target :
          /\ r2 = Result(op, "NotConnected", {}) \/ r2 = Result(op, "none", {})
          /\ k2 = Idle \/ k2 = NewCall(op, x, y, target)
    BY <1>3 DEF Begins
  <2>2. a2 = NoAnswer
    BY <1>3 DEF Begins, Typed
  <2>3. HonestResult(p, r2, w2)
    BY <2>1 DEF HonestResult, SaysMissing, Result
  <2>4. k2 # Idle => k2.step = 1
    BY <2>1 DEF NewCall
  <2> QED
    BY <2>2, <2>3, <2>4 DEF Honest, HonestAnswer, HonestProbe
<1>4. CASE IsServed(p, k, a, r, w, k2, a2, r2, w2)
  <2>1. Grows(w, w2) /\ k2 = k /\ r2 = r
    BY <1>4, HistoryGrows
  <2>2. HonestAnswer(p, k2, a2, w2)
    BY <1>4, ServedHonest
  <2> QED
    BY <2>1, <2>2, HonestGrows DEF Honest
<1>5. CASE Fails(p, k, a, r, w, k2, a2, r2, w2)
  <2>1. Grows(w, w2) /\ k2 = k /\ r2 = r /\ a2 = Err
    BY <1>5, HistoryGrows DEF Fails
  <2>2. HonestAnswer(p, k2, a2, w2)
    BY <2>1 DEF HonestAnswer
  <2> QED
    BY <2>1, <2>2, HonestGrows DEF Honest
<1>6. CASE IsCut(p, k, a, r, w, k2, a2, r2, w2)
  <2> DEFINE s == Now(p, k)
  <2>1. Grows(w, w2) /\ k2 = k /\ r2 = r
    BY <1>6, HistoryGrows
  <2>3. w2.cut /\ Cuttable(s.cmd) /\ Busy(p, k)
    BY <1>6, CutKeeps, ZenonT(60) DEF Typed
  <2>4. Sends(p, k, s, k.step)
    BY <2>3, NowSends
  <2> HIDE DEF s
  <2>5. ~Probes(s.cmd) /\ ~TestDir(s.cmd)
    BY <2>3, ProbesLook
  <2>6. s.file = s.ok
    BY <2>3, <2>4, <2>5 DEF Sends, FindsTaken, Probes
  <2>7. HonestAnswer(p, k2, a2, w2)
    BY <2>1, <2>3, <2>5, <2>6 DEF HonestAnswer, s
  <2> QED
    BY <2>1, <2>7, HonestGrows DEF Honest
<1>7. CASE Takes(p, k, a, r, w, k2, a2, r2, w2)
  <2>1. a2 = NoAnswer /\ w2 = w
    BY <1>7 DEF Takes
  <2>2. HonestResult(p, r2, w) /\ HonestProbe(p, k2, w)
    BY <1>7, TakenHonest
  <2> QED
    BY <2>1, <2>2 DEF Honest, HonestAnswer
<1> QED
  BY <1>1, <1>2, <1>3, <1>4, <1>5, <1>6, <1>7 DEF Moves

-----------------------------------------------------------------------------
(* Listings are faithful.                                                  *)

LinkOf(name) == [name |-> name, kind |-> "link"]

\* The links that may be listed as files.
Linked(p, w) ==
    IF p = "scp" THEN IF w.cut THEN w.ever ELSE {}
    ELSE IF w.fault \/ w.denied THEN w.ever ELSE w.ever \ w.always

\* Nothing in S was made up.
Sighted(p, w, S) ==
    \A e \in S : \/ e \in w.ever
                 \/ e.kind = "file" /\ [e EXCEPT !.kind = "link"] \in Linked(p, w)

\* Nothing that was there all the time is missing in S.
Covered(w, S) == w.cut \/ w.denied \/ {e.name : e \in w.always} \subseteq {e.name : e \in S}

\* Nothing will be: it is among the entries, or a link still to be read.
Coming(k, w) ==
    w.cut \/ w.denied \/ \A e \in w.always :
       \/ \E f \in k.entries : f.name = e.name
       \/ \E j \in DOMAIN k.links : j >= k.step - 1 /\ k.links[j] = e.name

ListedResult(p, r, w) ==
    r.op = "list_dir" /\ r.kind = "Ok" => Covered(w, r.value) /\ Sighted(p, w, r.value)

\* The entries that an answer tells of.
Shows(s, a) == IF LsLa(s.cmd) THEN Readable(a.out) ELSE a.out

ListedAnswer(p, k, a, w) ==
    LET s == Now(p, k)
    IN  k # Idle /\ a # NoAnswer /\ a # Err /\ k.op = "list_dir" =>
          /\ LsLa(s.cmd) \/ s.cmd = "readdir" =>
                Covered(w, Shows(s, a)) /\ Sighted(p, w, Shows(s, a))
          /\ s.cmd = "readlink" /\ a.rc # "0" => LinkOf(Last(s.on)) \notin w.always \/ w.denied

ListedCall(p, k, w) ==
    k # Idle /\ k.op = "list_dir" /\ p = "sftp" /\ k.step # 1 =>
       /\ Sighted(p, w, k.entries) /\ Coming(k, w)
       /\ \A j \in DOMAIN k.links : LinkOf(k.links[j]) \in w.ever

Listings(p, k, a, r, w) ==
    ListedResult(p, r, w) /\ ListedAnswer(p, k, a, w) /\ ListedCall(p, k, w)

\* How the history of a listing moves on.
MovesOn(w, u) ==
    /\ w.ever \subseteq u.ever /\ u.always \subseteq w.always
    /\ w.fault => u.fault
    /\ w.cut => u.cut
    /\ w.denied => u.denied

\* What was sighted, or covers what was always there, stays so.
LEMMA SightedOn ==
  ASSUME NEW p, NEW w, NEW u, MovesOn(w, u), NEW S
  PROVE  /\ Sighted(p, w, S) => Sighted(p, u, S)
         /\ Covered(w, S) => Covered(u, S)
<1>1. Linked(p, w) \subseteq Linked(p, u)
  BY DEF Linked, MovesOn
<1>2. Sighted(p, w, S) => Sighted(p, u, S)
  BY <1>1 DEF Sighted, MovesOn
<1>3. Covered(w, S) => Covered(u, S)
  BY DEF Covered, MovesOn
<1> QED
  BY <1>2, <1>3

\* And so does what is known of a listing.
LEMMA ListingsOn ==
  ASSUME NEW p, NEW k, NEW a, NEW r, NEW w, Listings(p, k, a, r, w), NEW u, MovesOn(w, u)
  PROVE  ListedResult(p, r, u) /\ ListedAnswer(p, k, a, u) /\ ListedCall(p, k, u)
<1>1. ListedResult(p, r, u)
  BY SightedOn DEF Listings, ListedResult
<1>2. ListedAnswer(p, k, a, u)
  BY SightedOn DEF Listings, ListedAnswer, MovesOn
<1>3. Coming(k, w) => Coming(k, u)
  BY DEF Coming, MovesOn
<1>4. ListedCall(p, k, u)
  BY <1>3, SightedOn DEF Listings, ListedCall, MovesOn
<1> QED
  BY <1>1, <1>2, <1>4

\* While a call waits for its answer the history of a listing moves on.
LEMMA HistoryMovesOn ==
  ASSUME NEW p, NEW k, NEW a, NEW r, NEW w, Typed(p, k, a, r, w),
         NEW k2, NEW a2, NEW r2, NEW w2,
         \/ Watches(p, k, a, r, w, k2, a2, r2, w2) \/ IsServed(p, k, a, r, w, k2, a2, r2, w2)
         \/ Fails(p, k, a, r, w, k2, a2, r2, w2) \/ IsCut(p, k, a, r, w, k2, a2, r2, w2)
  PROVE  MovesOn(w, w2) /\ k2 = k /\ r2 = r
<1>0. DOMAIN w = DOMAIN NothingSeen
  BY DEF Typed
<1>1. ASSUME NEW t, NEW v
      PROVE  w.ever \subseteq See(p, w, t, v).ever /\ See(p, w, t, v).always \subseteq w.always
  <2> DEFINE u == See(p, w, t, v)
  <2>1. /\ w.op = "list_dir" => /\ u.ever = w.ever \cup Listing(v, w.a)
                                /\ u.always = w.always \cap Legible(p, v, w.a)
        /\ w.op # "list_dir" => u.ever = w.ever /\ u.always = w.always
    BY <1>0, SeeListing
  <2> HIDE DEF u
  <2>2. w.ever \subseteq u.ever /\ u.always \subseteq w.always
    BY <2>1
  <2> QED
    BY <2>2 DEF u
<1>3. CASE Watches(p, k, a, r, w, k2, a2, r2, w2)
  <2>1. k2 = k /\ r2 = r /\ (w2 = w \/ \E t, v : w2 = See(p, w, t, v))
    BY <1>3 DEF Watches
  <2>2. w2.fault = w.fault /\ w2.cut = w.cut /\ w2.denied = w.denied
    BY <1>3, WatchesKeeps
  <2>3. w.ever \subseteq w2.ever /\ w2.always \subseteq w.always
    BY <1>1, <2>1
  <2> QED
    BY <2>1, <2>2, <2>3 DEF MovesOn
<1>4. CASE IsServed(p, k, a, r, w, k2, a2, r2, w2)
  <2>1. PICK t, o :
           /\ w2.fault = w.fault /\ w2.cut = w.cut
           /\ w2.denied = (w.denied \/ Denies(k, Now(p, k), t, o))
           /\ w2.ever = See(p, w, t, o.tree).ever /\ w2.always = See(p, w, t, o.tree).always
    BY <1>4, ServedKeeps
  <2>2. w.ever \subseteq w2.ever /\ w2.always \subseteq w.always
    BY <1>1, <2>1
  <2>3. k2 = k /\ r2 = r
    BY <1>4 DEF IsServed
  <2> QED
    BY <2>1, <2>2, <2>3 DEF MovesOn
<1>5. CASE Fails(p, k, a, r, w, k2, a2, r2, w2)
  <2>1. w2 = [w EXCEPT !.fault = TRUE] /\ k2 = k /\ r2 = r
    BY <1>5 DEF Fails
  <2> QED
    BY <1>0, <2>1 DEF MovesOn, NothingSeen
<1>6. CASE IsCut(p, k, a, r, w, k2, a2, r2, w2)
  <2>1. k2 = k /\ r2 = r /\ w2.fault = w.fault /\ w2.cut /\ w2.ever = w.ever
        /\ w2.always = w.always /\ w2.denied = w.denied
    BY <1>6, CutKeeps
  <2> QED
    BY <2>1 DEF MovesOn
<1> QED
  BY <1>3, <1>4, <1>5, <1>6

\* A name that no link has is none of the links of its directory.
LEMMA NoSuchLink ==
  ASSUME NEW t, TreeOK(t), NEW p \in Seq(Names), NEW n \in Names,
         Entry(t, Append(p, n)).kind # "link"
  PROVE  LinkOf(n) \notin Listing(t, p)
<1> SUFFICES ASSUME LinkOf(n) \in Listing(t, p) PROVE FALSE
  OBVIOUS
<1> DEFINE q == Append(p, n)
           e == Append(Real(t, p), n)
<1>1. TestD(t, p) /\ e \in Paths /\ t[e].kind = "link"
  BY ListingIsLines DEF LinkOf
<1>2. q \in Seq(Names) /\ q # Root /\ Front(q) = p /\ Last(q) = n
  BY AppendedName
<1> HIDE DEF q
<1>3. HasPlace(t, q) /\ Place(t, q) = e
  BY <1>1, <1>2 DEF HasPlace, Place
<1> HIDE DEF e
<1>4. Entry(t, q) = t[e]
  BY <1>2, <1>3 DEF Entry
<1> QED
  BY <1>1, <1>4 DEF q

\* What a directory's listing answers.
LEMMA ListOutput ==
  ASSUME NEW t, NEW s, LsLa(s.cmd) \/ s.cmd = "readdir"
  PROVE  /\ OutputOf(t, s) = IF LsLa(s.cmd) THEN Printed(t, s.on) ELSE Listing(t, s.on)
         /\ Looks(s.cmd) /\ Enters(s.cmd)
BY DEF OutputOf, LsLa, Looks, Enters

\* readlink looks, and has a status.
LEMMA ReadLinkLooks ==
  ASSUME NEW cmd, cmd = "readlink"
  PROVE  Looks(cmd) /\ ~LsLa(cmd) /\ ~Cuttable(cmd)
BY DEF Looks, LsLa, Cuttable

\* An answer tells what the directory is like.
LEMMA ServedListed ==
  ASSUME NEW p \in {"scp", "sftp"}, NEW k, NEW a, NEW r, NEW w,
         Typed(p, k, a, r, w), InCall(p, k, a, r, w),
         NEW k2, NEW a2, NEW r2, NEW w2, IsServed(p, k, a, r, w, k2, a2, r2, w2)
  PROVE  ListedAnswer(p, k2, a2, w2)
<1> DEFINE s == Now(p, k)
<1>1. PICK t, o :
           /\ TreeOK(t) /\ Effect(k, s, t, o)
           /\ a2.rc = o.rc /\ a2.out = IF o.rc = "0" THEN OutputOf(t, s) ELSE {}
           /\ w2.denied = (w.denied \/ Denies(k, s, t, o))
           /\ w2.ever = See(p, w, t, o.tree).ever /\ w2.always = See(p, w, t, o.tree).always
  BY ServedKeeps
<1>2. k # Idle /\ k2 = k /\ Busy(p, k) /\ DOMAIN w = DOMAIN NothingSeen
  BY DEF IsServed, Typed
<1>3. Sends(p, k, s, k.step)
  BY <1>2, NowSends
<1>4. w.op = k.op /\ w.a = k.a /\ k.a \in Seq(Names) /\ k.links \in Seq(Names)
  BY <1>2 DEF InCall, Busy, CallsOf
<1> HIDE DEF s
<1> SUFFICES ASSUME k.op = "list_dir"
             PROVE  /\ LsLa(s.cmd) \/ s.cmd = "readdir" =>
                          Covered(w2, Shows(s, a2)) /\ Sighted(p, w2, Shows(s, a2))
                    /\ s.cmd = "readlink" /\ a2.rc # "0" =>
                          LinkOf(Last(s.on)) \notin w2.always \/ w2.denied
  BY <1>2 DEF ListedAnswer, s
<1>5. o.tree = t => /\ Listing(t, k.a) \subseteq w2.ever
                    /\ w2.always \subseteq Legible(p, t, k.a)
  <2>1. w.op = "list_dir" /\ w.a = k.a
    BY <1>4
  <2> DEFINE u == See(p, w, t, t)
  <2>2. u.ever = w.ever \cup Listing(t, w.a) /\ u.always = w.always \cap Legible(p, t, w.a)
    <3>1. DOMAIN w = DOMAIN NothingSeen
      BY <1>2
    <3>2. w.op = "list_dir" =>
             /\ See(p, w, t, t).ever = w.ever \cup Listing(t, w.a)
             /\ See(p, w, t, t).always = w.always \cap Legible(p, t, w.a)
      BY <3>1, SeeListing
    <3> HIDE DEF u
    <3>3. u = See(p, w, t, t)
      BY DEF u
    <3> QED
      BY <2>1, <3>2, <3>3
  <2>3. o.tree = t => w2.ever = u.ever /\ w2.always = u.always
    BY <1>1
  <2> HIDE DEF u
  <2> QED
    BY <2>1, <2>2, <2>3
<1>8. Legible(p, t, k.a) \subseteq Listing(t, k.a)
  BY <1>1, <1>4, LegibleIsListed
<1>6. ASSUME LsLa(s.cmd) \/ s.cmd = "readdir"
      PROVE  Covered(w2, Shows(s, a2)) /\ Sighted(p, w2, Shows(s, a2))
  <2>1. s.on = k.a /\ (LsLa(s.cmd) <=> p = "scp")
    BY <1>3, <1>6, ReadLinkLooks DEF Sends, ListsAll, Probes, LsLa
  <2>2. /\ OutputOf(t, s) = IF LsLa(s.cmd) THEN Printed(t, k.a) ELSE Listing(t, k.a)
        /\ o.tree = t /\ Enters(s.cmd)
    BY <1>1, <1>6, <2>1, ListOutput DEF Effect
  <2>3. CASE o.rc = "0"
    <3>1. Shows(s, a2) = Legible(p, t, k.a)
      BY <1>1, <2>1, <2>2, <2>3 DEF Shows, Legible
    <3> QED
      BY <1>5, <1>8, <2>2, <3>1 DEF Covered, Sighted
  <2>4. CASE o.rc # "0"
    <3>1. Shows(s, a2) = {}
      BY <1>1, <2>4 DEF Shows, Readable
    <3>2. w2.denied \/ ~TestD(t, k.a)
      BY <1>1, <2>1, <2>2, <2>4 DEF Effect, Says
    <3>3. ~TestD(t, k.a) => w2.always = {}
      BY <1>5, <1>8, <2>2 DEF Listing
    <3> QED
      BY <3>1, <3>2, <3>3 DEF Covered, Sighted
  <2> QED
    BY <2>3, <2>4
<1>7. ASSUME s.cmd = "readlink", a2.rc # "0", ~w2.denied
      PROVE  LinkOf(Last(s.on)) \notin w2.always
  <2>1. PICK i \in DOMAIN k.links : s.on = Append(k.a, k.links[i])
    BY <1>3, <1>7 DEF Sends, ListsAll
  <2>2. o.tree = t
    BY <1>1, <1>7, ReadLinkLooks DEF Effect
  <2>3. Entry(t, s.on).kind # "link"
    BY <1>1, <1>7 DEF Effect, Says
  <2>4. k.links[i] \in Names
    BY <1>4
  <2>5. Last(s.on) = k.links[i]
    BY <1>4, <2>1, <2>4, AppendedName
  <2>6. LinkOf(k.links[i]) \notin Listing(t, k.a)
    BY <1>1, <1>4, <2>1, <2>3, <2>4, NoSuchLink
  <2> QED
    BY <1>5, <1>8, <2>2, <2>5, <2>6
<1> QED
  BY <1>6, <1>7

\* The lines that a cut leaves.
LEMMA WhatIsLeft ==
  ASSUME NEW lines, lines \subseteq Lines, NEW out \in LinesLeft(lines)
  PROVE  \A x \in out : x \in lines \/ \E e \in lines :
            e.kind = "link" /\ x = [e EXCEPT !.kind = "file"]
<1>1. PICK rest \in SUBSET lines,
           part \in {{}} \cup {{[e EXCEPT !.kind = "file"]} : e \in {f \in lines : f.kind = "link"}} :
             out = rest \cup part
  BY DEF LinesLeft
<1> QED
  BY <1>1

\* What a cut leaves was there, links among the files.
LEMMA CutListed ==
  ASSUME NEW p \in {"scp", "sftp"}, NEW k, NEW a, NEW r, NEW w,
         Typed(p, k, a, r, w), ListedAnswer(p, k, a, w),
         NEW k2, NEW a2, NEW r2, NEW w2, IsCut(p, k, a, r, w, k2, a2, r2, w2)
  PROVE  ListedAnswer(p, k2, a2, w2)
<1> DEFINE s == Now(p, k)
<1>1. /\ k # Idle /\ k2 = k /\ AnswerOK(k, a) /\ a # Err /\ a # NoAnswer
      /\ a2.out = {} \/ a2.out = a.out \/ a2.out \in LinesLeft(a.out)
      /\ w2.cut /\ w2.ever = w.ever /\ w2.always = w.always /\ w2.fault = w.fault
      /\ w2.denied = w.denied
  BY CutKeeps
<1>2. Cuttable(s.cmd)
  BY CutKeeps
<1>3. Busy(p, k)
  BY <1>1 DEF Typed
<1>4. Sends(p, k, s, k.step)
  BY <1>3, NowSends
<1> HIDE DEF s
<1> SUFFICES ASSUME k.op = "list_dir"
             PROVE  /\ LsLa(s.cmd) \/ s.cmd = "readdir" =>
                          Covered(w2, Shows(s, a2)) /\ Sighted(p, w2, Shows(s, a2))
                    /\ s.cmd = "readlink" /\ a2.rc # "0" =>
                          LinkOf(Last(s.on)) \notin w2.always \/ w2.denied
  BY <1>1 DEF ListedAnswer, s
<1>5. s.cmd # "readlink" /\ s.cmd # "readdir"
  BY <1>2 DEF Cuttable
<1>6. ASSUME LsLa(s.cmd) PROVE Covered(w2, Shows(s, a2)) /\ Sighted(p, w2, Shows(s, a2))
  <2>0. Shows(s, a2) = Readable(a2.out) /\ Shows(s, a) = Readable(a.out)
    BY <1>6 DEF Shows
  <2>1. p = "scp" /\ a.out \subseteq Lines
    BY <1>1, <1>4, <1>6 DEF Sends, ListsAll, AnswerOK
  <2>2. Linked(p, w2) = w.ever
    BY <1>1, <2>1 DEF Linked
  <2>3. Sighted(p, w, Readable(a.out))
    BY <1>1, <1>6, <2>0 DEF ListedAnswer, s
  <2>4. Linked(p, w) \subseteq w.ever
    BY DEF Linked
  <2>5. Sighted(p, w2, Readable(a.out))
    BY <1>1, <2>2, <2>3, <2>4 DEF Sighted
  <2>6. ASSUME a2.out \in LinesLeft(a.out) PROVE Sighted(p, w2, Readable(a2.out))
    <3>1. \A x \in a2.out : x \in a.out \/ \E e \in a.out :
             e.kind = "link" /\ x = [e EXCEPT !.kind = "file"]
      BY <2>1, <2>6, WhatIsLeft
    <3>2. ASSUME NEW e \in a.out, e.kind = "link", NEW x, x = [e EXCEPT !.kind = "file"]
          PROVE  x.kind = "file" /\ [x EXCEPT !.kind = "link"] \in Linked(p, w2)
      <4>1. e = [name |-> e.name, kind |-> "link"]
        BY <2>1, <3>2 DEF Lines
      <4>2. x = [name |-> e.name, kind |-> "file"]
        BY <3>2, <4>1
      <4>3. x.kind = "file" /\ [x EXCEPT !.kind = "link"] = e
        BY <4>1, <4>2
      <4>4. e \in w.ever
        BY <2>3, <3>2, <4>1 DEF Sighted, Readable
      <4> QED
        BY <2>2, <4>3, <4>4
    <3> QED
      BY <2>5, <3>1, <3>2 DEF Sighted, Readable
  <2>7. Sighted(p, w2, Readable({}))
    BY DEF Sighted, Readable
  <2> QED
    BY <1>1, <2>0, <2>5, <2>6, <2>7 DEF Covered
<1> QED
  BY <1>5, <1>6

\* The entries that an answer adds.
Adds(s, k, a, n) ==
    /\ LsLa(s.cmd) /\ a # Err => n.entries = Readable(a.out)
    /\ s.cmd = "readdir" /\ a # Err =>
          /\ n.entries = {e \in a.out : e.kind # "link"}
          /\ n.links = SetToSeq({e.name : e \in {f \in a.out : f.kind = "link"}})
    /\ s.cmd = "readlink" =>
          /\ n.links = k.links
          /\ n.entries = k.entries \cup
                {[name |-> Last(s.on), kind |-> IF a.rc = "0" THEN "link" ELSE "file"]}

\* It is what Noted adds.
LEMMA NotedEntries ==
  ASSUME NEW p \in {"scp", "sftp"}, NEW k, Busy(p, k), NEW a, a = Err \/ AnswerOK(k, a)
  PROVE  Adds(Now(p, k), k, a, NotedOf(p, k, a))
<1> DEFINE s == Now(p, k)
           n == NotedOf(p, k, a)
           links == SetToSeq({e.name : e \in {f \in a.out : f.kind = "link"}})
           files == {e \in a.out : e.kind # "link"}
           line == [name |-> Last(s.on), kind |-> make_fsentry("link", a.rc = "0")]
<1>1. k \in CallsOf(p)
  BY DEF Busy
<1>2. "entries" \in DOMAIN k /\ "links" \in DOMAIN k
  BY <1>1 DEF CallsOf
<1>3. LsLa(s.cmd) /\ a # Err => n = [k EXCEPT !.entries = Readable(a.out)]
  BY DEF NotedOf, LsLa, s
<1>4. s.cmd = "readdir" /\ a # Err => n = [k EXCEPT !.entries = files, !.links = links]
  BY DEF NotedOf, s
<1>5. s.cmd = "readlink" => n = [k EXCEPT !.entries = @ \cup {line}]
  BY DEF NotedOf, Listed, s
<1>6. make_fsentry("link", a.rc = "0") = IF a.rc = "0" THEN "link" ELSE "file"
  BY DEF make_fsentry
<1> HIDE DEF n, files, links, line, s
<1>7. LsLa(s.cmd) /\ a # Err => n.entries = Readable(a.out)
  BY <1>2, <1>3
<1>8. s.cmd = "readdir" /\ a # Err => n.entries = files /\ n.links = links
  BY <1>2, <1>4
<1>9. s.cmd = "readlink" => n.entries = k.entries \cup {line} /\ n.links = k.links
  BY <1>2, <1>5
<1>10. line = [name |-> Last(s.on), kind |-> IF a.rc = "0" THEN "link" ELSE "file"]
  BY <1>6 DEF line
<1> QED
  BY <1>7, <1>8, <1>9, <1>10 DEF Adds, n, files, links, s

\* What a listing has when an answer is taken.
LEMMA TakenListed ==
  ASSUME NEW p \in {"scp", "sftp"}, NEW k, NEW a, NEW r, NEW w,
         Typed(p, k, a, r, w), InCall(p, k, a, r, w), Listings(p, k, a, r, w),
         NEW k2, NEW a2, NEW r2, NEW w2, Takes(p, k, a, r, w, k2, a2, r2, w2)
  PROVE  ListedResult(p, r2, w) /\ ListedCall(p, k2, w)
<1> DEFINE n == NotedOf(p, k, a)
           s == Now(p, k)
           verdict == VerdictOf(p, k, a)
           len == Len(StepsOf(p, n))
<1>1. k # Idle /\ Busy(p, k) /\ (a = Err \/ AnswerOK(k, a)) /\ a # NoAnswer
  BY DEF Takes, Typed
<1>2. \/ verdict = GoOn /\ n.step < len /\ k2 = [n EXCEPT !.step = @ + 1] /\ r2 = r
      \/ /\ k2 = Idle
         /\ \/ /\ verdict = "Ok" \/ (verdict = GoOn /\ ~(n.step < len))
               /\ r2 = Result(n.op, "Ok", ValueOf(n, a))
            \/ verdict # "Ok" /\ r2 = Result(n.op, verdict, {})
  BY DEF Takes
<1>3. /\ n \in CallsOf(p) /\ n.op = k.op /\ n.step = k.step
      /\ n.links = k.links \/ (s.cmd = "readdir" /\ a # Err)
  BY <1>1, NotedTyped
<1>4. Sends(p, k, s, k.step)
  BY <1>1, NowSends
<1>5. /\ a = Err => verdict = s.broken /\ w.fault
      /\ a # Err /\ SaysNo(s, a) => verdict = s.refused
      /\ a # Err /\ ~SaysNo(s, a) => verdict \in {s.ok, s.file}
  BY DEF VerdictOf, InCall
<1>6. Adds(s, k, a, n)
  BY <1>1, NotedEntries
<1>7. ListedResult(p, r, w) /\ ListedAnswer(p, k, a, w) /\ ListedCall(p, k, w)
  BY DEF Listings
<1>8. /\ n.op = "list_dir" /\ p = "sftp" => len = 1 + Len(n.links)
      /\ n.op = "list_dir" /\ p = "scp" => len = 2
  BY <1>3, StepsInOrder
<1>9. k.a \in Seq(Names) /\ k.links \in Seq(Names) /\ n.links \in Seq(Names)
      /\ k.step \in Nat
  BY <1>1, <1>3 DEF Busy, CallsOf
<1> HIDE DEF n, s, verdict, len
<1>10. k2 # Idle => /\ k2.op = k.op /\ k2.step = k.step + 1 /\ k2.entries = n.entries
                    /\ k2.links = n.links
  BY <1>2, <1>3 DEF CallsOf
<1>11. CASE k.op # "list_dir"
  <2>1. r2 = r \/ r2.op # "list_dir"
    BY <1>2, <1>3, <1>11 DEF Result
  <2> QED
    BY <1>7, <1>10, <1>11, <2>1 DEF ListedResult, ListedCall
<1>12. CASE k.op = "list_dir" /\ p = "scp"
  <2>1. ListedCall(p, k2, w)
    BY <1>12 DEF ListedCall
  <2>2. ASSUME r2.op = "list_dir", r2.kind = "Ok", r2 # r
        PROVE  Covered(w, r2.value) /\ Sighted(p, w, r2.value)
    <3>1. /\ verdict = "Ok" \/ (verdict = GoOn /\ ~(k.step < 2))
          /\ r2.value = ValueOf(n, a)
      BY <1>2, <1>3, <1>8, <1>12, <2>2 DEF Result
    <3>2. r2.value = n.entries
      BY <1>3, <1>12, <3>1 DEF ValueOf
    <3>3. LsLa(s.cmd) /\ s.broken \notin {"Ok", GoOn}
      BY <1>4, <1>5, <1>12, <3>1 DEF Sends, ListsAll
    <3>4. a # Err
      BY <1>5, <3>1, <3>3
    <3> QED
      <4>1. n.entries = Shows(s, a)
        BY <1>6, <3>3, <3>4 DEF Adds, Shows
      <4> QED
        BY <1>1, <1>7, <1>12, <3>2, <3>3, <3>4, <4>1 DEF ListedAnswer, s
  <2> QED
    BY <1>7, <2>1, <2>2 DEF ListedResult
<1>13. CASE k.op = "list_dir" /\ p = "sftp"
  <2>1. n.op = "list_dir" /\ len = 1 + Len(n.links) /\ DOMAIN n.links = 1..Len(n.links)
        /\ Len(n.links) \in Nat
    BY <1>3, <1>8, <1>9, <1>13
  \* What there is, once a request has been answered for.
  <2> DEFINE Ready1 ==
               /\ Sighted(p, w, n.entries)
               /\ w.cut \/ w.denied \/ \A e \in w.always :
                     \/ \E f \in n.entries : f.name = e.name
                     \/ \E j \in DOMAIN n.links : j >= k.step /\ n.links[j] = e.name
               /\ \A j \in DOMAIN n.links : LinkOf(n.links[j]) \in w.ever
  <2>2. Ready1 \/ verdict \notin {"Ok", GoOn}
    <3>1. CASE s.cmd = "readdir"
      <4>1. s.refused \notin {"Ok", GoOn} /\ s.broken \notin {"Ok", GoOn} /\ k.step = 1
        BY <1>4, <1>13, <3>1 DEF Sends, ListsAll
      <4> SUFFICES ASSUME a # Err PROVE Ready1
        BY <1>5, <4>1
      <4> DEFINE names == {e.name : e \in {f \in a.out : f.kind = "link"}}
      <4>2. Covered(w, a.out) /\ Sighted(p, w, a.out)
        BY <1>1, <1>7, <1>13, <3>1 DEF ListedAnswer, Shows, LsLa, s
      <4>3. a.out \subseteq Lines
        BY <1>1, <1>13 DEF AnswerOK
      <4>4. n.entries = {e \in a.out : e.kind # "link"} /\ n.links = SetToSeq(names)
        BY <1>6, <3>1 DEF Adds
      <4>5. names \subseteq Names
        BY <4>3 DEF Lines
      <4>6. \A f \in a.out : f.kind = "link" => f.name \in names
        OBVIOUS
      <4>7. \A x \in names : LinkOf(x) \in a.out
        BY <4>3 DEF Lines, LinkOf
      <4> HIDE DEF names
      <4>8. /\ \A i \in DOMAIN n.links : n.links[i] \in names
            /\ \A x \in names : \E i \in DOMAIN n.links : n.links[i] = x
        BY <4>4, <4>5, NamesInOrder
      <4>9. Sighted(p, w, n.entries)
        BY <4>2, <4>4 DEF Sighted
      <4>10. \A x \in names : LinkOf(x) \in w.ever
        <5>1. \A x : LinkOf(x).kind = "link"
          BY DEF LinkOf
        <5> QED
          BY <4>2, <4>7, <5>1 DEF Sighted
      <4>11. ASSUME ~w.cut, ~w.denied, NEW e \in w.always
            PROVE  \/ \E f \in n.entries : f.name = e.name
                   \/ \E j \in DOMAIN n.links : j >= k.step /\ n.links[j] = e.name
        <5>1. PICK f \in a.out : f.name = e.name
          BY <4>2, <4>11 DEF Covered
        <5>2. CASE f.kind = "link"
          <6>1. PICK j \in DOMAIN n.links : n.links[j] = e.name
            BY <4>6, <4>8, <5>1, <5>2
          <6>2. j >= k.step
            BY <2>1, <4>1
          <6> QED
            BY <6>1, <6>2
        <5>3. CASE f.kind # "link"
          BY <4>4, <5>1, <5>3
        <5> QED
          BY <5>2, <5>3
      <4> QED
        BY <4>8, <4>9, <4>10, <4>11
    <3>2. CASE s.cmd = "readlink"
      <4> DEFINE i == k.step - 1
                 line == [name |-> Last(s.on), kind |-> IF a.rc = "0" THEN "link" ELSE "file"]
      <4>1. i \in DOMAIN k.links /\ s.on = Append(k.a, k.links[i])
        BY <1>4, <1>13, <3>2 DEF Sends, ListsAll
      <4>2. k.step # 1
        BY <1>9, <4>1
      <4>3. /\ Sighted(p, w, k.entries) /\ Coming(k, w)
            /\ \A j \in DOMAIN k.links : LinkOf(k.links[j]) \in w.ever
        BY <1>1, <1>7, <1>13, <4>2 DEF ListedCall
      <4>4. n.links = k.links /\ n.entries = k.entries \cup {line}
        BY <1>6, <3>2 DEF Adds
      <4>5. Last(s.on) = k.links[i] /\ k.links[i] \in Names
        <5>1. k.links[i] \in Names
          BY <1>9, <4>1
        <5> QED
          BY <1>9, <4>1, <5>1, AppendedName
      <4>6. LinkOf(k.links[i]) \in w.ever
        BY <4>1, <4>3
      <4>7. line \in w.ever \/ (line.kind = "file" /\ [line EXCEPT !.kind = "link"] \in Linked(p, w))
        <5>1. CASE a.rc = "0"
          BY <4>5, <4>6, <5>1 DEF LinkOf
        <5>2. CASE a.rc # "0"
          <6>1. line.kind = "file" /\ [line EXCEPT !.kind = "link"] = LinkOf(k.links[i])
            BY <4>5, <5>2 DEF LinkOf
          <6>2. w.fault \/ w.denied \/ LinkOf(k.links[i]) \notin w.always
            <7>1. CASE a = Err
              BY <1>5, <7>1
            <7>2. CASE a # Err
              BY <1>1, <1>7, <1>13, <3>2, <4>5, <5>2, <7>2 DEF ListedAnswer, s
            <7> QED
              BY <7>1, <7>2
          <6>3. LinkOf(k.links[i]) \in Linked(p, w)
            BY <1>13, <4>6, <6>2 DEF Linked
          <6> QED
            BY <6>1, <6>3
        <5> QED
          BY <5>1, <5>2
      <4>8. line.name = k.links[i]
        BY <4>5
      <4> HIDE DEF line
      <4>9. Sighted(p, w, n.entries)
        BY <4>3, <4>4, <4>7 DEF Sighted
      <4>10. ASSUME ~w.cut, ~w.denied, NEW e \in w.always
            PROVE  \/ \E f \in n.entries : f.name = e.name
                   \/ \E j \in DOMAIN n.links : j >= k.step /\ n.links[j] = e.name
        <5>1. CASE \E f \in k.entries : f.name = e.name
          BY <4>4, <5>1
        <5>2. CASE \E j \in DOMAIN k.links : j >= k.step - 1 /\ k.links[j] = e.name
          <6>1. PICK j \in DOMAIN k.links : j >= k.step - 1 /\ k.links[j] = e.name
            BY <5>2
          <6>2. j \in Nat
            BY <2>1, <4>4
          <6>3. j = i \/ j >= k.step
            BY <1>9, <6>1, <6>2
          <6>4. CASE j = i
            BY <4>4, <4>8, <6>1, <6>4
          <6>5. CASE j >= k.step
            BY <4>4, <6>1, <6>5
          <6> QED
            BY <6>3, <6>4, <6>5
        <5> QED
          BY <4>3, <4>10, <5>1, <5>2 DEF Coming
      <4> QED
        BY <4>3, <4>4, <4>9, <4>10
    <3> QED
      BY <1>4, <1>13, <3>1, <3>2 DEF Sends, ListsAll
  <2>3. ASSUME k2 # Idle PROVE ListedCall(p, k2, w)
    <3>1. Ready1 /\ k2.step = k.step + 1 /\ k2.entries = n.entries /\ k2.links = n.links
      BY <1>2, <1>10, <2>2, <2>3
    <3>2. k2.step - 1 = k.step
      BY <1>9, <3>1
    <3>3. Coming(k2, w)
      BY <3>1, <3>2 DEF Coming
    <3> QED
      BY <3>1, <3>3 DEF ListedCall
  <2>4. ASSUME r2.op = "list_dir", r2.kind = "Ok", r2 # r
        PROVE  Covered(w, r2.value) /\ Sighted(p, w, r2.value)
    <3>1. /\ verdict = "Ok" \/ (verdict = GoOn /\ ~(k.step < len))
          /\ r2.value = ValueOf(n, a)
      BY <1>2, <1>3, <2>4 DEF Result
    <3>2. r2.value = n.entries
      BY <2>1, <3>1 DEF ValueOf
    <3>3. Ready1
      BY <2>2, <3>1
    <3>4. verdict = GoOn
      <4>1. s.ok = GoOn /\ s.file = GoOn
            /\ s.refused # "Ok" /\ s.broken # "Ok"
        BY <1>4, <1>13 DEF Sends, ListsAll, GoOn, Scp!GoOn
      <4> QED
        BY <1>5, <3>1, <4>1
    <3>5. \A j \in DOMAIN n.links : ~(j >= k.step)
      <4>1. GoOn # "Ok"
        BY DEF GoOn, Scp!GoOn
      <4>2. ~(k.step < len)
        BY <3>1, <3>4, <4>1
      <4> HIDE DEF Ready1
      <4> QED
        BY <1>9, <2>1, <4>2
    <3>6. Covered(w, n.entries)
      BY <3>3, <3>5 DEF Covered
    <3> QED
      BY <3>2, <3>3, <3>6
  <2>5. ListedCall(p, k2, w)
    BY <2>3 DEF ListedCall
  <2> QED
    BY <1>7, <2>4, <2>5 DEF ListedResult
<1> QED
  BY <1>11, <1>12, <1>13

\* Every move keeps it.
LEMMA MovesListed ==
  ASSUME NEW p \in {"scp", "sftp"}, NEW k, NEW a, NEW r, NEW w,
         Typed(p, k, a, r, w), InCall(p, k, a, r, w), Listings(p, k, a, r, w),
         NEW k2, NEW a2, NEW r2, NEW w2, Moves(p, k, a, r, w, k2, a2, r2, w2)
  PROVE  Listings(p, k2, a2, r2, w2)
<1>1. CASE Watches(p, k, a, r, w, k2, a2, r2, w2)
  <2>1. MovesOn(w, w2) /\ k2 = k /\ r2 = r /\ a2 = a
    BY <1>1, HistoryMovesOn DEF Watches
  <2> QED
    BY <2>1, ListingsOn DEF Listings
<1>2. CASE StaysLocal(p, k, a, r, w, k2, a2, r2, w2)
  <2>1. k2 = Idle /\ r2.op # "list_dir"
    BY <1>2 DEF StaysLocal, Result
  <2> QED
    BY <2>1 DEF Listings, ListedResult, ListedAnswer, ListedCall
<1>3. CASE Begins(p, k, a, r, w, k2, a2, r2, w2)
  <2>1. \E op, x, y, target :
          /\ r2 = Result(op, "NotConnected", {}) \/ r2 = Result(op, "none", {})
          /\ k2 = Idle \/ k2 = NewCall(op, x, y, target)
    BY <1>3 DEF Begins
  <2>2. a2 = NoAnswer
    BY <1>3 DEF Begins, Typed
  <2>3. r2.kind # "Ok"
    BY <2>1 DEF Result
  <2>4. k2 # Idle => k2.step = 1
    BY <2>1 DEF NewCall
  <2> QED
    BY <2>2, <2>3, <2>4 DEF Listings, ListedResult, ListedAnswer, ListedCall
<1>4. CASE IsServed(p, k, a, r, w, k2, a2, r2, w2)
  <2>1. MovesOn(w, w2) /\ k2 = k /\ r2 = r
    BY <1>4, HistoryMovesOn
  <2>2. ListedAnswer(p, k2, a2, w2)
    BY <1>4, ServedListed
  <2> QED
    BY <2>1, <2>2, ListingsOn DEF Listings
<1>5. CASE Fails(p, k, a, r, w, k2, a2, r2, w2)
  <2>1. MovesOn(w, w2) /\ k2 = k /\ r2 = r /\ a2 = Err
    BY <1>5, HistoryMovesOn DEF Fails
  <2>2. ListedAnswer(p, k2, a2, w2)
    BY <2>1 DEF ListedAnswer
  <2> QED
    BY <2>1, <2>2, ListingsOn DEF Listings
<1>6. CASE IsCut(p, k, a, r, w, k2, a2, r2, w2)
  <2>1. MovesOn(w, w2) /\ k2 = k /\ r2 = r
    BY <1>6, HistoryMovesOn
  <2>2. ListedAnswer(p, k2, a2, w2)
    BY <1>6, CutListed DEF Listings
  <2> QED
    BY <2>1, <2>2, ListingsOn DEF Listings
<1>7. CASE Takes(p, k, a, r, w, k2, a2, r2, w2)
  <2>1. a2 = NoAnswer /\ w2 = w
    BY <1>7 DEF Takes
  <2>2. ListedResult(p, r2, w) /\ ListedCall(p, k2, w)
    BY <1>7, TakenListed
  <2> QED
    BY <2>1, <2>2 DEF Listings, ListedAnswer
<1> QED
  BY <1>1, <1>2, <1>3, <1>4, <1>5, <1>6, <1>7 DEF Moves

-----------------------------------------------------------------------------
(* What Ok says is done.                                                   *)

\* The answer on which a method returns Ok has kept its promise, by a step of this
\* call where no other can have, and that of cd holds the directory or what a cut
\* left of it.
PromisedAnswer(p, k, a, w) ==
    k # Idle /\ a # NoAnswer /\ a # Err =>
       /\ Earned(Now(p, k), a.rc, a.out) =>
             (Binds(p, k.op) => w.post) /\ (Sole(p, k.op) => w.touched)
       /\ k.op = "change_dir" => a.pwd = k.a \/ (w.cut /\ a.pwd \in PathLeft(k.a))

PromisedCall(k, w) == k # Idle /\ k.op \in Unpromised => w.post

PromisedResult(p, r, w) ==
    r.kind = "Ok" /\ w.op # "idle" =>
       (Binds(p, r.op) => w.post) /\ (Sole(p, r.op) => w.touched)

Promised(p, k, a, r, w) ==
    PromisedAnswer(p, k, a, w) /\ PromisedCall(k, w) /\ PromisedResult(p, r, w)

\* More history does no harm.
LEMMA PromisedGrows ==
  ASSUME NEW p, NEW k, NEW a, NEW r, NEW w, Promised(p, k, a, r, w), NEW u, Grows(w, u)
  PROVE  PromisedAnswer(p, k, a, u) /\ PromisedCall(k, u) /\ PromisedResult(p, r, u)
BY DEF Promised, PromisedAnswer, PromisedCall, PromisedResult, Grows

\* Ok is returned on the answer that earns it only: no error, no refusal and no
\* request before the last is taken for it.
LEMMA OkIsEarned ==
  ASSUME NEW p \in {"scp", "sftp"}, NEW k, Busy(p, k), NEW a, a = Err \/ AnswerOK(k, a),
         k.op \notin Unpromised,
         \/ VerdictOf(p, k, a) = "Ok"
         \/ /\ VerdictOf(p, k, a) = GoOn
            /\ ~(NotedOf(p, k, a).step < Len(StepsOf(p, NotedOf(p, k, a))))
  PROVE  a # Err /\ Earned(Now(p, k), a.rc, a.out)
<1> DEFINE s == Now(p, k)
           n == NotedOf(p, k, a)
<1>1. Sends(p, k, s, k.step)
  BY NowSends
<1>2. Earns(p, k, s) /\ FindsTaken(p, k, s) /\ ListsAll(p, k, s, k.step)
  BY <1>1 DEF Sends
<1>3. k \in CallsOf(p) /\ k.op \in SupportedOf(p) /\ k.step \in DOMAIN StepsOf(p, k)
  BY DEF Busy, CallsOf
<1>4. ~(n.step < Len(StepsOf(p, n))) => s.ok = "Ok"
  <2>1. s.cmd # "readdir"
    BY <1>2 DEF ListsAll, Unpromised
  <2>2. n.op = k.op /\ n.a = k.a /\ n.b = k.b /\ n.links = k.links /\ n.step = k.step
    BY <2>1, NotedTyped
  <2> HIDE DEF n
  <2>3. StepsOf(p, n) = StepsOf(p, k)
    BY <1>3, <2>2, SameSteps
  <2>4. /\ DOMAIN StepsOf(p, k) = 1..Len(StepsOf(p, k)) /\ Len(StepsOf(p, k)) \in Nat
        /\ StepsOf(p, k)[Len(StepsOf(p, k))].ok = "Ok"
    BY <1>3, StepsInOrder
  <2>5. ~(n.step < Len(StepsOf(p, n))) => k.step = Len(StepsOf(p, k))
    BY <1>3, <2>2, <2>3, <2>4
  <2> QED
    BY <2>4, <2>5 DEF Now
<1>5. GoOn # "Ok" /\ GoOn # "BadFile"
  BY DEF GoOn, Scp!GoOn
<1> HIDE DEF s, n
<1>6. VerdictOf(p, k, a) = IF a = Err THEN s.broken
                           ELSE IF SaysNo(s, a) THEN s.refused
                           ELSE IF s.file # s.ok /\ a.out # {Found("dir")} THEN s.file
                           ELSE s.ok
  BY DEF VerdictOf, s
<1>7. s.ok = "Ok" => VerdictOf(p, k, a) # GoOn
  BY <1>2, <1>5, <1>6 DEF Earns, FindsTaken
<1>8. VerdictOf(p, k, a) = "Ok"
  BY <1>4, <1>7 DEF n
<1>9. a # Err /\ a.rc = "0" /\ s.ok = "Ok" /\ (s.file = "Ok" \/ a.out = {Found("dir")})
  BY <1>2, <1>6, <1>8 DEF Earns, SaysNo
<1> QED
  BY <1>9 DEF Earned, s

\* The server's answer.
LEMMA ServedPromised ==
  ASSUME NEW p \in {"scp", "sftp"}, NEW k, NEW a, NEW r, NEW w,
         Typed(p, k, a, r, w), InCall(p, k, a, r, w),
         NEW k2, NEW a2, NEW r2, NEW w2, IsServed(p, k, a, r, w, k2, a2, r2, w2)
  PROVE  PromisedAnswer(p, k2, a2, w2)
<1> DEFINE s == Now(p, k)
<1>1. PICK t, o :
         /\ Achieves(p, k, s, t, o)
         /\ a2.rc = o.rc /\ a2.out = (IF o.rc = "0" THEN OutputOf(t, s) ELSE {})
         /\ a2.pwd = s.on
         /\ w2.post = See(p, w, t, o.tree).post /\ w2.touched = (w.touched \/ o.tree # t)
  BY ServedKeeps
<1>2. k # Idle /\ k2 = k /\ Busy(p, k) /\ DOMAIN w = DOMAIN NothingSeen
  BY DEF IsServed, Typed
<1>3. Changes(k, s)
  BY <1>2, NowSends DEF Sends
<1> HIDE DEF s
<1>4. w.op = k.op /\ w.a = k.a /\ w.b = k.b /\ w.target = k.target
  BY <1>2 DEF InCall
<1>5. Post(p, k, t, o.tree) => Post(p, w, t, o.tree)
  BY <1>4 DEF Post, HasTarget, Target
<1>6. Post(p, w, t, o.tree) => w2.post
  BY <1>1, <1>2, StillSeen
<1>7. Earned(s, a2.rc, a2.out) => (Binds(p, k.op) => w2.post) /\ (Sole(p, k.op) => w2.touched)
  BY <1>1, <1>5, <1>6 DEF Achieves, Earned
<1>8. k.op = "change_dir" => a2.pwd = k.a
  BY <1>1, <1>3 DEF Changes
<1> QED
  BY <1>2, <1>7, <1>8 DEF PromisedAnswer, s

\* An answer cut short.
LEMMA CutPromised ==
  ASSUME NEW p \in {"scp", "sftp"}, NEW k, NEW a, NEW r, NEW w,
         Typed(p, k, a, r, w), Promised(p, k, a, r, w),
         NEW k2, NEW a2, NEW r2, NEW w2, IsCut(p, k, a, r, w, k2, a2, r2, w2)
  PROVE  PromisedAnswer(p, k2, a2, w2)
<1> DEFINE s == Now(p, k)
<1>1. /\ k # Idle /\ k2 = k /\ a # Err /\ a # NoAnswer /\ a.rc = "0" /\ Cuttable(s.cmd)
      /\ w2.cut /\ w2.post = w.post /\ w2.touched = w.touched
      /\ a2.pwd = a.pwd \/ a2.pwd \in PathLeft(s.on)
      /\ a2.rc = "0" => (a2.out = a.out \/ a2.out \in LinesLeft(a.out))
  BY CutKeeps
<1>2. Sends(p, k, s, k.step)
  BY <1>1, NowSends DEF Typed
<1> HIDE DEF s
<1>3. s.cmd # "stat"
  BY <1>1 DEF Cuttable
<1>4. s.file = s.ok
  BY <1>2, <1>3 DEF Sends, FindsTaken
<1>5. Earned(s, a2.rc, a2.out) => Earned(s, a.rc, a.out)
  BY <1>1, <1>4 DEF Earned
<1>6. /\ Earned(s, a.rc, a.out) => (Binds(p, k.op) => w.post) /\ (Sole(p, k.op) => w.touched)
      /\ k.op = "change_dir" => a.pwd = k.a \/ a.pwd \in PathLeft(k.a)
  BY <1>1 DEF Promised, PromisedAnswer, s
<1>7. k.op = "change_dir" => s.on = k.a
  BY <1>2 DEF Sends, Changes
<1>8. Earned(s, a2.rc, a2.out) => (Binds(p, k.op) => w2.post) /\ (Sole(p, k.op) => w2.touched)
  BY <1>1, <1>5, <1>6
<1>9. k.op = "change_dir" => a2.pwd = k.a \/ a2.pwd \in PathLeft(k.a)
  BY <1>1, <1>6, <1>7
<1> QED
  BY <1>1, <1>8, <1>9 DEF PromisedAnswer, s

\* The answer taken.
LEMMA TakenPromised ==
  ASSUME NEW p \in {"scp", "sftp"}, NEW k, NEW a, NEW r, NEW w,
         Typed(p, k, a, r, w), InCall(p, k, a, r, w), Promised(p, k, a, r, w),
         NEW k2, NEW a2, NEW r2, NEW w2, Takes(p, k, a, r, w, k2, a2, r2, w2)
  PROVE  PromisedCall(k2, w) /\ PromisedResult(p, r2, w)
<1> DEFINE n == NotedOf(p, k, a)
           verdict == VerdictOf(p, k, a)
           more == n.step < Len(StepsOf(p, n))
<1>1. k # Idle /\ a # NoAnswer /\ Busy(p, k) /\ (a = Err \/ AnswerOK(k, a))
  BY DEF Takes, Typed
<1>2. \/ k2 = [n EXCEPT !.step = @ + 1] /\ r2 = r
      \/ verdict = GoOn /\ ~more /\ k2 = Idle /\ \E value : r2 = Result(n.op, "Ok", value)
      \/ k2 = Idle /\ \E value : r2 = Result(n.op, verdict, value)
  BY DEF Takes
<1>3. n \in CallsOf(p) /\ n.op = k.op
  BY <1>1, NotedTyped
<1>4. k.op \notin Unpromised /\ (verdict = "Ok" \/ (verdict = GoOn /\ ~more))
      => a # Err /\ Earned(Now(p, k), a.rc, a.out)
  BY <1>1, OkIsEarned
<1> HIDE DEF n, verdict, more
<1>5. k2 # Idle => k2.op = k.op
  BY <1>2, <1>3 DEF CallsOf
<1>6. r.kind = "none"
  BY <1>1 DEF InCall, Result
<1>7. r2.kind = "Ok" => r2.op = k.op /\ (verdict = "Ok" \/ (verdict = GoOn /\ ~more))
  BY <1>2, <1>3, <1>6 DEF Result
<1>8. PromisedResult(p, r2, w)
  <2> SUFFICES ASSUME r2.kind = "Ok"
               PROVE  (Binds(p, k.op) => w.post) /\ (Sole(p, k.op) => w.touched)
    BY <1>7 DEF PromisedResult
  <2>1. CASE k.op \in Unpromised
    BY <1>1, <2>1 DEF Promised, PromisedCall, Unpromised, Sole
  <2>2. CASE k.op \notin Unpromised
    BY <1>1, <1>4, <1>7, <2>2 DEF Promised, PromisedAnswer
  <2> QED
    BY <2>1, <2>2
<1>9. PromisedCall(k2, w)
  BY <1>1, <1>5 DEF Promised, PromisedCall
<1> QED
  BY <1>8, <1>9

\* Every move keeps it.
LEMMA MovesPromised ==
  ASSUME NEW p \in {"scp", "sftp"}, NEW k, NEW a, NEW r, NEW w,
         Typed(p, k, a, r, w), InCall(p, k, a, r, w), Promised(p, k, a, r, w),
         NEW k2, NEW a2, NEW r2, NEW w2, Moves(p, k, a, r, w, k2, a2, r2, w2)
  PROVE  Promised(p, k2, a2, r2, w2)
<1>1. CASE Watches(p, k, a, r, w, k2, a2, r2, w2)
  <2>1. Grows(w, w2) /\ k2 = k /\ r2 = r /\ a2 = a
    BY <1>1, HistoryGrows DEF Watches
  <2> QED
    BY <2>1, PromisedGrows DEF Promised
<1>2. CASE StaysLocal(p, k, a, r, w, k2, a2, r2, w2)
  <2>1. k2 = Idle /\ w2.op = "idle"
    BY <1>2 DEF StaysLocal, NothingSeen
  <2> QED
    BY <2>1 DEF Promised, PromisedAnswer, PromisedCall, PromisedResult
<1>3. CASE Begins(p, k, a, r, w, k2, a2, r2, w2)
  <2>1. PICK op, x, y, target, t :
          /\ w2 = FirstLookOf(p, op, x, y, target, t)
          /\ r2 = Result(op, "NotConnected", {}) \/ r2 = Result(op, "none", {})
          /\ k2 = Idle \/ k2 = NewCall(op, x, y, target)
    BY <1>3 DEF Begins
  <2>2. a2 = NoAnswer
    BY <1>3 DEF Begins, Typed
  <2>3. r2.kind # "Ok"
    BY <2>1 DEF Result
  <2>4. op \in Unpromised => w2.post
    BY <2>1, TheFirstLook
  <2>5. k2 # Idle => k2.op = op
    BY <2>1 DEF NewCall
  <2> QED
    BY <2>2, <2>3, <2>4, <2>5 DEF Promised, PromisedAnswer, PromisedCall, PromisedResult
<1>4. CASE IsServed(p, k, a, r, w, k2, a2, r2, w2)
  <2>1. Grows(w, w2) /\ k2 = k /\ r2 = r
    BY <1>4, HistoryGrows
  <2>2. PromisedAnswer(p, k2, a2, w2)
    BY <1>4, ServedPromised
  <2> QED
    BY <2>1, <2>2, PromisedGrows DEF Promised
<1>5. CASE Fails(p, k, a, r, w, k2, a2, r2, w2)
  <2>1. Grows(w, w2) /\ k2 = k /\ r2 = r /\ a2 = Err
    BY <1>5, HistoryGrows DEF Fails
  <2>2. PromisedAnswer(p, k2, a2, w2)
    BY <2>1 DEF PromisedAnswer
  <2> QED
    BY <2>1, <2>2, PromisedGrows DEF Promised
<1>6. CASE IsCut(p, k, a, r, w, k2, a2, r2, w2)
  <2>1. Grows(w, w2) /\ k2 = k /\ r2 = r
    BY <1>6, HistoryGrows
  <2>2. PromisedAnswer(p, k2, a2, w2)
    BY <1>6, CutPromised
  <2> QED
    BY <2>1, <2>2, PromisedGrows DEF Promised
<1>7. CASE Takes(p, k, a, r, w, k2, a2, r2, w2)
  <2>1. a2 = NoAnswer /\ w2 = w
    BY <1>7 DEF Takes
  <2>2. PromisedCall(k2, w) /\ PromisedResult(p, r2, w)
    BY <1>7, TakenPromised
  <2> QED
    BY <2>1, <2>2 DEF Promised, PromisedAnswer
<1> QED
  BY <1>1, <1>2, <1>3, <1>4, <1>5, <1>6, <1>7 DEF Moves

-----------------------------------------------------------------------------
(* The theorems.                                                           *)

\* The invariant of every client.
Told(c) ==
    /\ InCall(proto[c], call[c], answer[c], result[c], saw[c])
    /\ Definite(proto[c], call[c], answer[c], result[c], saw[c])
    /\ Honest(proto[c], call[c], answer[c], result[c], saw[c])
    /\ Listings(proto[c], call[c], answer[c], result[c], saw[c])
    /\ Promised(proto[c], call[c], answer[c], result[c], saw[c])

ClientsInv == Shape /\ \A c \in Clients : Told(c)

\* It holds at the start.
LEMMA InitClientsInv ==
  ASSUME Init
  PROVE  ClientsInv
<1>1. ASSUME NEW c \in Clients PROVE Told(c)
  <2>1. /\ call[c] = Idle /\ answer[c] = NoAnswer
        /\ result[c] = Result("idle", "none", {})
    BY DEF Init, Result
  <2>2. result[c].op = "idle" /\ result[c].kind = "none" /\ answer[c] # Err
    BY <2>1 DEF Result, NoAnswer, Err
  <2> QED
    BY <2>1, <2>2 DEF Told, InCall, Definite, Honest, HonestResult, HonestAnswer,
       HonestProbe, SaysMissing, Listings, ListedResult, ListedAnswer, ListedCall,
       Promised, PromisedAnswer, PromisedCall, PromisedResult
<1> QED
  BY <1>1, InitShape DEF ClientsInv

\* Every step keeps it, since every step is a move of each client.
LEMMA StepClientsInv ==
  ASSUME ClientsInv, [Next]_vars
  PROVE  ClientsInv'
<1>1. Shape' /\ proto' = proto /\ \A d \in Clients : MovesOf(d)
  BY StepMoves DEF ClientsInv
<1>2. ASSUME NEW c \in Clients PROVE Told(c)'
  <2> DEFINE p == proto[c]
  <2>1. p \in {"scp", "sftp"} /\ Typed(p, call[c], answer[c], result[c], saw[c])
    BY DEF ClientsInv, Shape, Around
  <2>2. Moves(p, call[c], answer[c], result[c], saw[c],
              call'[c], answer'[c], result'[c], saw'[c])
    BY <1>1 DEF MovesOf
  <2>3. /\ InCall(p, call[c], answer[c], result[c], saw[c])
        /\ Definite(p, call[c], answer[c], result[c], saw[c])
        /\ Honest(p, call[c], answer[c], result[c], saw[c])
        /\ Listings(p, call[c], answer[c], result[c], saw[c])
        /\ Promised(p, call[c], answer[c], result[c], saw[c])
    BY DEF ClientsInv, Told
  <2> HIDE DEF p
  <2>4. InCall(p, call'[c], answer'[c], result'[c], saw'[c])
    BY <2>1, <2>2, <2>3, MovesInCall
  <2>5. Definite(p, call'[c], answer'[c], result'[c], saw'[c])
    BY <2>1, <2>2, <2>3, MovesDefinite
  <2>6. Honest(p, call'[c], answer'[c], result'[c], saw'[c])
    BY <2>1, <2>2, <2>3, MovesHonest
  <2>7. Listings(p, call'[c], answer'[c], result'[c], saw'[c])
    BY <2>1, <2>2, <2>3, MovesListed
  <2>8. Promised(p, call'[c], answer'[c], result'[c], saw'[c])
    BY <2>1, <2>2, <2>3, MovesPromised
  <2>9. proto'[c] = p
    BY <1>1 DEF p
  <2> QED
    BY <2>4, <2>5, <2>6, <2>7, <2>8, <2>9 DEF Told
<1> QED
  BY <1>1, <1>2 DEF ClientsInv

\* A call in progress has what it unwraps, is at one of its requests, and an
\* answer belongs to a call; the tree stays one whatever the commands do to it,
\* and the working directory a path whatever is cut of what pwd prints.
THEOREM RemoteTypes == Spec => []TypeOK
<1>1. Init => Shape
  BY InitShape
<1>2. Shape /\ [Next]_vars => Shape'
  BY StepMoves
<1>3. Shape => TypeOK
  BY ShapeTypes
<1> QED
  BY <1>1, <1>2, <1>3, PTL DEF Spec

\* An error of either client means that the call changed nothing on the server,
\* but for the errors a lost answer may be reported as and the two that stand for
\* a request that stopped half way.
THEOREM ErrorsAreDefinite == Spec => []DefiniteErrors
<1>1. Init => ClientsInv
  BY InitClientsInv
<1>2. ClientsInv /\ [Next]_vars => ClientsInv'
  BY StepClientsInv
<1>3. ClientsInv => DefiniteErrors
  <2> SUFFICES ASSUME ClientsInv, NEW c \in Clients
               PROVE  /\ result[c].kind \notin {"none", "Ok"} /\ saw[c].touched
                      /\ <<result[c].op, result[c].kind>> \notin Partial
                      => /\ saw[c].fault
                         /\ \/ result[c].kind = "ProtocolError"
                            \/ <<result[c].op, result[c].kind>> \in Vague(proto[c])
    BY DEF DefiniteErrors
  <2>1. Definite(proto[c], call[c], answer[c], result[c], saw[c])
    BY DEF ClientsInv, Told
  <2> QED
    BY <2>1 DEF Definite
<1> QED
  BY <1>1, <1>2, <1>3, PTL DEF Spec

\* What a call of either client says about the existence of a path was so at some
\* moment of the call; a missing file may also stand for a lookup that the server
\* denied, a lost or cut answer, or a line of ls that the SCP client cannot read.
THEOREM LookupsAreHonest == Spec => []HonestLookups
<1>1. Init => ClientsInv
  BY InitClientsInv
<1>2. ClientsInv /\ [Next]_vars => ClientsInv'
  BY StepClientsInv
<1>3. ClientsInv => HonestLookups
  <2> SUFFICES ASSUME ClientsInv
               PROVE  HonestLookups
    OBVIOUS
  <2>1. \A c \in Clients : HonestResult(proto[c], result[c], saw[c])
    BY DEF ClientsInv, Told, Honest
  <2> QED
    BY <2>1 DEF HonestLookups, HonestResult, SaysMissing, MaskedBy
<1> QED
  BY <1>1, <1>2, <1>3, PTL DEF Spec

\* list_dir of either client misses nothing that was there all the time in a line it
\* can read, unless the listing was denied or cut, and lists nothing that never was,
\* whatever happens between readdir and the readlinks.
THEOREM ListingsAreFaithful == Spec => []ListingFaithful
<1>1. Init => ClientsInv
  BY InitClientsInv
<1>2. ClientsInv /\ [Next]_vars => ClientsInv'
  BY StepClientsInv
<1>3. ClientsInv => ListingFaithful
  <2> SUFFICES ASSUME ClientsInv
               PROVE  ListingFaithful
    OBVIOUS
  <2>1. \A c \in Clients : ListedResult(proto[c], result[c], saw[c])
    BY DEF ClientsInv, Told, Listings
  <2> QED
    BY <2>1 DEF ListingFaithful, ListedResult, Covered, Sighted, Linked
<1> QED
  BY <1>1, <1>2, <1>3, PTL DEF Spec

\* The working directory after a change_dir that returned Ok: the one it was told,
\* or what the cut of its answer left.
Went(c) ==
    result[c].op = "change_dir" /\ result[c].kind = "Ok" /\ saw[c].op # "idle" =>
       wrkdir[c] = saw[c].a \/ (saw[c].cut /\ wrkdir[c] \in PathLeft(saw[c].a))

\* It stays there until the next call.
LEMMA StepWent ==
  ASSUME ClientsInv, [Next]_vars, NEW c \in Clients, Went(c)
  PROVE  Went(c)'
<1> DEFINE p == proto[c]
           k == call[c]
           a == answer[c]
           r == result[c]
           w == saw[c]
           k2 == call'[c]
           a2 == answer'[c]
           r2 == result'[c]
           w2 == saw'[c]
<1>1. /\ p \in {"scp", "sftp"} /\ Typed(p, k, a, r, w) /\ InCall(p, k, a, r, w)
      /\ Promised(p, k, a, r, w)
  BY DEF ClientsInv, Shape, Around, Told
<1>2. Moves(p, k, a, r, w, k2, a2, r2, w2)
  BY StepMoves DEF ClientsInv, MovesOf
<1>3. \/ wrkdir'[c] = wrkdir[c]
         /\ (k # Idle /\ k2 = Idle /\ r2.op = "change_dir" => r2.kind # "Ok")
      \/ r2.op = "connect"
      \/ /\ k # Idle /\ k2 = Idle /\ k.op = "change_dir" /\ a # NoAnswer /\ a # Err
         /\ wrkdir'[c] \in {k.a, a.pwd}
  BY StepGoes DEF ClientsInv, Goes
<1>4. r.op = "change_dir" /\ r.kind = "Ok" /\ w.op # "idle" =>
         wrkdir[c] = w.a \/ (w.cut /\ wrkdir[c] \in PathLeft(w.a))
  BY DEF Went
<1> HIDE DEF p, k, a, r, w, k2, a2, r2, w2
<1>5. r2.op = "change_dir" /\ r2.kind = "Ok" /\ w2.op # "idle" =>
         wrkdir'[c] = w2.a \/ (w2.cut /\ wrkdir'[c] \in PathLeft(w2.a))
  <2>1. CASE \/ Watches(p, k, a, r, w, k2, a2, r2, w2) \/ IsServed(p, k, a, r, w, k2, a2, r2, w2)
             \/ Fails(p, k, a, r, w, k2, a2, r2, w2) \/ IsCut(p, k, a, r, w, k2, a2, r2, w2)
    <3>1. Grows(w, w2) /\ k2 = k /\ r2 = r
      BY <1>1, <2>1, HistoryGrows
    <3>2. r2.op = "connect" \/ wrkdir'[c] = wrkdir[c]
      BY <1>3, <3>1
    <3> QED
      BY <1>4, <3>1, <3>2 DEF Grows
  <2>2. CASE StaysLocal(p, k, a, r, w, k2, a2, r2, w2)
    BY <2>2 DEF StaysLocal, NothingSeen
  <2>3. CASE Begins(p, k, a, r, w, k2, a2, r2, w2)
    BY <2>3 DEF Begins, Result
  <2>4. CASE Takes(p, k, a, r, w, k2, a2, r2, w2)
    <3>1. k # Idle /\ w2 = w /\ (k2 = Idle \/ r2 = r)
      BY <2>4 DEF Takes
    <3>2. r.kind = "none" /\ w.a = k.a
      BY <1>1, <3>1 DEF InCall, Result
    <3>3. k.op = "change_dir" /\ a # NoAnswer /\ a # Err =>
             a.pwd = k.a \/ (w.cut /\ a.pwd \in PathLeft(k.a))
      BY <1>1, <3>1 DEF Promised, PromisedAnswer
    <3> QED
      BY <1>3, <3>1, <3>2, <3>3
  <2> QED
    BY <1>2, <2>1, <2>2, <2>3, <2>4 DEF Moves
<1> QED
  BY <1>5 DEF Went, r2, w2

\* A call of either client that returns Ok has had its effect, whatever the other
\* clients did meanwhile and whatever answer was lost: what it removed was gone,
\* what it made was there, what it moved was at its new place.  ScpFs::symlink
\* alone cannot promise that, and the SCP client's change_dir may end up less deep
\* than told when the answer of pwd is cut.
THEOREM OkMeansDone == Spec => []OkIsDone
<1> DEFINE Inv == ClientsInv /\ \A c \in Clients : Went(c)
<1>1. Init => Inv
  <2> SUFFICES ASSUME Init PROVE Inv
    OBVIOUS
  <2>1. \A c \in Clients : result[c].kind = "none"
    BY DEF Init
  <2> QED
    BY <2>1, InitClientsInv DEF Went
<1>2. Inv /\ [Next]_vars => Inv'
  <2> SUFFICES ASSUME Inv, [Next]_vars PROVE Inv'
    OBVIOUS
  <2>1. ClientsInv'
    BY StepClientsInv
  <2>2. ASSUME NEW c \in Clients PROVE Went(c)'
    BY StepWent
  <2> QED
    BY <2>1, <2>2
<1>3. Inv => OkIsDone
  <2> SUFFICES ASSUME Inv, NEW c \in Clients,
                      result[c].kind = "Ok", saw[c].op # "idle",
                      ~(proto[c] = "scp" /\ result[c].op = "symlink")
               PROVE  /\ saw[c].post
                      /\ result[c].op = "change_dir" =>
                            wrkdir[c] \in {saw[c].a} \cup
                                          (IF saw[c].cut THEN PathLeft(saw[c].a) ELSE {})
    BY DEF OkIsDone
  <2>1. PromisedResult(proto[c], result[c], saw[c])
    BY DEF ClientsInv, Told, Promised
  <2>2. saw[c].post
    BY <2>1 DEF PromisedResult, Binds
  <2>3. result[c].op = "change_dir" =>
           wrkdir[c] = saw[c].a \/ (saw[c].cut /\ wrkdir[c] \in PathLeft(saw[c].a))
    BY DEF Went
  <2> QED
    BY <2>2, <2>3
<1> QED
  BY <1>1, <1>2, <1>3, PTL DEF Spec

-----------------------------------------------------------------------------
(* What a request does is what its call asks for.                          *)

\* Entitled, method by method.
LEMMA Entitlements ==
  ASSUME NEW p, NEW w, NEW t, NEW u
  PROVE  /\ w.op = "remove_file" /\ Gone(t, u) = {Place(t, w.a)} /\ Entry(t, w.a) # Dir
            /\ Fresh(t, u) = {} => Entitled(p, w, t, u)
         /\ w.op = "remove_dir" /\ Gone(t, u) = {Place(t, w.a)} /\ Entry(t, w.a) = Dir
            /\ Fresh(t, u) = {} => Entitled(p, w, t, u)
         /\ w.op = "remove_dir_all" /\ Gone(t, u) \subseteq Below(t, Place(t, w.a))
            /\ Fresh(t, u) = {} => Entitled(p, w, t, u)
         /\ w.op = "create_dir" /\ Gone(t, u) = {} /\ Fresh(t, u) = {Place(t, w.a)}
            => Entitled(p, w, t, u)
         /\ w.op = "symlink"
            /\ NewLink(t, u, IF p = "scp" THEN Goal(t, w.a, Last(w.target.names))
                                        ELSE Place(t, w.a), w.target)
            => Entitled(p, w, t, u)
         /\ w.op = "exec" /\ Gone(t, u) = {} /\ Cardinality(Fresh(t, u)) = 1
            => Entitled(p, w, t, u)
<1> USE DEF Gone, Fresh
<1>1. w.op = "remove_file" /\ Gone(t, u) = {Place(t, w.a)} /\ Entry(t, w.a) # Dir
      /\ Fresh(t, u) = {} => Entitled(p, w, t, u)
  BY DEF Entitled
<1>2. w.op = "remove_dir" /\ Gone(t, u) = {Place(t, w.a)} /\ Entry(t, w.a) = Dir
      /\ Fresh(t, u) = {} => Entitled(p, w, t, u)
  BY DEF Entitled
<1>3. w.op = "remove_dir_all" /\ Gone(t, u) \subseteq Below(t, Place(t, w.a))
      /\ Fresh(t, u) = {} => Entitled(p, w, t, u)
  BY DEF Entitled
<1>4. w.op = "create_dir" /\ Gone(t, u) = {} /\ Fresh(t, u) = {Place(t, w.a)}
      => Entitled(p, w, t, u)
  BY DEF Entitled
<1>5. w.op = "symlink"
      /\ NewLink(t, u, IF p = "scp" THEN Goal(t, w.a, Last(w.target.names))
                                  ELSE Place(t, w.a), w.target)
      => Entitled(p, w, t, u)
  BY DEF Entitled, NewLink
<1>6. w.op = "exec" /\ Gone(t, u) = {} /\ Cardinality(Fresh(t, u)) = 1
      => Entitled(p, w, t, u)
  BY DEF Entitled
<1> QED
  BY <1>1, <1>2, <1>3, <1>4, <1>5, <1>6

\* Writing a file: a new one, or with SftpFs::create the one the path leads to.
LEMMA EntitledToWrite ==
  ASSUME NEW p, NEW w, NEW t, NEW u, NEW e, u[e].kind = "file"
  PROVE  /\ (w.op = "append" \/ (w.op = "create" /\ p = "scp"))
            /\ Gone(t, u) = {} /\ Fresh(t, u) = {e} => Entitled(p, w, t, u)
         /\ w.op = "create" /\ p = "sftp" /\ Real(u, w.a) = e
            /\ \/ Gone(t, u) = {} /\ Fresh(t, u) = {e}
               \/ t[e].kind = "file" /\ Gone(t, u) = {e} /\ Fresh(t, u) = {}
            => Entitled(p, w, t, u)
<1> USE DEF Gone, Fresh
<1>0. Cardinality({e}) = 1
  BY FS_Singleton
<1>1. (w.op = "append" \/ (w.op = "create" /\ p = "scp"))
      /\ Gone(t, u) = {} /\ Fresh(t, u) = {e} => Entitled(p, w, t, u)
  BY <1>0 DEF Entitled
<1>2. ASSUME w.op = "create", p = "sftp", Real(u, w.a) = e,
             Gone(t, u) = {}, Fresh(t, u) = {e}
      PROVE  Entitled(p, w, t, u)
  <2>1. Gone(t, u) \cup Fresh(t, u) = {e}
    BY <1>2
  <2>2. {q \in Gone(t, u) : t[q].kind = "file" /\ u[q].kind = "file"} = Gone(t, u)
    BY <1>2
  <2> QED
    BY <1>0, <1>2, <2>1, <2>2 DEF Entitled
<1>3. ASSUME w.op = "create", p = "sftp", Real(u, w.a) = e,
             t[e].kind = "file", Gone(t, u) = {e}, Fresh(t, u) = {}
      PROVE  Entitled(p, w, t, u)
  <2>1. Gone(t, u) \cup Fresh(t, u) = {e}
    BY <1>3
  <2>2. {q \in Gone(t, u) : t[q].kind = "file" /\ u[q].kind = "file"} = Gone(t, u)
    BY <1>3
  <2> QED
    BY <1>0, <1>3, <2>1, <2>2 DEF Entitled
<1> QED
  BY <1>1, <1>2, <1>3

\* Copying and moving.
LEMMA EntitledToCopy ==
  ASSUME NEW p, NEW w, NEW t, NEW u
  PROVE  /\ /\ w.op = "copy"
            /\ \A q \in Gone(t, u) : t[q].kind = "file" /\ u[q].kind = "file"
            /\ \A q \in Gone(t, u) \cup Fresh(t, u) :
                  \E r \in Below(t, Place(t, w.a)) : u[q] = t[r]
            => Entitled(p, w, t, u)
         /\ \A goal :
               /\ w.op = "mov"
               /\ goal = Target(p, w, t)
               /\ Gone(t, u) \subseteq Below(t, Place(t, w.a)) \cup {goal}
               /\ \A r \in Below(t, Place(t, w.a)) : u[Image(Place(t, w.a), goal, r)] = t[r]
               => Entitled(p, w, t, u)
<1> USE DEF Gone, Fresh
<1>1. /\ w.op = "copy"
      /\ \A q \in Gone(t, u) : t[q].kind = "file" /\ u[q].kind = "file"
      /\ \A q \in Gone(t, u) \cup Fresh(t, u) :
            \E r \in Below(t, Place(t, w.a)) : u[q] = t[r]
      => Entitled(p, w, t, u)
  BY DEF Entitled
<1>2. ASSUME NEW goal,
             w.op = "mov",
             goal = Target(p, w, t),
             Gone(t, u) \subseteq Below(t, Place(t, w.a)) \cup {goal},
             \A r \in Below(t, Place(t, w.a)) : u[Image(Place(t, w.a), goal, r)] = t[r]
      PROVE  Entitled(p, w, t, u)
  BY <1>2 DEF Entitled
<1> QED
  BY <1>1, <1>2

\* The request that changes the tree, method by method.
LEMMA ServedIsEntitled ==
  ASSUME TreeOK(tree), NEW c, proto[c] \in {"scp", "sftp"}, wrkdir[c] \in Seq(Names),
         Busy(proto[c], call[c]), NEW w,
         w.op = call[c].op, w.a = call[c].a, w.b = call[c].b, w.target = call[c].target,
         NEW o \in Outcomes(c, Current(c)), o.tree # tree
  PROVE  call[c].op \in Mutators /\ Entitled(proto[c], w, tree, o.tree)
<1> DEFINE p == proto[c]
           k == call[c]
           s == Current(c)
           u == o.tree
<1>1. k.a \in Seq(Names) /\ k.b \in Seq(Names) /\ k.target \in Arg
  BY DEF Busy, CallsOf
<1>2. Sends(p, k, s, k.step)
  BY NowSends, OfOneClient
<1>3. s.cmd \in Commands /\ s.on \in Seq(Names)
  BY <1>2 DEF Sends
<1>4. ~Looks(s.cmd)
  BY <1>1, <1>3, OutcomesEffect DEF Effect
<1>5. s.on = k.a /\ <<k.op, s.cmd>> \in Mutations(p)
  BY <1>2, <1>4 DEF Sends, Writes
<1>6. k.op \in Mutators
  BY <1>5 DEF Mutations, Mutators
<1> HIDE DEF p, s, u
<1>7. Entitled(p, w, tree, u)
  <2>1. CASE <<k.op, s.cmd>> \in {<<"remove_file", "rm -f">>, <<"remove_file", "unlink">>}
    <3>1. o \in RmF(tree, k.a) \cup Unlink(tree, k.a)
      BY <1>5, <2>1 DEF Outcomes, Questions, s
    <3>2. Gone(tree, u) = {Place(tree, k.a)} /\ Entry(tree, k.a) # Dir /\ Fresh(tree, u) = {}
      BY <1>1, <3>1, RemoveTakes DEF u
    <3> QED
      BY <2>1, <3>2, Entitlements
  <2>2. CASE k.op = "remove_dir" /\ s.cmd = "rmdir"
    <3>1. o \in RmDir(tree, k.a)
      BY <1>5, <2>2 DEF Outcomes, Questions, s
    <3>2. Gone(tree, u) = {Place(tree, k.a)} /\ Entry(tree, k.a) = Dir /\ Fresh(tree, u) = {}
      BY <1>1, <3>1, RmDirTakes DEF u
    <3> QED
      BY <2>2, <3>2, Entitlements
  <2>3. CASE k.op = "remove_dir_all" /\ s.cmd = "rm -rf"
    <3>1. o \in RmRF(tree, k.a)
      BY <1>5, <2>3 DEF Outcomes, Questions, s
    <3>2. Gone(tree, u) \subseteq Below(tree, Place(tree, k.a)) /\ Fresh(tree, u) = {}
      BY <1>1, <3>1, RmRFTakes DEF u
    <3> QED
      BY <2>3, <3>2, Entitlements
  <2>4. CASE k.op = "create_dir" /\ s.cmd = "mkdir"
    <3>1. o \in MkDir(tree, k.a)
      BY <1>5, <2>4 DEF Outcomes, Questions, s
    <3>2. Gone(tree, u) = {} /\ Fresh(tree, u) = {Place(tree, k.a)}
      BY <1>1, <3>1, MkDirMakes DEF u
    <3> QED
      BY <2>4, <3>2, Entitlements
  <2>5. CASE \/ p = "scp" /\ k.op = "symlink" /\ s.cmd = "ln -s"
             \/ p = "sftp" /\ k.op = "symlink" /\ s.cmd = "symlink"
    <3> DEFINE e == IF p = "scp" THEN Goal(tree, k.a, Last(k.target.names))
                                 ELSE Place(tree, k.a)
    <3>1. \/ o \in LnS(tree, k.target, k.a) /\ e = Goal(tree, k.a, Last(k.target.names))
          \/ o \in SymlinkAt(tree, k.target, k.a) /\ e = Place(tree, k.a)
      BY <1>5, <2>5 DEF Outcomes, Questions, s
    <3> HIDE DEF e
    <3>2. NewLink(tree, o.tree, e, k.target)
      BY <1>1, <3>1, LinkMakes
    <3>3. NewLink(tree, u, IF p = "scp" THEN Goal(tree, w.a, Last(w.target.names))
                                        ELSE Place(tree, w.a), w.target)
      BY <3>2 DEF e, u
    <3> QED
      BY <2>5, <3>3, Entitlements
  <2>6. CASE k.op = "exec" /\ s.cmd = "exec"
    <3>1. PICK d \in ExecDirs(c) : o \in MkDir(tree, d \o k.target.names)
      BY <2>6 DEF Outcomes, Questions, s
    <3>2. d \o k.target.names \in Seq(Names)
      BY <1>1, PathsAreShort, RemoteFsAssumption DEF Arg, ExecDirs
    <3>3. PICK e : Gone(tree, u) = {} /\ Fresh(tree, u) = {e}
      <4>1. /\ Gone(tree, o.tree) = {}
            /\ Fresh(tree, o.tree) = {Place(tree, d \o k.target.names)}
        BY <3>1, <3>2, MkDirMakes
      <4> QED
        BY <4>1 DEF u
    <3>4. Cardinality(Fresh(tree, u)) = 1
      BY <3>3, FS_Singleton
    <3> QED
      BY <2>6, <3>3, <3>4, Entitlements
  <2>7. CASE k.op = "copy" /\ s.cmd = "cp -rf"
    <3>1. o \in CpRF(tree, k.a, k.b)
      BY <1>5, <2>7 DEF Outcomes, Questions, s
    <3>2. /\ \A q \in Gone(tree, u) : tree[q].kind = "file" /\ u[q].kind = "file"
          /\ \A q \in Gone(tree, u) \cup Fresh(tree, u) :
                \E r \in Below(tree, Place(tree, k.a)) : u[q] = tree[r]
      BY <1>1, <3>1, CpRFMakes, ZenonT(60) DEF u
    <3> QED
      BY <2>7, <3>2, EntitledToCopy
  <2>8. CASE p = "scp" /\ k.op = "mov" /\ s.cmd = "mv -f"
    <3> DEFINE goal == Goal(tree, k.b, Last(k.a))
    <3>1. o \in MvF(tree, k.a, k.b)
      BY <1>5, <2>8 DEF Outcomes, Questions, s
    <3>2. /\ Gone(tree, u) \subseteq Below(tree, Place(tree, k.a)) \cup {goal}
          /\ \A r \in Below(tree, Place(tree, k.a)) :
                u[Image(Place(tree, k.a), goal, r)] = tree[r]
      BY <1>1, <3>1, MvFMoves DEF u
    <3>3. goal = Target(p, w, tree)
      BY <2>8 DEF Target
    <3> HIDE DEF goal
    <3> QED
      BY <2>8, <3>2, <3>3, EntitledToCopy, ZenonT(60)
  <2>9. CASE p = "sftp" /\ k.op = "mov" /\ s.cmd = "rename"
    <3> DEFINE goal == Place(tree, k.b)
    <3>1. o \in Rename(tree, k.a, k.b)
      BY <1>5, <2>9 DEF Outcomes, Questions, s
    <3>2. /\ Gone(tree, u) \subseteq Below(tree, Place(tree, k.a)) \cup {goal}
          /\ \A r \in Below(tree, Place(tree, k.a)) :
                u[Image(Place(tree, k.a), goal, r)] = tree[r]
      BY <1>1, <3>1, RenameMoves DEF u
    <3>3. goal = Target(p, w, tree)
      BY <2>9 DEF Target
    <3> HIDE DEF goal
    <3> QED
      BY <2>9, <3>2, <3>3, EntitledToCopy
  <2>10. CASE p = "scp" /\ k.op = "create" /\ s.cmd = "scp -t"
    <3>1. o \in ScpT(tree, k.a, c)
      BY <1>5, <2>10 DEF Outcomes, Questions, s
    <3>2. NewFile(tree, o.tree)
      BY <1>1, <3>1, ScpTMakes
    <3>3. PICK e \in Paths : Gone(tree, u) = {} /\ Fresh(tree, u) = {e} /\ u[e].kind = "file"
      BY <3>2 DEF u, NewFile
    <3> QED
      BY <2>10, <3>3, EntitledToWrite
  <2>11. CASE p = "sftp" /\ k.op = "append" /\ s.cmd = "open append"
    <3>1. o \in OpenCreat(tree, k.a, c, FALSE)
      BY <1>5, <2>11 DEF Outcomes, Questions, s
    <3>2. OneFile(tree, u, k.a, FALSE)
      BY <1>1, <3>1, OpenCreatMakes DEF u
    <3>3. PICK e \in Paths : Gone(tree, u) = {} /\ Fresh(tree, u) = {e} /\ u[e].kind = "file"
      BY <3>2 DEF OneFile
    <3> QED
      BY <2>11, <3>3, EntitledToWrite
  <2>12. CASE p = "sftp" /\ k.op = "create" /\ s.cmd = "open create"
    <3>1. o \in OpenCreat(tree, k.a, c, TRUE)
      BY <1>5, <2>12 DEF Outcomes, Questions, s
    <3>2. OneFile(tree, u, k.a, TRUE)
      BY <1>1, <3>1, OpenCreatMakes DEF u
    <3>3. PICK e \in Paths :
             /\ u[e].kind = "file" /\ Real(u, k.a) = e
             /\ \/ Gone(tree, u) = {} /\ Fresh(tree, u) = {e}
                \/ tree[e].kind = "file" /\ Gone(tree, u) = {e} /\ Fresh(tree, u) = {}
      BY <3>2 DEF OneFile
    <3> QED
      BY <2>12, <3>3, EntitledToWrite
  <2>13. CASE p = "scp"
    <3>1. <<k.op, s.cmd>> \in
             {<<"remove_file", "rm -f">>, <<"remove_dir", "rmdir">>,
              <<"remove_dir_all", "rm -rf">>, <<"create_dir", "mkdir">>,
              <<"symlink", "ln -s">>, <<"copy", "cp -rf">>, <<"mov", "mv -f">>,
              <<"exec", "exec">>, <<"create", "scp -t">>}
      BY <1>5, <2>13 DEF Mutations
    <3> QED
      BY <2>1, <2>2, <2>3, <2>4, <2>5, <2>6, <2>7, <2>8, <2>10, <2>13, <3>1
  <2>14. CASE p = "sftp"
    <3>1. <<k.op, s.cmd>> \in
             {<<"remove_file", "unlink">>, <<"remove_dir", "rmdir">>,
              <<"create_dir", "mkdir">>, <<"symlink", "symlink">>, <<"copy", "cp -rf">>,
              <<"mov", "rename">>, <<"exec", "exec">>, <<"append", "open append">>,
              <<"create", "open create">>}
      BY <1>5, <2>14 DEF Mutations
    <3> QED
      BY <2>1, <2>2, <2>4, <2>5, <2>6, <2>7, <2>9, <2>11, <2>12, <2>14, <3>1
  <2>15. p \in {"scp", "sftp"}
    BY DEF p
  <2> QED
    BY <2>13, <2>14, <2>15
<1> QED
  BY <1>6, <1>7 DEF p, u

\* Only the server's answer to a request changes the tree.
LEMMA OnlyServing ==
  ASSUME [Next]_vars, tree' # tree
  PROVE  \E c \in Clients : Serve(c)
<1>1. Next
  BY DEF vars
<1>2. PICK c \in Clients :
         \/ ScpConnect(c) \/ SftpConnect(c) \/ ConnectFails(c)
         \/ Disconnect(c) \/ DisconnectFails(c) \/ AppendUnsupported(c)
         \/ Invoke(c) \/ Take(c)
         \/ Serve(c) \/ Unsent(c) \/ Lost(c) \/ Cut(c) \/ LinkBreaks(c)
  BY <1>1 DEF Next
<1>3. tree' = tree \/ Serve(c)
  BY <1>2 DEF ScpConnect, SftpConnect, ConnectFails, Disconnect, DisconnectFails,
     AppendUnsupported, Local, Invoke, Take, Unsent, Lost, Cut, LinkBreaks
<1> QED
  BY <1>3

\* A request that changes the tree is one of a call that is to change it, and
\* changes what the call names and nothing else: no other entry is lost and none
\* appears that was not asked for, with links and other clients' calls in between.
THEOREM EffectsAreEntitled == Spec => EffectsEntitled
<1>1. Init => ClientsInv
  BY InitClientsInv
<1>2. ClientsInv /\ [Next]_vars => ClientsInv'
  BY StepClientsInv
<1>3. ClientsInv /\ [Next]_vars =>
        [\A c \in Clients :
            tree' # tree /\ answer[c] = NoAnswer /\ answer'[c] # NoAnswer =>
               /\ call[c].op \in Mutators
               /\ Entitled(proto[c], saw[c], tree, tree')]_vars
  <2> SUFFICES ASSUME ClientsInv, [Next]_vars, NEW c \in Clients,
                      tree' # tree, answer[c] = NoAnswer, answer'[c] # NoAnswer
               PROVE  call[c].op \in Mutators /\ Entitled(proto[c], saw[c], tree, tree')
    OBVIOUS
  <2>1. PICK d \in Clients : Serve(d)
    BY OnlyServing
  <2>2. PICK o \in Outcomes(d, Current(d)) :
           /\ tree' = o.tree
           /\ answer' = [answer EXCEPT ![d] =
                           [rc |-> o.rc,
                            out |-> IF o.rc = "0" THEN Output(Current(d)) ELSE {},
                            pwd |-> Current(d).on]]
    BY <2>1 DEF Serve
  <2>3. d = c
    BY <2>2
  <2>4. call[c] # Idle
    BY <2>1, <2>3 DEF Serve, Waiting
  <2>5. /\ TreeOK(tree) /\ wrkdir[c] \in Seq(Names) /\ proto[c] \in {"scp", "sftp"}
        /\ Busy(proto[c], call[c])
        /\ InCall(proto[c], call[c], answer[c], result[c], saw[c])
    BY <2>4 DEF ClientsInv, Shape, Around, Typed, Told
  <2>6. /\ saw[c].op = call[c].op /\ saw[c].a = call[c].a /\ saw[c].b = call[c].b
        /\ saw[c].target = call[c].target
    BY <2>4, <2>5 DEF InCall
  <2>7. o \in Outcomes(c, Current(c)) /\ o.tree # tree
    BY <2>2, <2>3
  <2>8. call[c].op \in Mutators /\ Entitled(proto[c], saw[c], tree, o.tree)
    BY <2>5, <2>6, <2>7, ServedIsEntitled
  <2> QED
    BY <2>2, <2>8
<1> QED
  BY <1>1, <1>2, <1>3, PTL DEF Spec, EffectsEntitled

-----------------------------------------------------------------------------
(* The contract.                                                           *)

\* A step leaves all that the contract knows of the client d.
SameFor(d) ==
    /\ Asked(d)' = Asked(d) /\ result'[d] = result[d]
    /\ saw'[d].touched = saw[d].touched /\ saw'[d].post = saw[d].post

\* A step that leaves it of all clients is no step of the contract.
LEMMA ContractStutters ==
  ASSUME tree' = tree, proto' = proto, \A d \in Clients : SameFor(d)
  PROVE  UNCHANGED Contract!vars
<1>1. [d \in Clients |-> Asked(d)]' = [d \in Clients |-> Asked(d)]
  BY DEF SameFor
<1>2. [d \in Clients |-> saw[d].touched]' = [d \in Clients |-> saw[d].touched]
  BY DEF SameFor
<1>3. [d \in Clients |-> saw[d].post]' = [d \in Clients |-> saw[d].post]
  BY DEF SameFor
<1>4. [d \in Clients |-> Meaning(proto[d], result[d])]' = [d \in Clients |-> Meaning(proto[d], result[d])]
  BY DEF SameFor
<1> QED
  BY <1>1, <1>2, <1>3, <1>4 DEF Contract!vars

\* A call that is answered.
LEMMA ContractTells ==
  ASSUME tree' = tree, proto' = proto, saw' = saw, NEW c \in Clients, call[c] # Idle,
         call'[c] = Idle, \A d \in Clients : d # c => call'[d] = call[d] /\ result'[d] = result[d],
         LET m == Meaning(proto[c], result'[c])
         IN  \/ m = "done" /\ (Binds(proto[c], call[c].op) => saw[c].post)
                           /\ (Sole(proto[c], call[c].op) => saw[c].touched)
             \/ m = "failed" /\ ~saw[c].touched
             \/ m = "perhaps"
  PROVE  Contract!Tell(c)
<1> DEFINE asked == [d \in Clients |-> Asked(d)]
           told == [d \in Clients |-> Meaning(proto[d], result[d])]
           m == Meaning(proto[c], result'[c])
<1>1. asked' = [asked EXCEPT ![c] = Idle]
  BY DEF Asked
<1>2. told' = [told EXCEPT ![c] = m]
  OBVIOUS
<1>3. asked[c] # Idle /\ asked[c].by = proto[c] /\ asked[c].op = call[c].op
  BY DEF Asked, Idle
<1>4. /\ Binding(asked[c]) <=> Binds(proto[c], call[c].op)
      /\ Alone(asked[c]) <=> Sole(proto[c], call[c].op)
  BY <1>3 DEF Binding, Binds, Alone
<1>5. UNCHANGED <<tree, [d \in Clients |-> saw[d].touched], [d \in Clients |-> saw[d].post]>>
  OBVIOUS
<1> QED
  BY <1>1, <1>2, <1>3, <1>4, <1>5 DEF Contract!Tell

\* What does not concern the tree, or is refused at once.
LEMMA ContractDeclines ==
  ASSUME tree' = tree, proto' = proto, call' = call, NEW c \in Clients, call[c] = Idle,
         ~saw'[c].touched, saw'[c].touched \in BOOLEAN,
         \A d \in Clients : d # c => saw'[d] = saw[d] /\ result'[d] = result[d],
         Meaning(proto[c], result'[c]) \in {"nothing", "failed"}
  PROVE  Contract!Decline(c)
<1> DEFINE acted == [d \in Clients |-> saw[d].touched]
           kept == [d \in Clients |-> saw[d].post]
           told == [d \in Clients |-> Meaning(proto[d], result[d])]
           m == Meaning(proto[c], result'[c])
<1>1. UNCHANGED <<tree, [d \in Clients |-> Asked(d)]>> /\ Asked(c) = Idle
  BY DEF Asked
<1>2. acted' = [acted EXCEPT ![c] = FALSE]
  OBVIOUS
<1>3. kept' = [kept EXCEPT ![c] = kept'[c]]
  OBVIOUS
<1>4. told' = [told EXCEPT ![c] = m]
  OBVIOUS
<1> QED
  BY <1>1, <1>2, <1>3, <1>4 DEF Contract!Decline

\* A call that is made.
LEMMA ContractAsks ==
  ASSUME tree' = tree, proto' = proto, NEW c \in Clients, call[c] = Idle, call'[c] # Idle,
         ~saw'[c].touched, saw'[c].touched \in BOOLEAN,
         saw'[c].post = Promise(Asked(c)', tree, tree),
         \A d \in Clients : d # c => /\ call'[d] = call[d] /\ result'[d] = result[d]
                                     /\ saw'[d] = saw[d],
         Meaning(proto[c], result'[c]) = "nothing"
  PROVE  Contract!Ask(c)
<1> DEFINE asked == [d \in Clients |-> Asked(d)]
           acted == [d \in Clients |-> saw[d].touched]
           kept == [d \in Clients |-> saw[d].post]
           told == [d \in Clients |-> Meaning(proto[d], result[d])]
<1>1. Asked(c) = Idle /\ Asked(c)' # Idle
  BY DEF Asked, Idle
<1>2. asked' = [asked EXCEPT ![c] = Asked(c)'] /\ asked'[c] = Asked(c)'
  BY DEF Asked
<1>3. acted' = [acted EXCEPT ![c] = FALSE]
  OBVIOUS
<1>4. kept' = [kept EXCEPT ![c] = Promise(Asked(c)', tree, tree)]
  OBVIOUS
<1>5. told' = [told EXCEPT ![c] = "nothing"]
  OBVIOUS
<1> QED
  BY <1>1, <1>2, <1>3, <1>4, <1>5 DEF Contract!Ask

\* A request that is run.
LEMMA ContractActs ==
  ASSUME proto' = proto, call' = call, result' = result, NEW c \in Clients, call[c] # Idle,
         \A d \in Clients :
            /\ saw'[d].touched = IF d = c THEN saw[d].touched \/ tree' # tree ELSE saw[d].touched
            /\ saw'[d].post = IF call[d] = Idle THEN saw[d].post
                              ELSE saw[d].post \/ Promise(Asked(d), tree, tree'),
         tree' # tree => ~saw[c].touched /\ Deeds(Asked(c), tree, tree')
  PROVE  Contract!Act(c)
<1> DEFINE asked == [d \in Clients |-> Asked(d)]
           acted == [d \in Clients |-> saw[d].touched]
           kept == [d \in Clients |-> saw[d].post]
<1>1. \A d \in Clients : Asked(d) = Idle <=> call[d] = Idle
  BY DEF Asked, Idle
<1>2. UNCHANGED <<asked, [d \in Clients |-> Meaning(proto[d], result[d])]>>
  BY DEF Asked
<1>3. acted' = [acted EXCEPT ![c] = @ \/ tree' # tree]
  OBVIOUS
<1>4. kept' = [d \in Clients |-> IF asked[d] = Idle THEN kept[d]
                                ELSE kept[d] \/ Promise(asked[d], tree, tree')]
  BY <1>1
<1> QED
  BY <1>1, <1>2, <1>3, <1>4 DEF Contract!Act

-----------------------------------------------------------------------------
(* The clients keep it.                                                    *)

\* What is looked for is there or not.
LEMMA PostIsTruth ==
  ASSUME NEW p, NEW w, NEW t, NEW u
  PROVE  Post(p, w, t, u) \in BOOLEAN
BY DEF Post, TestE, TestD

\* It is a matter of the call's arguments.
LEMMA PostOfCall ==
  ASSUME NEW p, NEW w, NEW q, w.op = q.op, w.a = q.a, w.b = q.b, w.target = q.target,
         NEW t, NEW u
  PROVE  Post(p, w, t, u) = Post(p, q, t, u)
BY DEF Post, HasTarget, Target

\* What a look adds to it.
LEMMA SeePost ==
  ASSUME NEW p, NEW w, DOMAIN w = DOMAIN NothingSeen, NEW t, NEW u
  PROVE  See(p, w, t, u).post = (w.post \/ Post(p, w, t, u))
BY DEF See, NothingSeen

\* What the caller knows of the connection is nothing of the tree.
LEMMA LocalDeclines ==
  ASSUME Shape, NEW c \in Clients,
         \/ ScpConnect(c) \/ SftpConnect(c) \/ ConnectFails(c)
         \/ Disconnect(c) \/ DisconnectFails(c) \/ AppendUnsupported(c)
  PROVE  Contract!Decline(c)
<1>1. PICK op, kind :
         /\ Local(c, op, kind)
         /\ \/ op \in {"connect", "disconnect"}
            \/ op = "append" /\ kind = "UnsupportedFeature" /\ proto[c] = "scp"
  BY DEF ScpConnect, SftpConnect, ConnectFails, Disconnect, DisconnectFails, AppendUnsupported
<1>2. /\ UNCHANGED <<proto, tree, call>> /\ call[c] = Idle
      /\ result' = [result EXCEPT ![c] = Result(op, kind, {})]
      /\ saw' = [saw EXCEPT ![c] = NothingSeen]
  BY <1>1 DEF Local, Returns, Result
<1>3. DOMAIN result = Clients /\ DOMAIN saw = Clients
  BY DEF Shape, Around
<1>4. /\ result'[c] = Result(op, kind, {}) /\ saw'[c] = NothingSeen
      /\ \A d \in Clients : d # c => saw'[d] = saw[d] /\ result'[d] = result[d]
  BY <1>2, <1>3
<1>5. Meaning(proto[c], Result(op, kind, {})) \in {"nothing", "failed"}
  <2> DEFINE r == Result(op, kind, {})
  <2>1. r.op = op /\ r.kind = kind
    BY DEF Result
  <2> HIDE DEF r
  <2>2. op \in {"connect", "disconnect"} => Meaning(proto[c], r) \in {"nothing", "failed"}
    BY <2>1 DEF Meaning
  <2>3. op = "append" /\ kind = "UnsupportedFeature" /\ proto[c] = "scp" =>
           Meaning(proto[c], r) \in {"nothing", "failed"}
    BY <2>1 DEF Meaning, Vague, Partial
  <2> QED
    BY <1>1, <2>2, <2>3 DEF r
<1>6. ~NothingSeen.touched /\ NothingSeen.touched \in BOOLEAN
  BY DEF NothingSeen
<1> QED
  BY <1>2, <1>4, <1>5, <1>6, ContractDeclines

\* A call is made, or refused when there is no session.
LEMMA InvokeAsks ==
  ASSUME Shape, NEW c \in Clients, Invoke(c)
  PROVE  Contract!Ask(c) \/ Contract!Decline(c)
<1>1. PICK r \in Requests :
          /\ r.op \in Supported(c)
          /\ saw' = [saw EXCEPT ![c] = FirstLook(c, r)]
          /\ \/ Returns(c, r.op, "NotConnected", {}) /\ UNCHANGED call
             \/ /\ call' = [call EXCEPT ![c] =
                              [op |-> r.op, a |-> absolutize(c, r.path),
                               b |-> absolutize(c, r.other), target |-> r.other,
                               dir |-> FALSE, entries |-> {}, links |-> << >>,
                               step |-> 1]]
                /\ Returns(c, r.op, "none", {})
  BY DEF Invoke
<1> DEFINE x == absolutize(c, r.path)
           y == absolutize(c, r.other)
           w == [NothingSeen EXCEPT
                   !.op = r.op, !.a = x, !.b = y, !.target = r.other, !.dir = TestD(tree, x),
                   !.always = IF r.op = "list_dir" THEN Legible(proto[c], tree, x) ELSE {}]
           u == See(proto[c], w, tree, tree)
           n == NewCall(r.op, x, y, r.other)
<1>2. call[c] = Idle /\ UNCHANGED <<proto, tree>>
  BY DEF Invoke
<1>3. FirstLook(c, r) = u
  BY DEF FirstLook
<1>4. \/ call' = call /\ result' = [result EXCEPT ![c] = Result(r.op, "NotConnected", {})]
      \/ /\ call' = [call EXCEPT ![c] = n]
         /\ result' = [result EXCEPT ![c] = Result(r.op, "none", {})]
  BY <1>1 DEF Returns, NewCall, Result
<1>5. DOMAIN call = Clients /\ DOMAIN result = Clients /\ DOMAIN saw = Clients
      /\ proto[c] \in {"scp", "sftp"}
  BY DEF Shape, Around
<1>6. /\ DOMAIN w = DOMAIN NothingSeen /\ w.op = r.op /\ w.a = x /\ w.b = y
      /\ w.target = r.other /\ w.touched = FALSE /\ w.post = FALSE
  BY DEF NothingSeen
<1>7. n # Idle /\ n.op = r.op /\ n.a = x /\ n.b = y /\ n.target = r.other
  BY DEF NewCall, Idle
<1> HIDE DEF x, y, w, n
<1>8. u.touched = FALSE /\ u.post = Post(proto[c], w, tree, tree)
  BY <1>6, StillTold, SeePost, PostIsTruth
<1> HIDE DEF u
<1>9. saw'[c] = u /\ \A d \in Clients : d # c => saw'[d] = saw[d]
  BY <1>1, <1>3, <1>5
<1>10. CASE call' = call /\ result' = [result EXCEPT ![c] = Result(r.op, "NotConnected", {})]
  <2>1. Meaning(proto[c], Result(r.op, "NotConnected", {})) \in {"nothing", "failed"}
    <3> DEFINE res == Result(r.op, "NotConnected", {})
    <3>1. res.op = r.op /\ res.kind = "NotConnected"
      BY DEF Result
    <3> HIDE DEF res
    <3>2. Meaning(proto[c], res) \in {"nothing", "failed"}
      BY <3>1, <1>5 DEF Meaning, Vague, Partial
    <3> QED
      BY <3>2 DEF res
  <2>2. /\ result'[c] = Result(r.op, "NotConnected", {})
        /\ \A d \in Clients : d # c => result'[d] = result[d]
    BY <1>5, <1>10
  <2>3. Contract!Decline(c)
    BY <1>2, <1>8, <1>9, <1>10, <2>1, <2>2, ContractDeclines
  <2> QED
    BY <2>3
<1>11. CASE /\ call' = [call EXCEPT ![c] = n]
            /\ result' = [result EXCEPT ![c] = Result(r.op, "none", {})]
  <2>1. /\ result'[c] = Result(r.op, "none", {}) /\ call'[c] = n
        /\ \A d \in Clients : d # c => result'[d] = result[d] /\ call'[d] = call[d]
    BY <1>5, <1>11
  <2>2. Meaning(proto[c], Result(r.op, "none", {})) = "nothing"
    BY DEF Meaning, Result
  <2>3. Asked(c)' = [by |-> proto[c], op |-> r.op, a |-> x, b |-> y, target |-> r.other]
    BY <1>2, <1>7, <2>1 DEF Asked
  <2>4. u.post = Promise(Asked(c)', tree, tree)
    <3> DEFINE q == [by |-> proto[c], op |-> r.op, a |-> x, b |-> y, target |-> r.other]
    <3>1. q.by = proto[c] /\ w.op = q.op /\ w.a = q.a /\ w.b = q.b /\ w.target = q.target
      BY <1>6
    <3> HIDE DEF q
    <3>2. u.post = Post(proto[c], q, tree, tree)
      BY <1>8, <3>1, PostOfCall
    <3>3. u.post = Promise(q, tree, tree)
      BY <3>1, <3>2 DEF Promise
    <3> QED
      BY <2>3, <3>3 DEF q
  <2>5. Contract!Ask(c)
    BY <1>2, <1>7, <1>8, <1>9, <2>1, <2>2, <2>4, ContractAsks
  <2> QED
    BY <2>5
<1> QED
  BY <1>4, <1>10, <1>11

\* A request acts, if at all, for the first time in its call, and as entitled.
LEMMA ServeActs ==
  ASSUME ClientsInv, NEW c \in Clients, Serve(c)
  PROVE  Contract!Act(c)
<1>1. PICK o \in Outcomes(c, Current(c)), denied \in BOOLEAN :
          /\ tree' = o.tree
          /\ saw' = [Seen(o.tree) EXCEPT ![c].touched = @ \/ o.tree # tree,
                                         ![c].denied = @ \/ denied]
  BY DEF Serve
<1>2. call[c] # Idle /\ answer[c] = NoAnswer /\ UNCHANGED <<proto, call, result>>
  BY DEF Serve, Waiting
<1>3. /\ Around /\ TreeOK(tree) /\ wrkdir[c] \in Seq(Names) /\ proto[c] \in {"scp", "sftp"}
      /\ Busy(proto[c], call[c])
      /\ Definite(proto[c], call[c], answer[c], result[c], saw[c])
  BY <1>2 DEF ClientsInv, Shape, Around, Typed, Told
<1>4. DOMAIN saw = Clients /\ \A d \in Clients : DOMAIN saw[d] = DOMAIN NothingSeen
  BY <1>3 DEF ClientsInv, Shape, Around, Typed
<1>5. /\ \A d \in Clients : d # c =>
             saw'[d] = IF call[d] = Idle THEN saw[d] ELSE See(proto[d], saw[d], tree, o.tree)
      /\ saw'[c] = [See(proto[c], saw[c], tree, o.tree) EXCEPT
                       !.touched = @ \/ o.tree # tree, !.denied = @ \/ denied]
  BY <1>1, <1>2 DEF Seen
<1>6. ASSUME NEW d \in Clients, call[d] # Idle
      PROVE  Post(proto[d], saw[d], tree, o.tree) = Promise(Asked(d), tree, o.tree)
  <2>1. /\ saw[d].op = call[d].op /\ saw[d].a = call[d].a /\ saw[d].b = call[d].b
        /\ saw[d].target = call[d].target
    BY <1>6 DEF ClientsInv, Told, InCall
  <2>2. /\ Asked(d).by = proto[d] /\ Asked(d).op = call[d].op /\ Asked(d).a = call[d].a
        /\ Asked(d).b = call[d].b /\ Asked(d).target = call[d].target
    BY <1>6 DEF Asked
  <2>3. Post(proto[d], saw[d], tree, o.tree) = Post(proto[d], Asked(d), tree, o.tree)
    BY <2>1, <2>2, PostOfCall
  <2> QED
    BY <2>2, <2>3 DEF Promise
<1>7. ASSUME NEW d \in Clients
      PROVE  /\ saw'[d].touched = IF d = c THEN saw[d].touched \/ o.tree # tree ELSE saw[d].touched
             /\ saw'[d].post = IF call[d] = Idle THEN saw[d].post
                               ELSE saw[d].post \/ Promise(Asked(d), tree, o.tree)
  <2> DEFINE u == See(proto[d], saw[d], tree, o.tree)
  <2>1. /\ u.touched = saw[d].touched
        /\ u.post = (saw[d].post \/ Post(proto[d], saw[d], tree, o.tree))
        /\ DOMAIN u = DOMAIN NothingSeen
    BY <1>4, StillTold, SeePost, StillHistory
  <2> HIDE DEF u
  <2>2. CASE d # c
    <3>1. saw'[d] = IF call[d] = Idle THEN saw[d] ELSE u
      BY <1>5, <2>2 DEF u
    <3> QED
      BY <1>6, <2>1, <2>2, <3>1
  <2>3. CASE d = c
    <3>1. saw'[d] = [u EXCEPT !.touched = @ \/ o.tree # tree, !.denied = @ \/ denied]
      BY <1>5, <2>3 DEF u
    <3>2. "touched" \in DOMAIN u
      BY <2>1 DEF NothingSeen
    <3>3. saw'[d].touched = (u.touched \/ o.tree # tree) /\ saw'[d].post = u.post
      BY <3>1, <3>2
    <3> QED
      BY <1>2, <1>6, <2>1, <2>3, <3>3
  <2> QED
    BY <2>2, <2>3
<1>8. ASSUME o.tree # tree
      PROVE  ~saw[c].touched /\ Deeds(Asked(c), tree, o.tree)
  <2>1. ~saw[c].touched
    BY <1>2, <1>3 DEF Definite
  <2>2. /\ Asked(c).by = proto[c] /\ Asked(c).op = call[c].op /\ Asked(c).a = call[c].a
        /\ Asked(c).b = call[c].b /\ Asked(c).target = call[c].target
    BY <1>2 DEF Asked
  <2>3. call[c].op \in Mutators /\ Entitled(proto[c], Asked(c), tree, o.tree)
    BY <1>3, <1>8, <2>2, ServedIsEntitled
  <2> QED
    BY <2>1, <2>2, <2>3 DEF Deeds
<1> QED
  BY <1>1, <1>2, <1>7, <1>8, ContractActs

\* A method that ends has a result.
LEMMA VerdictTells ==
  ASSUME NEW p \in {"scp", "sftp"}, NEW k, Busy(p, k), NEW a
  PROVE  VerdictOf(p, k, a) # "none" /\ k.op \notin {"connect", "disconnect", "idle"}
<1>1. Tells(Now(p, k))
  BY NowSends DEF Sends
<1>2. VerdictOf(p, k, a) \in {Now(p, k).ok, Now(p, k).file, Now(p, k).refused, Now(p, k).broken}
  BY DEF VerdictOf
<1>3. k.op \notin {"connect", "disconnect", "idle"}
  BY DEF Busy, CallsOf, SupportedOf, Scp!Supported, Sftp!Supported
<1> QED
  BY <1>1, <1>2, <1>3 DEF Tells

\* An answer is taken: the call goes on, or its caller is told what is true.
LEMMA TakeTells ==
  ASSUME ClientsInv, NEW c \in Clients, Take(c), ClientsInv'
  PROVE  UNCHANGED Contract!vars \/ Contract!Tell(c)
<1> DEFINE p == proto[c]
           k == call[c]
           r2 == result'[c]
<1>1. k # Idle /\ UNCHANGED <<proto, tree, saw>>
  BY DEF Take
<1>2. Around /\ p \in {"scp", "sftp"} /\ Busy(p, k)
  BY <1>1 DEF ClientsInv, Shape, Around, Typed
<1>3. DOMAIN call = Clients /\ DOMAIN result = Clients
  BY <1>2 DEF Around
<1>4. Typed(p, k, answer[c], result[c], saw[c]) /\ InCall(p, k, answer[c], result[c], saw[c])
  BY DEF ClientsInv, Shape, Told
<1>5. saw[c].op = k.op
  BY <1>1, <1>4 DEF InCall
<1>6. /\ Definite(p, call'[c], answer'[c], r2, saw[c])
      /\ PromisedResult(p, r2, saw[c])
  BY <1>1 DEF ClientsInv, Told, Promised
<1> DEFINE n == NotedOf(p, k, answer[c])
           verdict == VerdictOf(p, k, answer[c])
<1>7. Noted(c) = n /\ Verdict(c) = verdict
  BY OfOneClient
<1>8. n.op = k.op /\ n.a = k.a /\ n.b = k.b /\ n.target = k.target /\ n \in CallsOf(p)
  BY <1>1, <1>2, <1>4, NotedTyped DEF Typed, Take
<1>9. verdict # "none" /\ k.op \notin {"connect", "disconnect", "idle"}
  BY <1>2, VerdictTells
<1> HIDE DEF n, verdict
<1>10. \/ call' = [call EXCEPT ![c] = [n EXCEPT !.step = @ + 1]] /\ result' = result
       \/ \E kind \in {"Ok", verdict} : \E value :
             /\ call' = [call EXCEPT ![c] = Idle]
             /\ result' = [result EXCEPT ![c] = Result(n.op, kind, value)]
  BY <1>7 DEF Take, Finish, Proceed, Returns, Result
<1>11. CASE call' = [call EXCEPT ![c] = [n EXCEPT !.step = @ + 1]] /\ result' = result
  <2> DEFINE m == [n EXCEPT !.step = @ + 1]
  <2>1. /\ m.op = k.op /\ m.a = k.a /\ m.b = k.b /\ m.target = k.target /\ m # Idle
    BY <1>8 DEF CallsOf, Idle
  <2> HIDE DEF m
  <2>2. call'[c] = m /\ \A d \in Clients : d # c => call'[d] = call[d]
    BY <1>3, <1>11 DEF m
  <2>3. \A d \in Clients : Asked(d)' = Asked(d)
    BY <1>1, <2>1, <2>2 DEF Asked
  <2>4. UNCHANGED <<tree, proto, result, saw>>
    BY <1>1, <1>11
  <2> QED
    BY <2>3, <2>4, ContractStutters DEF SameFor
<1>12. ASSUME NEW kind \in {"Ok", verdict}, NEW value,
              call' = [call EXCEPT ![c] = Idle],
              result' = [result EXCEPT ![c] = Result(n.op, kind, value)]
       PROVE  Contract!Tell(c)
  <2>1. r2 = Result(n.op, kind, value) /\ call'[c] = Idle
        /\ \A d \in Clients : d # c => call'[d] = call[d] /\ result'[d] = result[d]
    BY <1>3, <1>12
  <2>2. r2.op = k.op /\ r2.kind = kind /\ kind # "none"
    BY <1>8, <1>9, <2>1 DEF Result
  <2> DEFINE w == saw[c]
             m == Meaning(p, r2)
  <2>3. \/ m = "done" /\ (Binds(p, k.op) => w.post) /\ (Sole(p, k.op) => w.touched)
        \/ m = "failed" /\ ~w.touched
        \/ m = "perhaps"
    <3> HIDE DEF r2, k, p
    <3>1. CASE kind = "Ok"
      <4>1. m = "done"
        BY <1>9, <2>2, <3>1 DEF Meaning
      <4> QED
        BY <1>5, <1>6, <1>9, <2>2, <3>1, <4>1 DEF PromisedResult
    <3>2. CASE kind # "Ok" /\ (kind = "ProtocolError" \/ <<k.op, kind>> \in Vague(p) \cup Partial)
      BY <1>9, <2>2, <3>2 DEF Meaning
    <3>3. CASE kind # "Ok" /\ ~(kind = "ProtocolError" \/ <<k.op, kind>> \in Vague(p) \cup Partial)
      <4>1. m = "failed"
        BY <1>9, <2>2, <3>3 DEF Meaning
      <4> QED
        BY <1>6, <2>2, <3>3, <4>1 DEF Definite
    <3> QED
      BY <3>1, <3>2, <3>3
  <2> QED
    BY <1>1, <2>1, <2>3, ContractTells
<1> QED
  BY <1>10, <1>11, <1>12

\* A fault is nothing the contract knows of.
LEMMA FaultStutters ==
  ASSUME Shape, NEW c \in Clients, Unsent(c) \/ Lost(c) \/ Cut(c) \/ LinkBreaks(c)
  PROVE  UNCHANGED Contract!vars
<1>1. /\ UNCHANGED <<proto, tree, call, result>>
      /\ \/ saw' = saw
         \/ saw' = [saw EXCEPT ![c].fault = TRUE]
         \/ saw' = [saw EXCEPT ![c].cut = TRUE]
  BY DEF Unsent, Lost, Cut, LinkBreaks, Failing
<1>2. DOMAIN saw = Clients /\ \A d \in Clients : DOMAIN saw[d] = DOMAIN NothingSeen
  BY DEF Shape, Around, Typed
<1>3. ASSUME NEW d \in Clients
      PROVE  saw'[d].touched = saw[d].touched /\ saw'[d].post = saw[d].post
  <2>1. "touched" \in DOMAIN saw[d] /\ "post" \in DOMAIN saw[d]
    BY <1>2 DEF NothingSeen
  <2>2. \/ saw'[d] = saw[d]
        \/ saw'[d] = [saw[d] EXCEPT !.fault = TRUE]
        \/ saw'[d] = [saw[d] EXCEPT !.cut = TRUE]
    BY <1>1, <1>2
  <2> QED
    BY <2>1, <2>2
<1>4. \A d \in Clients : Asked(d)' = Asked(d)
  BY <1>1 DEF Asked
<1> QED
  BY <1>1, <1>3, <1>4, ContractStutters DEF SameFor

\* Every step is a step of the contract, or none.
LEMMA StepContract ==
  ASSUME ClientsInv, [Next]_vars
  PROVE  [Contract!Next]_(Contract!vars)
<1>1. ClientsInv'
  BY StepClientsInv
<1>2. Shape
  BY DEF ClientsInv
<1>3. CASE UNCHANGED vars
  <2>1. UNCHANGED <<proto, tree, call, result, saw>>
    BY <1>3 DEF vars
  <2>2. \A d \in Clients : Asked(d)' = Asked(d)
    BY <2>1 DEF Asked
  <2> QED
    BY <2>1, <2>2, ContractStutters DEF SameFor
<1>4. ASSUME NEW c \in Clients,
             \/ ScpConnect(c) \/ SftpConnect(c) \/ ConnectFails(c)
             \/ Disconnect(c) \/ DisconnectFails(c) \/ AppendUnsupported(c)
             \/ Invoke(c)
      PROVE  Contract!Next
  <2>1. Contract!Ask(c) \/ Contract!Decline(c)
    BY <1>2, <1>4, LocalDeclines, InvokeAsks
  <2> QED
    BY <2>1 DEF Contract!Next
<1>5. ASSUME NEW c \in Clients, Serve(c) PROVE Contract!Next
  <2>1. Contract!Act(c)
    BY <1>5, ServeActs
  <2> QED
    BY <2>1 DEF Contract!Next
<1>6. ASSUME NEW c \in Clients, Take(c) PROVE Contract!Next \/ UNCHANGED Contract!vars
  <2>1. UNCHANGED Contract!vars \/ Contract!Tell(c)
    BY <1>1, <1>6, TakeTells
  <2> QED
    BY <2>1 DEF Contract!Next
<1>7. ASSUME NEW c \in Clients, Unsent(c) \/ Lost(c) \/ Cut(c) \/ LinkBreaks(c)
      PROVE  UNCHANGED Contract!vars
  BY <1>2, <1>7, FaultStutters
<1>8. CASE Next
  BY <1>4, <1>5, <1>6, <1>7, <1>8 DEF Next
<1> QED
  BY <1>3, <1>8

\* At the start nobody has asked for anything.
LEMMA InitContract ==
  ASSUME Init
  PROVE  Contract!Init
<1>1. ASSUME NEW d \in Clients
      PROVE  /\ Asked(d) = Idle /\ saw[d].touched = FALSE /\ saw[d].post = FALSE
             /\ Meaning(proto[d], result[d]) = "nothing"
  <2>1. call[d] = Idle /\ saw[d] = NothingSeen /\ result[d].kind = "none"
    BY DEF Init
  <2>2. saw[d].touched = FALSE /\ saw[d].post = FALSE
    BY <2>1 DEF NothingSeen
  <2>3. Asked(d) = Idle /\ Meaning(proto[d], result[d]) = "nothing"
    BY <2>1 DEF Asked, Meaning
  <2> QED
    BY <2>2, <2>3
<1> QED
  BY <1>1 DEF Contract!Init

\* Both clients implement the contract: between its being made and answered a call
\* changes the tree in one step at most, within what it asks for; Ok means that
\* its promise was kept, and where only one call can succeed that this one has
\* acted; a definite error means that it has not; and faults only add to what is
\* reported as vague.
THEOREM ClientsKeepContract == Spec => ImplementsContract
<1>1. Init => ClientsInv
  BY InitClientsInv
<1>2. ClientsInv /\ [Next]_vars => ClientsInv'
  BY StepClientsInv
<1>3. Init => Contract!Init
  BY InitContract
<1>4. ClientsInv /\ [Next]_vars => [Contract!Next]_(Contract!vars)
  BY StepContract
<1> QED
  BY <1>1, <1>2, <1>3, <1>4, PTL DEF Spec, ImplementsContract, Contract!Spec
=============================================================================
