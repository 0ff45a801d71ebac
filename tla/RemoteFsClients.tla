-------------------------- MODULE RemoteFsClients --------------------------
(***************************************************************************)
(* SCP and SFTP clients (src/ssh/scp.rs, src/ssh/sftp.rs) at work on one   *)
(* server.  Modules ScpFs and SftpFs give the requests a method sends; here *)
(* they are sent, run and answered.  Anything may happen to the tree       *)
(* between two requests of a call; a request may fail to be sent, and its  *)
(* answer may be lost after the server ran it.                             *)
(*                                                                         *)
(* A request is three steps: the client is about to send it, the server    *)
(* runs it (Serve), the client takes the answer (Take).                    *)
(***************************************************************************)
EXTENDS RemoteTree

CONSTANTS
    Clients,
    Protocols,  \* what the clients may be: "scp", "sftp"
    Home,       \* the login directory
    InitTrees,  \* the trees the server may start with
    Marked,     \* <<place, node>>: what ls shows in a line that LS_RE does not match
    Requests,   \* the calls a client may make: [op, path, other]
    MaxCalls,   \* how many calls a behaviour has
    MaxFaults   \* how many requests or answers are lost, links broken

ASSUME RemoteFsAssumption ==
    /\ Protocols \subseteq {"scp", "sftp"}
    /\ Home \in Paths
    /\ \A t \in InitTrees : TreeOK(t)
    /\ \A r \in Requests : r.path \in Arg /\ r.other \in Arg
    /\ MaxCalls \in Nat /\ MaxFaults \in Nat

VARIABLES
    proto,    \* which client it is; constant
    tree,     \* the server's file system
    session,  \* self.session: "None" or "Some"
    sftp,     \* self.sftp: "None" or "Some"; always "None" for an SCP client
    link,     \* whether the transport under the session works
    wrkdir,   \* self.wrkdir
    call,     \* the call in progress
    answer,   \* the server's answer to the request in progress
    result,   \* what the last call returned
    saw,      \* what was true during the call: history, read by no step
    calls, faults

vars == <<proto, tree, session, sftp, link, wrkdir, call, answer, result, saw,
          calls, faults>>

conn == <<session, sftp, link>>
bounds == <<calls, faults>>

Scp == INSTANCE ScpFs
Sftp == INSTANCE SftpFs

GoOn == Scp!GoOn

Idle == [op |-> "idle"]
NoAnswer == [rc |-> "none"]
\* The transport failed.
Err == [rc |-> "err"]

Supported(c) == IF proto[c] = "scp" THEN Scp!Supported ELSE Sftp!Supported

Steps(c, k) == IF proto[c] = "scp" THEN Scp!Steps(k) ELSE Sftp!Steps(k)

Current(c) == Steps(c, call[c])[call[c].step]

\* path_utils::absolutize: a relative path is appended to the working directory.
absolutize(c, arg) == IF arg.abs THEN arg.names ELSE wrkdir[c] \o arg.names

-----------------------------------------------------------------------------
(* The server (external): what a request does and answers.                 *)

\* The requests that only look.
Questions == {"test -e", "stat", "test -d", "cd", "ls -la", "readdir", "ls -l", "readlink"}

\* What a lookup asks for is there.  ls -l shows the entry itself, unless -d was
\* left out for what has become a directory: then its first line is not an entry.
Finds(t, k, s) ==
    CASE s.cmd \in {"test -e", "stat"} -> TestE(t, s.on)
      [] s.cmd \in {"test -d", "cd", "ls -la", "readdir"} -> TestD(t, s.on)
      [] s.cmd = "ls -l" -> Entry(t, k.a) # None /\ (k.dir \/ ~TestD(t, k.a))
      [] s.cmd = "readlink" -> Entry(t, s.on).kind = "link"

\* Where exec's command runs: cd "wrkdir"; cmd goes on where the shell is, in the
\* login directory, when cd fails or is denied.
ExecDirs(c) == {Home} \cup (IF TestD(tree, wrkdir[c]) THEN {wrkdir[c]} ELSE {})

\* A lookup may be denied as any request may, whatever is there.
Outcomes(c, s) ==
    LET k == call[c]
    IN  CASE s.cmd \in Questions -> MayDo(tree, Finds(tree, k, s), tree)
          [] s.cmd = "rm -f" -> RmF(tree, s.on)
          [] s.cmd = "unlink" -> Unlink(tree, s.on)
          [] s.cmd = "rmdir" -> RmDir(tree, s.on)
          [] s.cmd = "rm -rf" -> RmRF(tree, s.on)
          [] s.cmd = "mkdir" -> MkDir(tree, s.on)
          [] s.cmd = "ln -s" -> LnS(tree, k.target, s.on)
          [] s.cmd = "symlink" -> SymlinkAt(tree, k.target, s.on)
          [] s.cmd = "cp -rf" -> CpRF(tree, s.on, k.b)
          [] s.cmd = "mv -f" -> MvF(tree, s.on, k.b)
          [] s.cmd = "rename" -> Rename(tree, s.on, k.b)
          [] s.cmd = "scp -t" -> ScpT(tree, s.on, c)
          [] s.cmd = "scp -f" ->
               MayDo(tree, TestE(tree, s.on) /\ ~TestD(tree, s.on), tree)
          [] s.cmd = "open read" -> MayDo(tree, TestE(tree, s.on), tree)
          [] s.cmd = "open create" -> OpenCreat(tree, s.on, c, TRUE)
          [] s.cmd = "open append" -> OpenCreat(tree, s.on, c, FALSE)
          [] s.cmd = "exec" -> UNION {MkDir(tree, d \o k.target.names) : d \in ExecDirs(c)}

\* The entries of the directory p leads to, links not followed.
Listing(t, p) ==
    IF TestD(t, p)
      THEN {[name |-> n, kind |-> t[Append(Real(t, p), n)].kind] :
              n \in NamesIn(t, Real(t, p))}
      ELSE {}

\* What ls says of the entry at place q: nothing that can be read when its line has a
\* mark (an ACL, a security context) or the type of a special file.
Shown(t, q) == IF <<q, t[q]>> \in Marked THEN "odd" ELSE t[q].kind

\* The lines of ls -la.
Printed(t, p) ==
    {[e EXCEPT !.kind = Shown(t, Append(Real(t, p), e.name))] : e \in Listing(t, p)}

\* The lines that LS_RE matches: the others are no entries.
Readable(lines) == {e \in lines : e.kind # "odd"}

\* The answer to a lookup, which names nothing.
Found(kind) == [name |-> "", kind |-> kind]

\* What the answer holds besides the status and what pwd prints: entries for a
\* listing, a kind for a lookup, of the entry itself (ls -l) or of what it leads to
\* (stat).
Output(s) ==
    CASE s.cmd = "readdir" -> Listing(tree, s.on)
      [] s.cmd = "ls -la" -> Printed(tree, s.on)
      [] s.cmd = "ls -l" ->
           {Found(IF s.on = Root THEN "dir" ELSE Shown(tree, Place(tree, s.on)))}
      [] s.cmd = "stat" -> {Found(tree[Real(tree, s.on)].kind)}
      [] OTHER -> {}

-----------------------------------------------------------------------------
(* History of a call: w holds its arguments and what the tree went through. *)

\* Where mov puts the entry: mv goes into a directory.
HasTarget(p, w, t) ==
    IF p = "scp" THEN HasGoal(t, w.b, Last(w.a)) ELSE HasPlace(t, w.b)

Target(p, w, t) ==
    IF p = "scp" THEN Goal(t, w.b, Last(w.a)) ELSE Place(t, w.b)

\* What a successful call of a client p promises of the tree u, and mov of the
\* step that made it of the tree t: the paths may lead elsewhere afterwards.
Post(p, w, t, u) ==
    CASE w.op \in {"remove_file", "remove_dir", "remove_dir_all"} ->
           Entry(u, w.a) = None
      [] w.op \in {"create_dir", "change_dir"} -> TestD(u, w.a)
      [] w.op \in {"create", "append", "open"} -> TestE(u, w.a)
      [] w.op = "copy" -> Entry(u, w.b) # None
      [] w.op = "mov" ->
           /\ w.a # Root /\ Entry(t, w.a) # None /\ HasTarget(p, w, t)
           /\ u[Target(p, w, t)] = t[Place(t, w.a)]
           /\ u[Place(t, w.a)] = None \/ Place(t, w.a) = Target(p, w, t)
      [] w.op = "symlink" -> Entry(u, w.a) = Link(w.target)
      [] OTHER -> TRUE

\* What a call that reports a missing file, or not a directory, claims.  For stat of
\* the SCP client a file is also missing when ls shows it in a line it cannot read.
Missing(p, w, t) ==
    CASE w.op = "symlink" -> ~TestE(t, w.b)
      [] w.op = "change_dir" \/ (w.op = "list_dir" /\ p = "sftp") -> ~TestD(t, w.a)
      [] w.op = "stat" /\ p = "scp" ->
           \/ Entry(t, w.a) = None \/ TestD(t, w.a) # w.dir
           \/ w.a # Root /\ Shown(t, Place(t, w.a)) = "odd"
      [] OTHER -> ~TestE(t, w.a)

\* The entries of a directory that the client p can read.
Legible(p, t, path) == IF p = "scp" THEN Readable(Printed(t, path)) ELSE Listing(t, path)

\* The tree t has become u.
See(p, w, t, u) ==
    [w EXCEPT !.post = @ \/ Post(p, w, t, u),
              !.missing = @ \/ Missing(p, w, u),
              !.present = @ \/ TestE(u, w.a),
              !.ever = IF w.op = "list_dir" THEN @ \cup Listing(u, w.a) ELSE @,
              !.always = IF w.op = "list_dir" THEN @ \cap Legible(p, u, w.a) ELSE @]

NothingSeen ==
    [op |-> "idle", a |-> Root, b |-> Root,
     target |-> [abs |-> TRUE, names |-> Root], dir |-> TRUE,
     post |-> FALSE, missing |-> FALSE, present |-> FALSE, ever |-> {},
     always |-> {}, touched |-> FALSE, fault |-> FALSE, cut |-> FALSE, denied |-> FALSE]

FirstLook(c, r) ==
    LET a == absolutize(c, r.path)
    IN  See(proto[c],
            [NothingSeen EXCEPT
               !.op = r.op, !.a = a, !.b = absolutize(c, r.other),
               !.target = r.other, !.dir = TestD(tree, a),
               !.always = IF r.op = "list_dir" THEN Legible(proto[c], tree, a) ELSE {}],
            tree, tree)

\* All calls in progress see the tree become u.
Seen(u) ==
    [d \in Clients |-> IF call[d] = Idle THEN saw[d]
                       ELSE See(proto[d], saw[d], tree, u)]

-----------------------------------------------------------------------------
(* The client, between calls.                                              *)

Init ==
    /\ proto \in [Clients -> Protocols]
    /\ tree \in InitTrees
    /\ session = [c \in Clients |-> "None"]
    /\ sftp = [c \in Clients |-> "None"]
    /\ link = [c \in Clients |-> "down"]
    /\ wrkdir = [c \in Clients |-> Root]
    /\ call = [c \in Clients |-> Idle]
    /\ answer = [c \in Clients |-> NoAnswer]
    /\ result = [c \in Clients |-> [op |-> "idle", kind |-> "none", value |-> {}]]
    /\ saw = [c \in Clients |-> NothingSeen]
    /\ calls = 0
    /\ faults = 0

Returns(c, op, kind, value) ==
    result' = [result EXCEPT ![c] = [op |-> op, kind |-> kind, value |-> value]]

\* A method that looks at nothing on the server.
Local(c, op, kind) ==
    /\ call[c] = Idle
    /\ Returns(c, op, kind, {})
    /\ saw' = [saw EXCEPT ![c] = NothingSeen]
    /\ UNCHANGED <<proto, tree, call, answer, bounds>>

\* connect: a new session replaces whatever was there, and its pwd is the
\* working directory (SFTP: the realpath of ".").
ScpConnect(c) ==
    /\ proto[c] = "scp"
    /\ session' = [session EXCEPT ![c] = "Some"]
    /\ link' = [link EXCEPT ![c] = "up"]
    /\ wrkdir' = [wrkdir EXCEPT ![c] = Home]
    /\ UNCHANGED sftp
    /\ Local(c, "connect", "Ok")

SftpConnect(c) ==
    /\ proto[c] = "sftp"
    /\ session' = [session EXCEPT ![c] = "Some"]
    /\ sftp' = [sftp EXCEPT ![c] = "Some"]
    /\ link' = [link EXCEPT ![c] = "up"]
    /\ wrkdir' = [wrkdir EXCEPT ![c] = Home]
    /\ Local(c, "connect", "Ok")

\* A failure on the way, of whatever kind (module Connect tells them apart),
\* leaves all fields alone.
ConnectFails(c) ==
    /\ Local(c, "connect", "ProtocolError")
    /\ UNCHANGED <<conn, wrkdir>>

\* disconnect: nothing is closed when the farewell cannot be sent.
Disconnect(c) ==
    /\ session[c] = "Some" /\ link[c] = "up"
    /\ session' = [session EXCEPT ![c] = "None"]
    /\ sftp' = [sftp EXCEPT ![c] = "None"]
    /\ link' = [link EXCEPT ![c] = "down"]
    /\ Local(c, "disconnect", "Ok")
    /\ UNCHANGED wrkdir

DisconnectFails(c) ==
    /\ ~(session[c] = "Some" /\ link[c] = "up")
    /\ Local(c, "disconnect",
             IF session[c] = "None" THEN "NotConnected" ELSE "ConnectionError")
    /\ UNCHANGED <<conn, wrkdir>>

\* append of the SCP client is refused before anything is looked at.
AppendUnsupported(c) ==
    /\ proto[c] = "scp"
    /\ Local(c, "append", "UnsupportedFeature")
    /\ UNCHANGED <<conn, wrkdir>>

\* Variant of check_connection that checks nothing.
CheckNothing(c) == TRUE

\* check_connection: the session of a broken link still counts.
check_connection(c) == session[c] = "Some"

\* if let Some(sftp) = self.sftp.as_ref(): how these methods of SftpFs check.
ChecksSftp == {"list_dir", "stat", "exists", "remove_file", "remove_dir",
               "append", "create"}

Ready(c, op) == IF proto[c] = "sftp" /\ op \in ChecksSftp
                  THEN sftp[c] = "Some" ELSE check_connection(c)

Invoke(c) ==
    /\ call[c] = Idle /\ calls < MaxCalls
    /\ calls' = calls + 1
    /\ \E r \in Requests :
          /\ r.op \in Supported(c)
          /\ saw' = [saw EXCEPT ![c] = FirstLook(c, r)]
          /\ \/ /\ ~Ready(c, r.op)
                /\ Returns(c, r.op, "NotConnected", {})
                /\ UNCHANGED call
             \/ /\ Ready(c, r.op)
                /\ call' = [call EXCEPT ![c] =
                              [op |-> r.op, a |-> absolutize(c, r.path),
                               b |-> absolutize(c, r.other), target |-> r.other,
                               dir |-> FALSE, entries |-> {}, links |-> << >>,
                               step |-> 1]]
                /\ Returns(c, r.op, "none", {})
    /\ UNCHANGED <<proto, tree, conn, wrkdir, answer, faults>>

-----------------------------------------------------------------------------
(* The server and the network.                                             *)

Waiting(c) == call[c] # Idle /\ answer[c] = NoAnswer

Serve(c) ==
    /\ Waiting(c) /\ link[c] = "up"
    /\ LET s == Current(c)
           found == s.cmd \in Questions /\ Finds(tree, call[c], s)
       IN  \E o \in Outcomes(c, s) :
              /\ tree' = o.tree
              /\ answer' = [answer EXCEPT ![c] =
                  [rc |-> o.rc, out |-> IF o.rc = "0" THEN Output(s) ELSE {}, pwd |-> s.on]]
              /\ saw' = [Seen(o.tree) EXCEPT ![c].touched = @ \/ o.tree # tree,
                                             ![c].denied = @ \/ (found /\ o.rc # "0")]
    /\ UNCHANGED <<proto, conn, wrkdir, call, result, bounds>>

Failing(c) ==
    /\ answer' = [answer EXCEPT ![c] = Err]
    /\ saw' = [saw EXCEPT ![c].fault = TRUE]

\* The channel does not open or the request is not sent: always so on a broken
\* link.
Unsent(c) ==
    /\ Waiting(c)
    /\ Failing(c)
    /\ \/ link[c] = "down" /\ UNCHANGED faults
       \/ link[c] = "up" /\ faults < MaxFaults /\ faults' = faults + 1
    /\ UNCHANGED <<proto, tree, conn, wrkdir, call, result, calls>>

\* The request was served and its answer is lost, or cut so that no status can be
\* read of one that has a status.
Lost(c) ==
    /\ call[c] # Idle /\ answer[c] \notin {NoAnswer, Err}
    /\ faults < MaxFaults /\ faults' = faults + 1
    /\ Failing(c)
    /\ UNCHANGED <<proto, tree, conn, wrkdir, call, result, calls>>

\* What is left of the lines of ls when the text ends early: some of them, and of
\* a link perhaps the part before the arrow, which reads like a file.
LinesLeft(out) ==
    {rest \cup part : rest \in SUBSET out,
                      part \in {{}} \cup {{[e EXCEPT !.kind = "file"]} : e \in {f \in out : f.kind = "link"}}}
      \ {out}

\* What is left of the path that pwd prints: nothing, which as a directory is the
\* one the shell starts in, or the beginning.
PathLeft(path) == {Home} \cup {SubSeq(path, 1, n) : n \in 0..Len(path) - 1}

\* The text of ls or pwd, of which no status is asked, ends early, and the client
\* cannot tell.
Cut(c) ==
    /\ call[c] # Idle /\ answer[c] \notin {NoAnswer, Err} /\ answer[c].rc = "0"
    /\ Current(c).cmd \in {"ls -l", "ls -la", "cd"}
    /\ faults < MaxFaults /\ faults' = faults + 1
    /\ LET a == answer[c]
       IN  \/ answer' = [answer EXCEPT ![c] = [a EXCEPT !.rc = "1", !.out = {}]]
           \/ /\ Current(c).cmd = "cd"
              /\ \E p \in PathLeft(Current(c).on) : answer' = [answer EXCEPT ![c].pwd = p]
           \/ /\ Current(c).cmd # "cd"
              /\ \E out \in LinesLeft(a.out) \ {{}} :
                    answer' = [answer EXCEPT ![c].out = out]
    /\ saw' = [saw EXCEPT ![c].cut = TRUE]
    /\ UNCHANGED <<proto, tree, conn, wrkdir, call, result, calls>>

LinkBreaks(c) ==
    /\ link[c] = "up" /\ faults < MaxFaults
    /\ faults' = faults + 1
    /\ link' = [link EXCEPT ![c] = "down"]
    /\ UNCHANGED <<proto, tree, session, sftp, wrkdir, call, answer, result, saw, calls>>

-----------------------------------------------------------------------------
(* The client takes an answer.                                             *)

\* Variant of make_fsentry that reads no link.
FsEntryUnread(kind, readable) == IF kind = "dir" THEN "dir" ELSE "file"

\* make_fsentry: an entry is a link only if its target could be read.
make_fsentry(kind, readable) ==
    CASE kind = "link" /\ readable -> "link"
      [] kind = "dir" -> "dir"
      [] OTHER -> "file"

\* Variant of Listed: an entry whose target cannot be read is left out.
ListedIfRead(k, name, readable) ==
    IF readable THEN [k EXCEPT !.entries = @ \cup {[name |-> name, kind |-> "link"]}]
                ELSE k

\* One more entry of a listing, which readdir says is a link.
Listed(k, name, readable) ==
    [k EXCEPT !.entries =
       @ \cup {[name |-> name, kind |-> make_fsentry("link", readable)]}]

\* The call with what the answer adds: which ls stat is to send, the entries.
Noted(c) ==
    LET k == call[c]
        s == Current(c)
        a == answer[c]
    IN  CASE s.cmd = "test -d" -> [k EXCEPT !.dir = a.rc = "0"]
          [] s.cmd = "readdir" /\ a # Err ->
               [k EXCEPT !.entries = {e \in a.out : e.kind # "link"},
                         !.links = SetToSeq({e.name : e \in {f \in a.out : f.kind = "link"}})]
          [] s.cmd = "readlink" -> Listed(k, Last(s.on), a.rc = "0")
          [] s.cmd = "ls -la" /\ a # Err -> [k EXCEPT !.entries = Readable(a.out)]
          [] OTHER -> k

\* The answer a says no to the request s: by its status, or by a line of ls -l that
\* does not match.
SaysNo(s, a) == a.rc # "0" \/ (s.cmd = "ls -l" /\ Readable(a.out) = {})

\* The match on the answer: a return, or GoOn.
Verdict(c) ==
    LET s == Current(c)
    IN  IF answer[c] = Err THEN s.broken
        ELSE IF SaysNo(s, answer[c]) THEN s.refused
        ELSE IF s.file # s.ok /\ answer[c].out # {Found("dir")} THEN s.file
        ELSE s.ok

\* What Ok carries.
Value(c, k) ==
    CASE k.op = "exists" -> {Found(IF answer[c].rc = "0" THEN "true" ELSE "false")}
      [] k.op = "list_dir" -> k.entries
      [] k.op = "stat" -> answer[c].out
      [] OTHER -> {}

Finish(c, k, kind) ==
    /\ Returns(c, k.op, kind, IF kind = "Ok" THEN Value(c, k) ELSE {})
    /\ call' = [call EXCEPT ![c] = Idle]
    /\ answer' = [answer EXCEPT ![c] = NoAnswer]
    /\ wrkdir' = IF k.op = "change_dir" /\ kind = "Ok"
                   THEN [wrkdir EXCEPT ![c] = IF proto[c] = "scp" THEN answer[c].pwd
                                              ELSE k.a]
                   ELSE wrkdir

Proceed(c, k) ==
    /\ call' = [call EXCEPT ![c] = [k EXCEPT !.step = @ + 1]]
    /\ answer' = [answer EXCEPT ![c] = NoAnswer]
    /\ UNCHANGED <<result, wrkdir>>

\* Variant of Take: a request that has had no answer is sent again.
TakeOrRetry(c) ==
    /\ call[c] # Idle /\ answer[c] # NoAnswer
    /\ LET k == Noted(c)
           goes == Verdict(c) = GoOn
           more == k.step < Len(Steps(c, k))
       IN  IF answer[c] = Err
             THEN /\ answer' = [answer EXCEPT ![c] = NoAnswer]
                  /\ UNCHANGED <<call, result, wrkdir>>
             ELSE \/ goes /\ more /\ Proceed(c, k)
                  \/ goes /\ ~more /\ Finish(c, k, "Ok")
                  \/ ~goes /\ Finish(c, k, Verdict(c))
    /\ UNCHANGED <<proto, tree, conn, saw, bounds>>

Take(c) ==
    /\ call[c] # Idle /\ answer[c] # NoAnswer
    /\ LET k == Noted(c)
           goes == Verdict(c) = GoOn
           more == k.step < Len(Steps(c, k))
       IN  \/ goes /\ more /\ Proceed(c, k)
           \/ goes /\ ~more /\ Finish(c, k, "Ok")
           \/ ~goes /\ Finish(c, k, Verdict(c))
    /\ UNCHANGED <<proto, tree, conn, saw, bounds>>

Next ==
    \E c \in Clients :
       \/ ScpConnect(c) \/ SftpConnect(c) \/ ConnectFails(c)
       \/ Disconnect(c) \/ DisconnectFails(c) \/ AppendUnsupported(c)
       \/ Invoke(c) \/ Take(c)
       \/ Serve(c) \/ Unsent(c) \/ Lost(c) \/ Cut(c) \/ LinkBreaks(c)

Spec == Init /\ [][Next]_vars

\* A client runs on while it has an answer; the server answers what it is sent,
\* and a broken link is noticed.
FairSpec ==
    /\ Spec
    /\ \A c \in Clients : WF_vars(Take(c)) /\ WF_vars(Serve(c) \/ Unsent(c))

-----------------------------------------------------------------------------
(* Correctness.                                                            *)

Mutators == {"remove_file", "remove_dir", "remove_dir_all", "create_dir",
             "symlink", "copy", "mov", "exec", "create", "append"}

\* The types; a call in progress has what it unwraps (a session, and for an SFTP
\* client the subsystem), and an answer belongs to a call.
TypeOK ==
    /\ TreeOK(tree)
    /\ \A c \in Clients :
          /\ session[c] \in {"None", "Some"} /\ sftp[c] \in {"None", "Some"}
          /\ link[c] \in {"up", "down"}
          /\ wrkdir[c] \in Seq(Names)
          /\ call[c] # Idle =>
                /\ call[c].op \in Supported(c)
                /\ call[c].step \in DOMAIN Steps(c, call[c])
                /\ session[c] = "Some"
                /\ proto[c] = "sftp" => sftp[c] = "Some"
          /\ answer[c] # NoAnswer => call[c] # Idle
    /\ calls \in 0..MaxCalls /\ faults \in 0..MaxFaults

\* A call that returns Ok has had its effect: at some moment of the call the
\* removed entry was gone, the created directory, file or link was there, the
\* entry that was at the source went to the destination, and so on, with other
\* clients at work and answers lost.  Only the SCP client's symlink
\* cannot promise that: a directory that its probe missed swallows the link; and
\* its change_dir may go less deep than told when the answer is cut.
OkIsDone ==
    \A c \in Clients :
       /\ result[c].kind = "Ok"
       /\ saw[c].op # "idle"
       /\ ~(proto[c] = "scp" /\ result[c].op = "symlink")
       => /\ saw[c].post
          /\ result[c].op = "change_dir" =>
                wrkdir[c] \in {saw[c].a} \cup (IF saw[c].cut THEN PathLeft(saw[c].a) ELSE {})

\* The errors a lost answer may be reported as.
Vague(p) ==
    IF p = "scp" THEN {<<"create", "FileCreateDenied">>}
    ELSE {"remove_file", "remove_dir"} \X {"CouldNotRemoveFile"}
           \cup {"create_dir", "symlink", "mov", "create"} \X {"FileCreateDenied"}
           \cup {<<"append", "CouldNotOpenFile">>}

\* The errors of a request that stops half way.
Partial == {<<"remove_dir_all", "CouldNotRemoveFile">>, <<"copy", "FileCreateDenied">>}

\* An error is definite: the call has changed nothing, unless an answer was lost
\* and the error is one that may stand for that: ProtocolError, create's
\* FileCreateDenied, and of the SFTP client every error of a last request.  Two
\* errors cannot keep even that: cp -r and rm -r stop half way.
DefiniteErrors ==
    \A c \in Clients :
       LET r == result[c]
       IN  /\ r.kind \notin {"none", "Ok"} /\ saw[c].touched
           /\ <<r.op, r.kind>> \notin Partial
           => /\ saw[c].fault
              /\ r.kind = "ProtocolError" \/ <<r.op, r.kind>> \in Vague(proto[c])

\* What a call says about the existence of a path was so at some moment of the
\* call: exists, a refusal to overwrite, a missing file and what is no
\* directory; a file may also be called missing by stat of the SCP client when ls
\* shows it in a line that cannot be read.  What is there may be called missing for
\* one of three reasons only: the server denied a lookup of this call; a transport
\* fault, in every method of the SFTP client and in the SCP client's but exists,
\* stat and change_dir; a cut answer.
HonestLookups ==
    \A c \in Clients :
       LET r == result[c]
           w == saw[c]
           masked == \/ w.cut \/ w.denied
                     \/ w.fault /\ (proto[c] = "sftp"
                                      \/ r.op \notin {"exists", "stat", "change_dir"})
       IN  /\ r.op = "exists" /\ r.value = {Found("true")} => w.present
           /\ r.op = "exists" /\ r.value = {Found("false")} => w.missing \/ masked
           /\ r.kind = "DirectoryAlreadyExists" => w.present
           /\ r.kind = "BadFile" => w.missing
           /\ \/ r.kind = "NoSuchFileOrDirectory"
              \/ r.kind = "StatFailed" /\ r.op = "list_dir"
              => w.missing \/ masked

\* list_dir is faithful to the directory while it is read, although the SFTP
\* client reads links one by one after the names: it misses nothing that was
\* there all the time, in a line that can be read, unless the answer was cut or the
\* listing denied (of which the SCP client makes an empty directory), and what it
\* lists was there at some moment, with that kind; only a link may be listed as a
\* file, when it went away, its readlink was lost or denied, or its line was cut.
ListingFaithful ==
    \A c \in Clients :
       LET w == saw[c]
           linked == IF proto[c] = "scp" THEN IF w.cut THEN w.ever ELSE {}
                     ELSE IF w.fault \/ w.denied THEN w.ever ELSE w.ever \ w.always
           Masked(e) == e.kind = "file" /\ [e EXCEPT !.kind = "link"] \in linked
       IN  result[c].op = "list_dir" /\ result[c].kind = "Ok" =>
             /\ w.cut \/ w.denied \/ {e.name : e \in w.always} \subseteq {e.name : e \in result[c].value}
             /\ \A e \in result[c].value : e \in w.ever \/ Masked(e)

\* A successful symlink leads somewhere (while nobody else is at work).
SymlinkResolves ==
    \A c \in Clients :
       result[c].op = "symlink" /\ result[c].kind = "Ok" => TestE(tree, saw[c].a)

\* What a request of the call w of a client p may do to the tree t, leaving u.
Entitled(p, w, t, u) ==
    LET lost == {q \in Paths : t[q] # None /\ u[q] # t[q]}
        new == {q \in Paths : t[q] = None /\ u[q] # None}
        files == {q \in lost : t[q].kind = "file" /\ u[q].kind = "file"}
    IN  CASE w.op = "remove_file" ->
               lost = {Place(t, w.a)} /\ Entry(t, w.a) # Dir /\ new = {}
          [] w.op = "remove_dir" ->
               lost = {Place(t, w.a)} /\ Entry(t, w.a) = Dir /\ new = {}
          [] w.op = "remove_dir_all" ->
               lost \subseteq Below(t, Place(t, w.a)) /\ new = {}
          [] w.op = "create_dir" -> lost = {} /\ new = {Place(t, w.a)}
          [] w.op = "symlink" ->
               /\ lost = {}
               /\ new = {IF p = "scp" THEN Goal(t, w.a, Last(w.target.names))
                                      ELSE Place(t, w.a)}
               /\ \A q \in new : u[q] = Link(w.target)
          [] w.op = "create" /\ p = "sftp" ->
               /\ Cardinality(lost \cup new) = 1 /\ lost = files
               /\ u[Real(u, w.a)].kind = "file" /\ Real(u, w.a) \in lost \cup new
          [] w.op = "append" \/ (w.op = "create" /\ p = "scp") ->
               lost = {} /\ Cardinality(new) = 1 /\ \A q \in new : u[q].kind = "file"
          [] w.op = "copy" ->
               /\ lost \subseteq files
               /\ \A q \in new \cup lost :
                     \E r \in Below(t, Place(t, w.a)) : u[q] = t[r]
          [] w.op = "mov" ->
               /\ lost \subseteq Below(t, Place(t, w.a)) \cup {Target(p, w, t)}
               /\ \A r \in Below(t, Place(t, w.a)) :
                     u[Image(Place(t, w.a), Target(p, w, t), r)] = t[r]
          [] OTHER -> lost = {} /\ Cardinality(new) = 1

\* No request of a call, whatever happened since its probes, destroys an entry
\* the method is not meant to destroy: remove_file takes one file or link,
\* remove_dir one empty directory, create empties at most the one file its path
\* leads to, copy overwrites files only, mov loses nothing but what its
\* destination named, and append nothing.
EffectsEntitled ==
    [][\A c \in Clients :
          tree' # tree /\ answer[c] = NoAnswer /\ answer'[c] # NoAnswer =>
             /\ call[c].op \in Mutators
             /\ Entitled(proto[c], saw[c], tree, tree')]_vars

-----------------------------------------------------------------------------
(* The contract with the caller.                                           *)

\* What a caller may take the result r of a client p for.
Meaning(p, r) ==
    CASE r.kind = "none" \/ r.op \in {"connect", "disconnect"} -> "nothing"
      [] r.kind = "Ok" /\ r.op \notin {"connect", "disconnect"} -> "done"
      [] /\ r.kind \notin {"none", "Ok"} /\ r.op \notin {"connect", "disconnect"}
         /\ r.kind = "ProtocolError" \/ <<r.op, r.kind>> \in Vague(p) \cup Partial -> "perhaps"
      [] OTHER -> "failed"

\* A call as its caller made it.
Asked(c) ==
    IF call[c] = Idle THEN Idle
    ELSE [by |-> proto[c], op |-> call[c].op, a |-> call[c].a, b |-> call[c].b,
          target |-> call[c].target]

Deeds(q, t, u) == q.op \in Mutators /\ Entitled(q.by, q, t, u)
Promise(q, t, u) == Post(q.by, q, t, u)
Binding(q) == ~(q.by = "scp" /\ q.op = "symlink")

\* The methods in which only one of several calls can succeed: they make what was
\* not there or take away what was, and do not say so when another did it.
Sole(p, op) ==
    \/ op \in {"create_dir", "remove_dir", "symlink"}
    \/ p = "sftp" /\ op = "remove_file"
    \/ p = "scp" /\ op = "mov"

Alone(q) == Sole(q.by, q.op)

Contract == INSTANCE RemoteFsContract WITH
    Effect <- Deeds, Deed <- Alone,
    asked <- [c \in Clients |-> Asked(c)],
    acted <- [c \in Clients |-> saw[c].touched],
    kept <- [c \in Clients |-> saw[c].post],
    told <- [c \in Clients |-> Meaning(proto[c], result[c])]

\* Both clients keep the contract, whatever other clients do and whatever is lost:
\* a call changes the tree in one of its requests only; Ok from two clients that
\* make the same directory, or move the same file, means that it was made, or
\* moved, twice; an error other than the vague ones means that it was not.
ImplementsContract == Contract!Spec

\* exec runs its command in the working directory.
ExecInWrkdir ==
    [][\A c \in Clients :
          /\ tree' # tree /\ answer[c] = NoAnswer /\ answer'[c] # NoAnswer
          /\ call[c].op = "exec"
          => \A q \in Paths : tree'[q] # tree[q] =>
                q = wrkdir[c] \o saw[c].target.names]_vars

\* Every call returns.
CallsReturn == \A c \in Clients : call[c] # Idle ~> call[c] = Idle

=============================================================================
