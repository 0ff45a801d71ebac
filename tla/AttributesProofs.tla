-------------------------- MODULE AttributesProofs --------------------------
(***************************************************************************)
(* Proofs about Attributes, for every file, metadata, time zone, clock and *)
(* number of calls and faults: the types, what setstat may bring into being, *)
(* that what it sets is set in the order of its requests, and that nothing *)
(* else of a file changes.                                                 *)
(***************************************************************************)
EXTENDS Attributes, TLAPS

\* A call is one of the two methods of one of the two clients.
Calls == [op : {"setstat"}, proto : {"scp", "sftp"}, ask : Asks, step : Nat \ {0}]
           \cup [op : {"stat"}, proto : {"scp", "sftp"}, ask : {<< >>}, step : Nat \ {0}]

SeenFile == \E f \in saw.files : f # Nothing

\* The SCP client's setstat, whose first step is the probe.
Probes(k) == k \in Calls /\ k.op = "setstat" /\ k.proto = "scp"

\* The fields of the history.
SawFields == DOMAIN saw = {"files", "applied", "fault", "cut", "denied", "set"}

\* While a call runs, the present file is among the seen ones, and a setstat of
\* the SCP client that has, or is about to learn, a good answer to its probe has
\* seen a file.
ProbedInv ==
    /\ SawFields
    /\ call = Idle => answer = NoAnswer
    /\ call # Idle =>
       /\ call \in Calls /\ call.step \in DOMAIN Steps(call)
       /\ file \in saw.files
       /\ Probes(call) /\ (call.step > 1 \/ answer.rc = "0") => SeenFile

-----------------------------------------------------------------------------
(* What the requests are.                                                  *)

\* The fields of a call.
LEMMA CallFacts ==
  ASSUME NEW k \in Calls
  PROVE  /\ k.op \in {"setstat", "stat"} /\ k.proto \in {"scp", "sftp"}
         /\ k.step \in Nat \ {0} /\ k # Idle
BY DEF Calls, Idle

\* The steps of the SCP client's setstat.
Probe == Must("test -e", {})
Commands == {assert_stat_command(cmd, attrs) :
               cmd \in {"chmod", "chown", "touch"}, attrs \in SUBSET Attrs}
Requests == {Probe} \cup Commands

\* A probe with a bad answer, or none, does not go on.
LEMMA ProbeFacts ==
  /\ Probe.cmd = "test -e"
  /\ Probe.refused # GoOn /\ Probe.broken # GoOn
BY DEF Probe, Must, Step, GoOn

\* A command for an attribute is a sequence of at most one step.
LEMMA AskedType ==
  ASSUME NEW ask, NEW a, NEW cmd \in {"chmod", "chown", "touch"},
         NEW attrs \in SUBSET Attrs
  PROVE  Asked(ask, a, cmd, attrs) \in Seq(Requests)
<1> DEFINE x == assert_stat_command(cmd, attrs)
<1>1. x \in Requests
  BY DEF Requests, Commands
<1> HIDE DEF x
<1>2. <<x>> \in Seq(Requests) /\ << >> \in Seq(Requests)
  BY <1>1
<1> QED
  BY <1>2 DEF Asked, x

\* The ranks of the attributes.
LEMMA RankFacts ==
  /\ Rank["mode"] = 1 /\ Rank["uid"] = 2 /\ Rank["gid"] = 2
  /\ Rank["accessed"] = 3 /\ Rank["modified"] = 4
BY DEF Rank

\* The steps s start with the probe and then set the attributes S, each in one
\* step, in the order of their ranks, which are below n.
Ranked(s, n, S) ==
    /\ s \in Seq(Requests) /\ Len(s) >= 1 /\ s[1] = Probe
    /\ \A i \in 2..Len(s) :
          /\ s[i] \in Commands /\ s[i].on # {} /\ s[i].on \subseteq S
          /\ \A a \in s[i].on, b \in s[i].on : Rank[a] = Rank[b]
    /\ \A i \in 2..Len(s), j \in 2..Len(s) :
          i < j => \A a \in s[i].on, b \in s[j].on : Rank[a] < Rank[b]
    /\ \A a \in S : Rank[a] < n /\ \E i \in 2..Len(s) : a \in s[i].on

\* The probe alone sets nothing.
LEMMA RankedProbe == Ranked(<<Probe>>, 1, {})
BY DEF Ranked, Requests

\* One command more, for attributes of the next rank, or none.
LEMMA RankedGrows ==
  ASSUME NEW s, NEW n \in Nat, NEW S \in SUBSET Attrs, Ranked(s, n, S),
         NEW cmd \in {"chmod", "chown", "touch"}, NEW ask, NEW x,
         NEW G \in SUBSET Attrs, G # {}, \A a \in G : Rank[a] = n
  PROVE  /\ x \in DOMAIN ask => Ranked(s \o Asked(ask, x, cmd, G), n + 1, S \cup G)
         /\ x \notin DOMAIN ask => Ranked(s \o Asked(ask, x, cmd, G), n + 1, S)
<1>1. /\ s \in Seq(Requests) /\ Len(s) \in Nat \ {0}
      /\ \A a \in S : Rank[a] < n
  BY DEF Ranked
<1>2. CASE x \notin DOMAIN ask
  <2>1. s \o Asked(ask, x, cmd, G) = s
    BY <1>1, <1>2 DEF Asked
  <2>2. \A a \in S : Rank[a] < n + 1
    <3>1. \A a \in Attrs : Rank[a] \in Nat
      BY DEF Rank, Attrs
    <3> QED
      BY <1>1, <3>1
  <2> QED
    BY <1>2, <2>1, <2>2 DEF Ranked
<1>3. CASE x \in DOMAIN ask
  <2> DEFINE c == assert_stat_command(cmd, G)
             t == Append(s, c)
  <2>1. c \in Commands /\ c \in Requests /\ c.on = G
    BY DEF Commands, Requests, assert_stat_command, Step
  <2>2. s \o Asked(ask, x, cmd, G) = t
    BY <1>1, <1>3, <2>1 DEF Asked
  <2> HIDE DEF c
  <2>3. /\ t \in Seq(Requests) /\ Len(t) = Len(s) + 1 /\ t[Len(t)] = c
        /\ \A i \in 1..Len(s) : t[i] = s[i]
    BY <1>1, <2>1
  <2> HIDE DEF t
  <2>4. \A i \in 2..Len(t) : (i \in 2..Len(s) /\ t[i] = s[i]) \/ (i = Len(t) /\ t[i] = c)
    BY <1>1, <2>3
  <2>5. \A i \in 2..Len(s) : i \in 2..Len(t) /\ t[i] = s[i] /\ i < Len(t)
    BY <1>1, <2>3
  <2>6. \A a \in Attrs : Rank[a] \in Nat
    BY DEF Rank, Attrs
  <2>7. /\ Len(t) >= 1 /\ t[1] = Probe /\ Len(t) \in 2..Len(t)
    BY <1>1, <2>3 DEF Ranked
  <2>8. ASSUME NEW i \in 2..Len(t)
        PROVE  /\ t[i] \in Commands /\ t[i].on # {} /\ t[i].on \subseteq S \cup G
               /\ \A a \in t[i].on, b \in t[i].on : Rank[a] = Rank[b]
    <3>1. CASE i \in 2..Len(s) /\ t[i] = s[i]
      BY <3>1 DEF Ranked
    <3>2. CASE t[i] = c
      BY <2>1, <3>2
    <3> QED
      BY <2>4, <3>1, <3>2
  <2>9. ASSUME NEW i \in 2..Len(t), NEW j \in 2..Len(t), i < j,
               NEW a \in t[i].on, NEW b \in t[j].on
        PROVE  Rank[a] < Rank[b]
    <3>1. i \in 2..Len(s) /\ t[i] = s[i]
      BY <2>3, <2>4, <2>9
    <3>2. CASE j \in 2..Len(s) /\ t[j] = s[j]
      BY <2>9, <3>1, <3>2 DEF Ranked
    <3>3. CASE t[j] = c
      <4>1. a \in S
        BY <2>9, <3>1 DEF Ranked
      <4> QED
        BY <1>1, <2>1, <2>9, <3>3, <4>1
    <3> QED
      BY <2>4, <3>2, <3>3
  <2>10. ASSUME NEW a \in S \cup G
         PROVE  Rank[a] < n + 1 /\ \E i \in 2..Len(t) : a \in t[i].on
    <3>1. CASE a \in S
      <4>1. Rank[a] < n /\ Rank[a] \in Nat
        BY <1>1, <2>6, <3>1
      <4>2. PICK i \in 2..Len(s) : a \in s[i].on
        BY <3>1 DEF Ranked
      <4> QED
        BY <2>5, <4>1, <4>2
    <3>2. CASE a \in G
      BY <2>1, <2>3, <2>6, <2>7, <3>2
    <3> QED
      BY <3>1, <3>2
  <2>11. Ranked(t, n + 1, S \cup G)
    BY <2>3, <2>7, <2>8, <2>9, <2>10 DEF Ranked
  <2> QED
    BY <1>3, <2>2, <2>11
<1> QED
  BY <1>2, <1>3

\* The commands of the SCP client's setstat set what it undertakes, in order.
LEMMA ScpSetstatRanked ==
  ASSUME NEW ask \in Asks
  PROVE  Ranked(ScpSetstat(ask), 5, Undertaken("scp", ask))
<1> DEFINE s1 == <<Probe>> \o Asked(ask, "mode", "chmod", {"mode"})
           s2 == s1 \o Asked(ask, "uid", "chown", {"uid", "gid"} \cap DOMAIN ask)
           s3 == s2 \o Asked(ask, "accessed", "touch", {"accessed"})
           s4 == s3 \o Asked(ask, "modified", "touch", {"modified"})
           U1 == {"mode"} \cap DOMAIN ask
           U2 == IF "uid" \in DOMAIN ask THEN U1 \cup ({"uid", "gid"} \cap DOMAIN ask)
                                         ELSE U1
           U3 == U2 \cup ({"accessed"} \cap DOMAIN ask)
           U4 == U3 \cup ({"modified"} \cap DOMAIN ask)
<1>1. DOMAIN ask \subseteq Attrs
  BY AttributesAssumption
<1>2. /\ U1 \in SUBSET Attrs /\ U2 \in SUBSET Attrs /\ U3 \in SUBSET Attrs
      /\ {"mode"} \in SUBSET Attrs /\ {"accessed"} \in SUBSET Attrs
      /\ {"modified"} \in SUBSET Attrs
      /\ {"uid", "gid"} \cap DOMAIN ask \in SUBSET Attrs
  BY <1>1 DEF Attrs
<1>3. U4 = Undertaken("scp", ask)
  BY <1>1 DEF Undertaken, Attrs
<1>4. ScpSetstat(ask) = s4
  BY DEF ScpSetstat, Probe
<1>5. Ranked(s1, 2, U1)
  <2>1. \A a \in {"mode"} : Rank[a] = 1
    BY RankFacts
  <2>2. /\ "mode" \in DOMAIN ask => Ranked(s1, 1 + 1, {} \cup {"mode"})
        /\ "mode" \notin DOMAIN ask => Ranked(s1, 1 + 1, {})
    BY <1>2, <2>1, RankedProbe, RankedGrows
  <2>3. /\ "mode" \in DOMAIN ask => U1 = {} \cup {"mode"}
        /\ "mode" \notin DOMAIN ask => U1 = {}
    OBVIOUS
  <2> HIDE DEF U1, s1
  <2> QED
    BY <2>2, <2>3
<1> HIDE DEF s1
<1>6. Ranked(s2, 3, U2)
  <2>1. \A a \in {"uid", "gid"} \cap DOMAIN ask : Rank[a] = 2
    BY RankFacts
  <2> HIDE DEF U1
  <2>2. CASE "uid" \in DOMAIN ask
    <3>1. {"uid", "gid"} \cap DOMAIN ask # {}
      BY <2>2
    <3>2. Ranked(s2, 2 + 1, U1 \cup ({"uid", "gid"} \cap DOMAIN ask))
      BY <1>2, <1>5, <2>1, <2>2, <3>1, RankedGrows
    <3> QED
      BY <2>2, <3>2
  <2>3. CASE "uid" \notin DOMAIN ask
    <3>1. s2 = s1 \o << >>
      BY <2>3 DEF Asked
    <3>2. /\ s1 \in Seq(Requests) /\ \A a \in U1 : Rank[a] < 2 /\ Rank[a] \in Nat
      BY <1>2, <1>5, RankFacts DEF Ranked, U1
    <3>3. s2 = s1
      <4>1. s1 \o << >> = s1
        BY <3>2
      <4> HIDE DEF s2
      <4> QED
        BY <3>1, <4>1
    <3>4. \A a \in U1 : Rank[a] < 3
      BY <3>2
    <3>5. Ranked(s1, 3, U1)
      BY <1>5, <3>4 DEF Ranked
    <3> QED
      BY <2>3, <3>3, <3>5
  <2> QED
    BY <2>2, <2>3
<1> HIDE DEF s2, U2
<1>7. Ranked(s3, 4, U3)
  <2>1. \A a \in {"accessed"} : Rank[a] = 3
    BY RankFacts
  <2>2. /\ "accessed" \in DOMAIN ask => Ranked(s3, 3 + 1, U2 \cup {"accessed"})
        /\ "accessed" \notin DOMAIN ask => Ranked(s3, 3 + 1, U2)
    BY <1>2, <1>6, <2>1, RankedGrows
  <2>3. /\ "accessed" \in DOMAIN ask => U3 = U2 \cup {"accessed"}
        /\ "accessed" \notin DOMAIN ask => U3 = U2
    OBVIOUS
  <2> HIDE DEF U3, s3
  <2> QED
    BY <2>2, <2>3
<1> HIDE DEF s3, U3
<1>8. Ranked(s4, 5, U4)
  <2>1. \A a \in {"modified"} : Rank[a] = 4
    BY RankFacts
  <2>2. /\ "modified" \in DOMAIN ask => Ranked(s4, 4 + 1, U3 \cup {"modified"})
        /\ "modified" \notin DOMAIN ask => Ranked(s4, 4 + 1, U3)
    BY <1>2, <1>7, <2>1, RankedGrows
  <2>3. /\ "modified" \in DOMAIN ask => U4 = U3 \cup {"modified"}
        /\ "modified" \notin DOMAIN ask => U4 = U3
    OBVIOUS
  <2> HIDE DEF U4, s4
  <2> QED
    BY <2>2, <2>3
<1> HIDE DEF s4, U4
<1> QED
  BY <1>3, <1>4, <1>8

\* The first step of the SCP client's setstat is its probe.
LEMMA FirstIsProbe ==
  ASSUME NEW k \in Calls, Probes(k)
  PROVE  /\ k.ask \in Asks /\ Ranked(Steps(k), 5, Undertaken("scp", k.ask))
         /\ Steps(k) \in Seq(Requests)
         /\ 1 \in DOMAIN Steps(k) /\ Steps(k)[1] = Probe
<1>1. Steps(k) = ScpSetstat(k.ask) /\ k.ask \in Asks
  BY CallFacts DEF Steps, Probes, Calls
<1>2. Ranked(Steps(k), 5, Undertaken("scp", k.ask))
  BY <1>1, ScpSetstatRanked
<1> DEFINE s == Steps(k)
<1>3. s \in Seq(Requests) /\ Len(s) >= 1 /\ s[1] = Probe
  BY <1>2 DEF Ranked
<1> HIDE DEF s
<1>4. 1 \in DOMAIN s
  BY <1>3
<1> QED
  BY <1>1, <1>2, <1>3, <1>4 DEF s

\* Only the SCP client's setstat sends touch.
LEMMA OthersDoNotTouch ==
  ASSUME NEW k \in Calls, ~Probes(k), k.step \in DOMAIN Steps(k)
  PROVE  Steps(k)[k.step].cmd # "touch"
<1>1. k.step \in Nat /\ k.op \in {"setstat", "stat"} /\ k.proto \in {"scp", "sftp"}
  BY CallFacts
<1>2. CASE k.op = "setstat" /\ k.proto = "sftp"
  BY <1>1, <1>2 DEF Steps, SftpSetstat, Step
<1>3. CASE k.op = "stat" /\ k.proto = "sftp"
  BY <1>1, <1>3 DEF Steps, SftpStat, Step
<1>4. CASE k.op = "stat" /\ k.proto = "scp"
  <2>1. Steps(k) = ScpStat
    BY <1>4 DEF Steps
  <2>2. DOMAIN ScpStat = 1..2
    BY DEF ScpStat
  <2>3. ScpStat[1].cmd = "test -d" /\ ScpStat[2].cmd = "ls -l"
    BY DEF ScpStat, Step
  <2>4. k.step = 1 \/ k.step = 2
    BY <1>1, <2>1, <2>2
  <2> QED
    BY <2>1, <2>3, <2>4
<1> QED
  BY <1>1, <1>2, <1>3, <1>4 DEF Probes

\* A call starts at a step it has.
LEMMA StepsNotEmpty ==
  ASSUME NEW k \in Calls
  PROVE  1 \in DOMAIN Steps(k)
<1>1. k.op \in {"setstat", "stat"} /\ k.proto \in {"scp", "sftp"}
  BY CallFacts
<1>2. CASE Probes(k)
  BY <1>2, FirstIsProbe
<1>3. CASE k.op = "setstat" /\ k.proto = "sftp"
  BY <1>3 DEF Steps, SftpSetstat
<1>4. CASE k.op = "stat" /\ k.proto = "sftp"
  BY <1>4 DEF Steps, SftpStat
<1>5. CASE k.op = "stat" /\ k.proto = "scp"
  BY <1>5 DEF Steps, ScpStat
<1> QED
  BY <1>1, <1>2, <1>3, <1>4, <1>5 DEF Probes

\* The steps of a call are a sequence, of which More says whether one is left.
LEMMA StepInDomain ==
  ASSUME NEW k \in Calls, k.step < Len(Steps(k))
  PROVE  k.step + 1 \in DOMAIN Steps(k)
<1>1. k.op \in {"setstat", "stat"} /\ k.proto \in {"scp", "sftp"} /\ k.step \in Nat \ {0}
  BY CallFacts
<1>2. CASE Probes(k)
  <2>1. Steps(k) \in Seq(Requests)
    BY <1>2, FirstIsProbe
  <2> QED
    BY <1>1, <2>1
<1>3. CASE k.op = "setstat" /\ k.proto = "sftp"
  BY <1>1, <1>3 DEF Steps, SftpSetstat
<1>4. CASE k.op = "stat" /\ k.proto = "sftp"
  BY <1>1, <1>4 DEF Steps, SftpStat
<1>5. CASE k.op = "stat" /\ k.proto = "scp"
  <2>1. Steps(k) = ScpStat
    BY <1>5 DEF Steps
  <2>2. Len(ScpStat) = 2 /\ DOMAIN ScpStat = 1..2
    BY DEF ScpStat
  <2> QED
    BY <1>1, <2>1, <2>2
<1> QED
  BY <1>1, <1>2, <1>3, <1>4, <1>5 DEF Probes

\* The steps of a call are those of its arguments.
LEMMA StepsOfNext ==
  ASSUME NEW k \in Calls
  PROVE  /\ [k EXCEPT !.step = @ + 1] \in Calls
         /\ Steps([k EXCEPT !.step = @ + 1]) = Steps(k)
         /\ Probes([k EXCEPT !.step = @ + 1]) <=> Probes(k)
<1> DEFINE n == [k EXCEPT !.step = @ + 1]
<1>1. n \in Calls /\ n.op = k.op /\ n.proto = k.proto /\ n.ask = k.ask
  BY DEF Calls
<1> HIDE DEF n
<1>2. Steps(n) = Steps(k)
  BY <1>1 DEF Steps
<1> QED
  BY <1>1, <1>2 DEF Probes, n

-----------------------------------------------------------------------------
(* The invariant.                                                          *)

\* No call runs at the start.
LEMMA ProbedInit == Init => ProbedInv
BY DEF Init, ProbedInv, SawFields

\* Every step keeps the fields of the history.
LEMMA SawFieldsNext ==
  ASSUME SawFields, [Next]_vars
  PROVE  SawFields'
<1>1. CASE setstat \/ stat
  BY <1>1 DEF setstat, stat, Start, SawFields
<1>2. CASE Serve
  BY <1>2 DEF Serve, SawFields
<1>3. CASE Fails \/ Removed
  BY <1>3 DEF Fails, Removed, SawFields
<1>4. CASE Cut
  <2>1. saw' = [saw EXCEPT !.cut = TRUE]
    BY <1>4, Zenon DEF Cut
  <2> QED
    BY <2>1 DEF SawFields
<1>5. CASE Take
  <2>1. ASSUME NEW kind, Finish(kind) PROVE SawFields'
    BY <2>1 DEF Finish, SawFields
  <2> QED
    BY <1>5, <2>1 DEF Take, SawFields
<1>6. CASE Tick \/ UNCHANGED vars
  BY <1>6 DEF Tick, vars, SawFields
<1> QED
  BY <1>1, <1>2, <1>3, <1>4, <1>5, <1>6 DEF Next

\* A new call has seen the file as it is, and nothing of its answer.
LEMMA ProbedStart ==
  ASSUME ProbedInv, SawFields', setstat \/ stat
  PROVE  ProbedInv'
<1>1. PICK op, pr, ask : Start(op, pr, ask) /\ call' \in Calls /\ call'.step = 1
  <2>1. CASE setstat
    <3>1. PICK pr \in {"scp", "sftp"}, ask \in Asks : Start("setstat", pr, ask)
      BY <2>1 DEF setstat
    <3>2. call' = [op |-> "setstat", proto |-> pr, ask |-> ask, step |-> 1]
      BY <3>1 DEF Start
    <3>3. call' \in Calls /\ call'.step = 1
      BY <3>2 DEF Calls
    <3> QED
      BY <3>1, <3>3
  <2>2. CASE stat
    <3>1. PICK pr \in {"scp", "sftp"} : Start("stat", pr, << >>)
      BY <2>2 DEF stat
    <3>2. call' = [op |-> "stat", proto |-> pr, ask |-> << >>, step |-> 1]
      BY <3>1 DEF Start
    <3>3. call' \in Calls /\ call'.step = 1
      BY <3>2 DEF Calls
    <3> QED
      BY <3>1, <3>3
  <2> QED
    BY <2>1, <2>2
<1> DEFINE k == call'
<1>2. /\ call = Idle /\ k # Idle /\ saw'.files = {file}
      /\ UNCHANGED <<file, answer>>
  BY <1>1, CallFacts DEF Start
<1>3. answer' = NoAnswer /\ answer'.rc # "0"
  BY <1>2 DEF ProbedInv, NoAnswer
<1>4. 1 \in DOMAIN Steps(k)
  BY <1>1, StepsNotEmpty
<1> QED
  BY <1>1, <1>2, <1>3, <1>4 DEF ProbedInv

\* What a request leaves behind: a good answer only where there is a file, or for
\* a touch.
LEMMA OutcomeFacts ==
  ASSUME NEW s, NEW o \in Outcomes(s)
  PROVE  /\ file = Nothing /\ o.file # Nothing => s.cmd = "touch"
         /\ o.rc = "0" => o.file # Nothing \/ s.cmd = "touch"
         /\ file # Nothing => o.file # Nothing
<1>1. CASE file = Nothing
  BY <1>1 DEF Outcomes, Refused, Done
<1>2. CASE file # Nothing
  <2>1. \A x : Some(x) # Nothing
    BY DEF Some, Nothing
  <2> DEFINE f == file[1]
             all == {Done(Some(With(f, s.on)), Nothing), Refused(file)}
             packet == {Done(Some(With(f, Paired(s.on))), Nothing)} \cup
                       {Refused(Some(With(f, Paired(part)))) : part \in SUBSET s.on}
  <2>2. \/ o \in {Done(file, Nothing), Refused(file), Done(file, Some(LsLine(f))),
                  Done(file, Some(f))}
        \/ o \in packet \/ o \in all
    BY <1>2 DEF Outcomes
  <2>3. o.file = file \/ \E x : o.file = Some(x)
    <3>1. CASE o \in {Done(file, Nothing), Refused(file), Done(file, Some(LsLine(f))),
                     Done(file, Some(f))}
      BY <3>1 DEF Done, Refused
    <3>2. CASE o \in packet
      BY <3>2 DEF Done, Refused
    <3>3. CASE o \in all
      BY <3>3 DEF Done, Refused
    <3> QED
      BY <2>2, <3>1, <3>2, <3>3
  <2> QED
    BY <1>2, <2>1, <2>3
<1> QED
  BY <1>1, <1>2

\* A good answer to the probe has seen a file.
LEMMA ProbedServe ==
  ASSUME ProbedInv, SawFields', Serve
  PROVE  ProbedInv'
<1>1. PICK o \in Outcomes(Current) :
         /\ file' = o.file /\ answer' = [rc |-> o.rc, out |-> o.out]
         /\ saw'.files = saw.files \cup {o.file}
  BY DEF Serve
<1>2. call # Idle /\ call' = call
  BY DEF Serve
<1>3. SeenFile => SeenFile'
  BY <1>1 DEF SeenFile
<1>4. ASSUME Probes(call), call.step = 1, answer'.rc = "0"
      PROVE  SeenFile'
  <2>1. Current.cmd = "test -e"
    BY <1>4, FirstIsProbe, ProbeFacts DEF Probes, Current
  <2>2. o.file # Nothing
    BY <1>1, <1>4, <2>1, OutcomeFacts
  <2> QED
    BY <1>1, <2>2 DEF SeenFile
<1>5. call \in Calls /\ call.step \in Nat \ {0}
  BY <1>2, CallFacts DEF ProbedInv
<1> QED
  BY <1>1, <1>2, <1>3, <1>4, <1>5 DEF ProbedInv

\* A call passes its probe only with a good answer.
LEMMA ProbedTake ==
  ASSUME ProbedInv, SawFields', Take
  PROVE  ProbedInv'
<1>1. call # Idle /\ answer' = NoAnswer /\ file' = file /\ answer # NoAnswer
  BY DEF Take
<1>2. call \in Calls
  BY <1>1 DEF ProbedInv
<1>3. CASE Verdict = GoOn /\ More /\ call' = [call EXCEPT !.step = @ + 1] /\ saw' = saw
  <2>1. /\ call' \in Calls /\ call' # Idle
        /\ Steps(call') = Steps(call)
        /\ Probes(call') <=> Probes(call)
    BY <1>2, <1>3, StepsOfNext, CallFacts
  <2>2. call'.step \in DOMAIN Steps(call')
    <3>1. call.step < Len(Steps(call)) /\ call'.step = call.step + 1
      BY <1>2, <1>3 DEF More, Calls
    <3>2. call.step + 1 \in DOMAIN Steps(call)
      BY <1>2, <3>1, StepInDomain
    <3> QED
      BY <2>1, <3>1, <3>2
  <2>3. ASSUME Probes(call), call.step = 1
        PROVE  answer.rc = "0"
    <3>1. Current = Probe
      BY <2>3, FirstIsProbe DEF Probes, Current
    <3>2. Current.broken # GoOn /\ Current.refused # GoOn
      BY <3>1, ProbeFacts
    <3> QED
      BY <1>3, <3>2 DEF Verdict
  <2>4. Probes(call) => SeenFile
    <3>1. call.step = 1 \/ call.step > 1
      BY <1>2, CallFacts
    <3> QED
      BY <1>1, <2>3, <3>1 DEF ProbedInv
  <2>5. SeenFile' <=> SeenFile
    BY <1>3 DEF SeenFile
  <2>6. file' \in saw'.files
    BY <1>1, <1>3 DEF ProbedInv
  <2>7. Probes(call') => SeenFile'
    BY <2>1, <2>4, <2>5
  <2> QED
    BY <1>1, <2>1, <2>2, <2>6, <2>7 DEF ProbedInv
<1>4. CASE call' = Idle
  BY <1>1, <1>4 DEF ProbedInv
<1> QED
  BY <1>3, <1>4 DEF Take, Finish

\* The clock, another user, and what the network does.
LEMMA ProbedElse ==
  ASSUME ProbedInv, SawFields', Fails \/ Cut \/ Tick \/ Removed \/ UNCHANGED vars
  PROVE  ProbedInv'
<1>1. CASE Fails
  <2>1. answer' = Err /\ UNCHANGED <<file, call>> /\ saw'.files = saw.files /\ call # Idle
    BY <1>1 DEF Fails
  <2> QED
    BY <2>1 DEF ProbedInv, Err, SeenFile
<1>2. CASE Cut
  <2>1. /\ answer' = [rc |-> "1", out |-> Nothing] /\ call # Idle
        /\ UNCHANGED <<file, call>>
    BY <1>2 DEF Cut, clock
  <2>2. saw'.files = saw.files
    <3>1. saw' = [saw EXCEPT !.cut = TRUE]
      BY <1>2 DEF Cut
    <3> QED
      BY <3>1
  <2>3. answer'.rc # "0"
    BY <2>1
  <2> QED
    BY <2>1, <2>2, <2>3 DEF ProbedInv, SeenFile
<1>3. CASE Tick
  BY <1>3 DEF Tick, ProbedInv, SeenFile
<1>4. CASE Removed
  <2>1. UNCHANGED <<call, answer>> /\ file' = Nothing /\ saw'.files = saw.files \cup {Nothing}
    BY <1>4 DEF Removed
  <2> QED
    BY <2>1 DEF ProbedInv, SeenFile
<1>5. CASE UNCHANGED vars
  BY <1>5 DEF vars, ProbedInv, SeenFile
<1> QED
  BY <1>1, <1>2, <1>3, <1>4, <1>5

\* Every step keeps the invariant.
LEMMA ProbedNext ==
  ASSUME ProbedInv, [Next]_vars
  PROVE  ProbedInv'
<1>1. SawFields'
  BY SawFieldsNext DEF ProbedInv
<1> QED
  BY <1>1, ProbedStart, ProbedServe, ProbedTake, ProbedElse DEF Next

\* In every reachable state a setstat of the SCP client that is past its probe has
\* seen a file.
THEOREM SetstatIsProbed == Spec => []ProbedInv
<1> QED
  BY ProbedInit, ProbedNext, PTL DEF Spec

-----------------------------------------------------------------------------

\* Only a request makes a file appear.
LEMMA OnlyServeMakesFiles ==
  ASSUME ProbedInv, [Next]_vars, file = Nothing, file' # Nothing
  PROVE  Serve
BY DEF Next, vars, setstat, stat, Start, Fails, Cut, Take, Tick, Removed

\* setstat brings a file into being only when the call has seen one before, which
\* was removed since.
THEOREM NothingFromNothing == Spec => NoFileFromNothing
<1>1. ASSUME ProbedInv, [Next]_vars, file = Nothing, file' # Nothing
      PROVE  call # Idle /\ call.op = "setstat" /\ saw.files # {Nothing}
  <2>1. Serve
    BY <1>1, OnlyServeMakesFiles
  <2>2. call # Idle /\ call \in Calls /\ call.step \in DOMAIN Steps(call)
    BY <1>1, <2>1 DEF Serve, ProbedInv
  <2>3. Current.cmd = "touch"
    BY <1>1, <2>1, OutcomeFacts DEF Serve
  <2>4. Probes(call)
    BY <2>2, <2>3, OthersDoNotTouch DEF Current
  <2>5. call.step # 1
    BY <2>3, <2>4, FirstIsProbe, ProbeFacts DEF Probes, Current
  <2>6. call.step > 1
    BY <2>2, <2>5, CallFacts
  <2> QED
    BY <1>1, <2>2, <2>4, <2>6 DEF ProbedInv, SeenFile, Probes
<1>2. ProbedInv /\ [Next]_vars
        => [file = Nothing /\ file' # Nothing =>
              call # Idle /\ call.op = "setstat" /\ saw.files # {Nothing}]_vars
  BY <1>1
<1> QED
  BY <1>2, SetstatIsProbed, PTL DEF Spec, NoFileFromNothing

-----------------------------------------------------------------------------
(* Calendar.                                                               *)

\* Whole ticks and the rest.
LEMMA DivMod ==
  ASSUME NEW t \in Int, NEW d \in Nat \ {0}
  PROVE  /\ t \div d \in Int /\ t % d \in 0..d - 1
         /\ t = (t \div d) * d + (t % d)
OBVIOUS

\* A product of integers is one.
LEMMA Product ==
  ASSUME NEW a \in Int, NEW b \in Int
  PROVE  a * b \in Int
OBVIOUS

\* Products distribute over sums.
LEMMA Distributes ==
  ASSUME NEW a \in Int, NEW b \in Int, NEW d \in Int
  PROVE  (a + b) * d = a * d + b * d
OBVIOUS

\* Products associate.
LEMMA Associates ==
  ASSUME NEW a \in Int, NEW b \in Int, NEW d \in Int
  PROVE  a * (b * d) = (a * b) * d
OBVIOUS

\* A product of natural numbers is one, and not below a factor unless the other is 0.
LEMMA PositiveProduct ==
  ASSUME NEW a \in Nat, NEW d \in Nat
  PROVE  a * d >= 0 /\ (a >= 1 => a * d >= d)
OBVIOUS

\* With a greater factor a product is greater by the other factor at least.
LEMMA GreaterProduct ==
  ASSUME NEW a \in Int, NEW b \in Int, a < b, NEW d \in Nat
  PROVE  b * d >= a * d + d
<1>1. b - a \in Nat /\ b - a >= 1 /\ (b - a) + a = b
  OBVIOUS
<1>2. (b - a) * d >= d
  BY <1>1, PositiveProduct
<1>3. b * d = (b - a) * d + a * d
  BY <1>1, Distributes
<1>4. a * d \in Int /\ b * d \in Int /\ (b - a) * d \in Int
  BY <1>1, Product
<1> QED
  BY <1>2, <1>3, <1>4

\* A quotient and a rest are the ones.
LEMMA DivUnique ==
  ASSUME NEW q \in Int, NEW d \in Nat \ {0}, NEW r \in 0..d - 1, NEW t \in Int,
         NEW n \in Int, n = q * d, t = n + r
  PROVE  t \div d = q /\ t % d = r
<1> DEFINE p == t \div d
           e == t % d
<1>1. p \in Int /\ e \in 0..d - 1 /\ t = p * d + e
  BY DivMod
<1> HIDE DEF p, e
<1>2. p * d \in Int /\ q * d \in Int
  BY <1>1, Product
<1>3. ~(p < q)
  <2>1. p < q => q * d >= p * d + d
    BY <1>1, GreaterProduct
  <2> QED
    BY <1>1, <1>2, <2>1
<1>4. ~(q < p)
  <2>1. q < p => p * d >= q * d + d
    BY <1>1, GreaterProduct
  <2> QED
    BY <1>1, <1>2, <2>1
<1>5. p = q
  BY <1>1, <1>3, <1>4
<1>6. e = r
  BY <1>1, <1>2, <1>5
<1> QED
  BY <1>5, <1>6 DEF p, e

\* An instant without what is less than a unit.
LEMMA WholeFacts ==
  ASSUME NEW t \in Int, NEW u \in Nat \ {0}
  PROVE  /\ Whole(t, u) \in Int /\ Whole(t, u) <= t /\ Whole(t, u) = (t \div u) * u
         /\ t >= 0 <=> Whole(t, u) >= 0
<1> DEFINE q == t \div u
           r == t % u
<1>1. q \in Int /\ r \in 0..u - 1 /\ t = q * u + r
  BY DivMod
<1>2. Whole(t, u) = t - r
  BY DEF Whole
<1> HIDE DEF q, r
<1>3. q * u \in Int
  BY <1>1, Product
<1>4. Whole(t, u) = q * u /\ Whole(t, u) <= t
  BY <1>1, <1>2, <1>3
<1>5. q >= 0 => q * u >= 0
  BY <1>1, PositiveProduct
<1>6. q < 0 => 0 * u >= q * u + u
  BY <1>1, GreaterProduct
<1>7. t >= 0 <=> Whole(t, u) >= 0
  BY <1>1, <1>3, <1>4, <1>5, <1>6
<1> QED
  BY <1>3, <1>4, <1>7 DEF q

\* With whole small units it has the same whole large units.
LEMMA WholeWhole ==
  ASSUME NEW t \in Int, NEW u \in Nat \ {0}, NEW v \in Nat \ {0}, v % u = 0
  PROVE  /\ Whole(t, u) \div v = t \div v
         /\ Whole(Whole(t, u), v) = Whole(t, v)
<1> DEFINE k == v \div u
           q == t \div v
           r == t % v
           a == r \div u
           b == r % u
<1>1. k \in Int /\ v = k * u
  <2>1. k \in Int /\ v = k * u + (v % u)
    BY DivMod
  <2>2. k * u \in Int
    BY <2>1, Product
  <2> QED
    BY <2>1, <2>2
<1>2. q \in Int /\ r \in 0..v - 1 /\ t = q * v + r
  BY DivMod
<1>3. a \in Int /\ b \in 0..u - 1 /\ r = a * u + b
  BY <1>2, DivMod
<1>4. Whole(r, u) = a * u /\ Whole(r, u) >= 0
  <2>1. r \in Int /\ r >= 0
    BY <1>2
  <2> HIDE DEF r
  <2> QED
    BY <2>1, WholeFacts
<1>5. Whole(t, v) = q * v
  BY WholeFacts
<1> HIDE DEF k, q, r, a, b
<1>6. q * k \in Int /\ a * u \in Int /\ q * v \in Int /\ (q * k) * u \in Int
  BY <1>1, <1>2, <1>3, Product
<1>7. t % u = b
  <2>1. q * v = (q * k) * u
    BY <1>1, <1>2, Associates
  <2>2. (q * k + a) * u = (q * k) * u + a * u
    BY <1>3, <1>6, Distributes
  <2>3. q * k + a \in Int
    BY <1>3, <1>6
  <2> DEFINE n == (q * k + a) * u
             j == q * k + a
  <2>4. j \in Int /\ n \in Int /\ n = j * u
    BY <2>3, Product
  <2>5. t = n + b
    BY <1>2, <1>3, <1>6, <2>1, <2>2
  <2> HIDE DEF n, j
  <2> QED
    BY <1>3, <2>4, <2>5, DivUnique
<1> DEFINE w == Whole(t, u)
<1>8. w = q * v + a * u
  <2>1. w = t - b
    BY <1>7 DEF Whole
  <2> HIDE DEF w
  <2> QED
    BY <1>2, <1>3, <1>6, <2>1
<1>9. a * u \in 0..v - 1
  BY <1>2, <1>3, <1>4, <1>6
<1> HIDE DEF w
<1>10. w \in Int
  BY <1>6, <1>8
<1>11. w \div v = q /\ w % v = a * u
  <2> DEFINE n == q * v
             e == a * u
  <2>1. n \in Int /\ n = q * v /\ w = n + e /\ e \in 0..v - 1
    BY <1>6, <1>8, <1>9
  <2> HIDE DEF n, e
  <2>2. w \div v = q /\ w % v = e
    BY <1>2, <1>10, <2>1, DivUnique
  <2> QED
    BY <2>2 DEF e
<1>12. Whole(w, v) = q * v
  BY <1>6, <1>8, <1>11 DEF Whole
<1> QED
  BY <1>5, <1>11, <1>12 DEF w, q

\* A unit of the calendar.
LEMMA Units ==
  /\ Second \in Nat \ {0} /\ Minute \in Nat \ {0} /\ DayLen \in Nat \ {0}
  /\ Minute % Second = 0 /\ DayLen % Minute = 0
BY CalendarAssumption

\* The seconds on the wire are read back as they were sent, and they are the whole
\* seconds of a time that fits.
LEMMA WireFacts ==
  ASSUME NEW m \in Int
  PROVE  /\ OnWire(m) \in Int /\ OnWire(OnWire(m)) = OnWire(m)
         /\ m \in 0..WireMod * Second - 1 => OnWire(m) = Whole(m, Second)
<1> DEFINE x == m \div Second
           y == x % WireMod
<1>1. x \in Int /\ y \in 0..WireMod - 1 /\ WireMod \in Nat \ {0} /\ Second \in Nat \ {0}
  BY Units, DivMod, AttributesAssumption
<1>2. OnWire(m) = y * Second /\ Whole(m, Second) = x * Second
  BY <1>1, WholeFacts DEF OnWire
<1>3. m >= 0 => x >= 0
  <2>1. m >= 0 => x * Second >= 0
    BY <1>1, <1>2, WholeFacts
  <2>2. x < 0 => 0 * Second >= x * Second + Second
    BY <1>1, GreaterProduct
  <2>3. x * Second \in Int
    BY <1>1, Product
  <2> HIDE DEF x
  <2> QED
    BY <1>1, <2>1, <2>2, <2>3
<1>4. \A z \in Nat : z < WireMod => z % WireMod = z
  BY <1>1
<1>5. x * Second <= m
  BY <1>1, <1>2, WholeFacts
<1>6. m \in 0..WireMod * Second - 1 => y = x
  <2>1. x >= WireMod => x * Second >= WireMod * Second
    <3>1. x > WireMod => x * Second >= WireMod * Second + Second
      BY <1>1, GreaterProduct
    <3>2. WireMod * Second \in Int /\ x * Second \in Int
      BY <1>1, Product
    <3> HIDE DEF x
    <3> QED
      BY <1>1, <3>1, <3>2
  <2>2. WireMod * Second \in Int /\ x * Second \in Int
    BY <1>1, Product
  <2> HIDE DEF x
  <2>3. m \in 0..WireMod * Second - 1 => x \in Nat /\ x < WireMod
    BY <1>1, <1>3, <1>5, <2>1, <2>2
  <2> QED
    BY <1>4, <2>3
<1> HIDE DEF x, y
<1>7. y * Second \in Int
  BY <1>1, Product
<1>8. OnWire(y * Second) = y * Second
  <2>1. (y * Second) \div Second = y
    <3> DEFINE n == y * Second
    <3>1. n \in Int /\ n = n + 0 /\ 0 \in 0..Second - 1 /\ n = y * Second /\ y \in Int
      BY <1>1, <1>7
    <3> HIDE DEF n
    <3>2. n \div Second = y
      BY <1>1, <3>1, DivUnique
    <3> QED
      BY <3>2 DEF n
  <2>2. y % WireMod = y
    BY <1>1, <1>4
  <2> QED
    BY <2>1, <2>2 DEF OnWire
<1> QED
  BY <1>2, <1>6, <1>7, <1>8

\* The instant of the date of an instant is that instant.
LEMMA CivilInstant ==
  ASSUME NEW t \in Int
  PROVE  /\ Instant(Civil(t)) = t
         /\ IsDate(Civil(t))
         /\ Civil(t).year \in Int /\ Civil(t).day \in 0..3 /\ Civil(t).tod \in 0..DayLen - 1
<1> DEFINE days == t \div DayLen
           day == days % 7
           week == days \div 7
           y == IF day < 4 THEN 2 * week ELSE 2 * week + 1
           d == IF day < 4 THEN day ELSE day - 4
<1>1. days \in Int /\ t % DayLen \in 0..DayLen - 1 /\ t = days * DayLen + (t % DayLen)
  BY DivMod, Units
<1>2. Civil(t) = [year |-> y, day |-> d, tod |-> t % DayLen]
  BY DEF Civil
<1> HIDE DEF days
<1>3. week \in Int /\ day \in 0..6 /\ days = 7 * week + day
  BY <1>1
<1> HIDE DEF day, week
<1>4. y \in Int /\ d \in 0..3
      /\ y \div 2 = week /\ y % 2 = (IF day < 4 THEN 0 ELSE 1)
  BY <1>3
<1>5. d \in 0..DaysIn(y) - 1
  BY <1>3, <1>4 DEF DaysIn
<1>6. 7 * (y \div 2) + (IF y % 2 = 0 THEN 0 ELSE 4) + d = days
  BY <1>3, <1>4
<1> HIDE DEF y, d
<1>7. Instant(Civil(t)) = t
  BY <1>1, <1>2, <1>6 DEF Instant
<1> QED
  BY <1>1, <1>2, <1>4, <1>5, <1>7 DEF IsDate

\* The midnight before an instant is on its side of the epoch.
LEMMA MidnightBefore ==
  ASSUME NEW t \in Int
  PROVE  /\ Midnight(t) = Instant([year |-> Civil(t).year, day |-> Civil(t).day, tod |-> 0])
         /\ Midnight(t) \in Int /\ Midnight(t) <= t
         /\ t >= 0 => Midnight(t) >= 0
         /\ Midnight(t) = Whole(t, DayLen)
<1> DEFINE days == t \div DayLen
           c == Civil(t)
           w == 7 * (c.year \div 2) + (IF c.year % 2 = 0 THEN 0 ELSE 4) + c.day
<1>1. days \in Int /\ t % DayLen \in 0..DayLen - 1 /\ t = days * DayLen + (t % DayLen)
  BY DivMod, Units
<1>2. c = [year |-> c.year, day |-> c.day, tod |-> t % DayLen]
  BY DEF Civil
<1>3. w \in Int /\ DayLen \in Nat \ {0}
  BY CivilInstant, Units
<1>4. Instant(c) = w * DayLen + (t % DayLen)
  BY <1>2 DEF Instant
<1>5. Midnight(t) = w * DayLen + 0
  BY <1>2 DEF Instant, Midnight
<1>6. Midnight(t) = Instant([year |-> c.year, day |-> c.day, tod |-> 0])
  BY <1>2 DEF Midnight
<1>7. Instant(c) = t
  BY CivilInstant
<1> HIDE DEF w, c
<1>8. w * DayLen \in Int
  BY <1>3, Product
<1>9. Midnight(t) = t - (t % DayLen)
  BY <1>1, <1>4, <1>5, <1>7, <1>8
<1>10. t >= 0 => t - (t % DayLen) >= 0
  BY Units, WholeFacts DEF Whole
<1>11. Midnight(t) \in Int /\ Midnight(t) <= t
  BY <1>1, <1>9
<1> QED
  BY <1>6, <1>9, <1>10, <1>11 DEF c, Whole

\* The minute of an instant is on the same day.
LEMMA MinuteOfDay ==
  ASSUME NEW t \in Int
  PROVE  LET w == Whole(t, Minute)
         IN  /\ w \in Int /\ (w >= 0 <=> t >= 0)
             /\ Civil(w).year = Civil(t).year
             /\ Midnight(w) = Midnight(t)
<1> DEFINE w == Whole(t, Minute)
<1>1. w \in Int /\ (w >= 0 <=> t >= 0)
  BY Units, WholeFacts
<1>2. w \div DayLen = t \div DayLen /\ Whole(w, DayLen) = Whole(t, DayLen)
  BY Units, WholeWhole
<1> HIDE DEF w
<1>3. Civil(w).year = Civil(t).year
  BY <1>2 DEF Civil
<1>4. Midnight(w) = Midnight(t)
  BY <1>1, <1>2, MidnightBefore
<1> QED
  BY <1>1, <1>3, <1>4 DEF w

-----------------------------------------------------------------------------
(* The types of what is set.                                               *)

\* The attributes that setstat is called with have their types.
LEMMA AskTypes ==
  ASSUME NEW ask \in Asks
  PROVE  /\ DOMAIN ask \subseteq Attrs /\ "size" \in DOMAIN ask
         /\ "mode" \in DOMAIN ask => ask["mode"] \in Mode
         /\ \A a \in DOMAIN ask \cap Times : ask[a] \in Int
         /\ \A a \in DOMAIN ask \cap {"uid", "gid", "size"} : ask[a] \in Nat
<1>1. \A a \in DOMAIN ask :
         ask[a] \in (CASE a = "mode" -> Mode [] a \in Times -> Int [] OTHER -> Nat)
  BY AttributesAssumption
<1>2. ASSUME NEW a \in DOMAIN ask \cap Times PROVE ask[a] \in Int
  BY <1>1, <1>2 DEF Times
<1>3. ASSUME NEW a \in DOMAIN ask \cap {"uid", "gid", "size"} PROVE ask[a] \in Nat
  BY <1>1, <1>3 DEF Times
<1>4. "mode" \in DOMAIN ask => ask["mode"] \in Mode
  BY <1>1 DEF Times
<1> QED
  BY <1>2, <1>3, <1>4, AttributesAssumption

\* metadata_to_filestat leaves times before the epoch out, and nothing else, and
\* makes times whole seconds.
LEMMA FilestatFacts ==
  ASSUME NEW ask \in Asks
  PROVE  LET sent == metadata_to_filestat(ask)
         IN  /\ DOMAIN sent = Undertaken("sftp", ask) /\ DOMAIN sent \subseteq DOMAIN ask
             /\ \A a \in DOMAIN sent :
                   sent[a] = IF a \in Times THEN ask[a] \div Second ELSE ask[a]
             /\ \A a \in DOMAIN ask \ DOMAIN sent : a \in Times /\ ask[a] < 0
BY DEF metadata_to_filestat, Undertaken

\* What an attribute is set to has the type of the attribute.
LEMMA SentTypes ==
  ASSUME NEW k \in Calls, k.op = "setstat", zone \in Int, NEW a \in Attrs,
         k.proto = "scp" \/ a = "mode" => a \in DOMAIN k.ask
  PROVE  /\ a = "mode" => Sent(k, a) \in Mode
         /\ a \in Times => Sent(k, a) \in Int
         /\ a \in {"uid", "gid", "size"} => Sent(k, a) \in Nat
<1> DEFINE ask == k.ask
           filestat == metadata_to_filestat(ask)
<1>1. ask \in Asks /\ k.proto \in {"scp", "sftp"}
  BY DEF Calls
<1> HIDE DEF ask
<1>2. CASE k.proto = "scp" /\ a \in Times
  <2>1. ask[a] \in Int
    BY <1>1, <1>2, AskTypes DEF ask
  <2>2. Whole(ask[a], Second) \in Int
    BY <2>1, Units, WholeFacts
  <2>3. Instant(fmt_time_utc(ask[a])) = Whole(ask[a], Second)
    BY <2>2, CivilInstant DEF fmt_time_utc
  <2>4. Sent(k, a) = Whole(ask[a], Second) - zone
    BY <1>2, <2>3 DEF Sent, ask
  <2> QED
    BY <1>2, <2>2, <2>4 DEF Times
<1>3. CASE k.proto = "scp" /\ a \notin Times
  BY <1>1, <1>3, AskTypes DEF Sent, ask, Attrs, Times
<1>4. CASE k.proto = "sftp" /\ a \notin DOMAIN filestat
  <2>1. a # "mode"
    BY <1>1, <1>4, FilestatFacts DEF ask, Times
  <2>2. Sent(k, a) = 0
    BY <1>4 DEF Sent, ask
  <2> QED
    BY <2>1, <2>2
<1>5. CASE k.proto = "sftp" /\ a \in DOMAIN filestat
  <2>1. a \in DOMAIN ask
        /\ filestat[a] = IF a \in Times THEN ask[a] \div Second ELSE ask[a]
    BY <1>1, <1>5, FilestatFacts
  <2>2. CASE a \in Times
    <3>1. Sent(k, a) = OnWire(ask[a])
      BY <1>5, <2>1, <2>2 DEF Sent, ask, OnWire
    <3>2. ask[a] \in Int
      BY <1>1, <2>1, <2>2, AskTypes
    <3>3. OnWire(ask[a]) \in Int
      BY <3>2, WireFacts
    <3> QED
      BY <2>2, <3>1, <3>3 DEF Times
  <2>3. CASE a \notin Times
    <3>1. Sent(k, a) = ask[a]
      BY <1>5, <2>1, <2>3 DEF Sent, ask
    <3> QED
      BY <1>1, <2>1, <2>3, <3>1, AskTypes DEF Times
  <2> QED
    BY <2>2, <2>3
<1> QED
  BY <1>1, <1>2, <1>3, <1>4, <1>5

\* Setting attributes changes these, and with the size the time of modification.
LEMMA WithFacts ==
  ASSUME NEW f, NEW attrs
  PROVE  /\ DOMAIN With(f, attrs) = Attrs \cup {"plain"}
         /\ \A a \in Attrs \cup {"plain"} : a \in attrs => With(f, attrs)[a] = Sent(call, a)
         /\ \A a \in Attrs \cup {"plain"} :
               a \notin attrs =>
                  \/ With(f, attrs)[a] = f[a]
                  \/ a = "modified" /\ "size" \in attrs /\ With(f, attrs)[a] = now
<1>1. DOMAIN With(f, attrs) = Attrs \cup {"plain"}
  BY DEF With
<1>2. ASSUME NEW a \in Attrs \cup {"plain"}, a \in attrs
      PROVE  With(f, attrs)[a] = Sent(call, a)
  BY <1>2 DEF With
<1>3. ASSUME NEW a \in Attrs \cup {"plain"}, a \notin attrs
      PROVE  \/ With(f, attrs)[a] = f[a]
             \/ a = "modified" /\ "size" \in attrs /\ With(f, attrs)[a] = now
  BY <1>3 DEF With
<1> QED
  BY <1>1, <1>2, <1>3

\* A file with some attributes set is a file.
LEMMA WithOK ==
  ASSUME call \in Calls, call.op = "setstat", zone \in Int, now \in Int,
         NEW f, FileOK(f), NEW attrs \in SUBSET Attrs,
         call.proto = "scp" => attrs \subseteq DOMAIN call.ask,
         "mode" \in attrs => "mode" \in DOMAIN call.ask
  PROVE  FileOK(With(f, attrs))
<1> DEFINE g == With(f, attrs)
<1>1. /\ DOMAIN g = Attrs \cup {"plain"}
      /\ \A a \in Attrs \cup {"plain"} : a \in attrs => g[a] = Sent(call, a)
      /\ \A a \in Attrs \cup {"plain"} :
            a \notin attrs => g[a] = f[a] \/ (a = "modified" /\ g[a] = now)
  BY WithFacts
<1> HIDE DEF g
<1>2. \A a \in attrs : /\ a = "mode" => Sent(call, a) \in Mode
                       /\ a \in Times => Sent(call, a) \in Int
                       /\ a \in {"uid", "gid", "size"} => Sent(call, a) \in Nat
  BY SentTypes
<1>3. "plain" \notin attrs
  BY DEF Attrs
<1>4. g["plain"] \in BOOLEAN
  BY <1>1, <1>3 DEF FileOK
<1>5. g["mode"] \in Mode
  BY <1>1, <1>2 DEF FileOK, Attrs
<1>6. g["uid"] \in Nat /\ g["gid"] \in Nat /\ g["size"] \in Nat
  BY <1>1, <1>2 DEF FileOK, Attrs
<1>7. g["accessed"] \in Int /\ g["modified"] \in Int
  BY <1>1, <1>2 DEF FileOK, Attrs, Times
<1>8. FileOK(g)
  BY <1>1, <1>4, <1>5, <1>6, <1>7 DEF FileOK
<1> QED
  BY <1>8 DEF g

\* What a request may leave: an answer and the file.
LEMMA OutcomeForms ==
  ASSUME NEW s, NEW o \in Outcomes(s)
  PROVE  \/ o = Refused(file)
         \/ /\ file = Nothing /\ s.cmd = "touch"
            /\ o = Done(Some(With(NewFile, s.on)), Nothing)
         \/ file # Nothing /\ s.cmd = "test -e" /\ o = Done(file, Nothing)
         \/ file # Nothing /\ s.cmd = "ls -l" /\ o = Done(file, Some(LsLine(file[1])))
         \/ file # Nothing /\ s.cmd = "stat" /\ o = Done(file, Some(file[1]))
         \/ /\ file # Nothing /\ s.cmd = "setstat"
            /\ o = Done(Some(With(file[1], Paired(s.on))), Nothing)
         \/ /\ file # Nothing /\ s.cmd = "setstat"
            /\ \E part \in SUBSET s.on : o = Refused(Some(With(file[1], Paired(part))))
         \/ /\ file # Nothing
            /\ s.cmd \notin {"test -e", "test -d", "ls -l", "stat", "setstat"}
            /\ o = Done(Some(With(file[1], s.on)), Nothing)
<1>1. CASE file = Nothing
  BY <1>1 DEF Outcomes
<1>2. CASE file # Nothing
  <2>1. CASE s.cmd = "test -e"
    BY <1>2, <2>1 DEF Outcomes
  <2>2. CASE s.cmd = "test -d"
    BY <1>2, <2>2 DEF Outcomes
  <2>3. CASE s.cmd = "ls -l"
    BY <1>2, <2>3 DEF Outcomes
  <2>4. CASE s.cmd = "stat"
    BY <1>2, <2>4 DEF Outcomes
  <2>5. CASE s.cmd = "setstat"
    BY <1>2, <2>5 DEF Outcomes
  <2>6. CASE s.cmd \notin {"test -e", "test -d", "ls -l", "stat", "setstat"}
    BY <1>2, <2>6 DEF Outcomes
  <2> QED
    BY <2>1, <2>2, <2>3, <2>4, <2>5, <2>6
<1> QED
  BY <1>1, <1>2

\* What a request makes of a file.
LEMMA OutcomeFiles ==
  ASSUME NEW s, NEW o \in Outcomes(s), file # Nothing
  PROVE  \/ o.file = file
         \/ /\ s.cmd = "setstat"
            /\ \E part \in SUBSET s.on : o.file = Some(With(file[1], Paired(part)))
         \/ /\ s.cmd \notin {"test -d", "ls -l", "stat", "setstat"}
            /\ o.file = Some(With(file[1], s.on))
<1>1. \A x, y : Refused(x).file = x /\ Done(x, y).file = x
  BY DEF Refused, Done
<1>2. CASE o = Refused(file) \/ \E out : o = Done(file, out)
  BY <1>1, <1>2
<1>3. CASE /\ s.cmd = "setstat"
           /\ o = Done(Some(With(file[1], Paired(s.on))), Nothing)
  <2>1. s.on \in SUBSET s.on /\ o.file = Some(With(file[1], Paired(s.on)))
    BY <1>1, <1>3
  <2>2. \E part \in SUBSET s.on : o.file = Some(With(file[1], Paired(part)))
    BY <2>1
  <2> QED
    BY <1>3, <2>2
<1>4. CASE /\ s.cmd = "setstat"
           /\ \E part \in SUBSET s.on : o = Refused(Some(With(file[1], Paired(part))))
  <2>1. PICK part \in SUBSET s.on : o = Refused(Some(With(file[1], Paired(part))))
    BY <1>4
  <2> QED
    BY <1>1, <1>4, <2>1
<1>5. CASE /\ s.cmd \notin {"test -e", "test -d", "ls -l", "stat", "setstat"}
           /\ o = Done(Some(With(file[1], s.on)), Nothing)
  BY <1>1, <1>5, Zenon
<1> QED
  BY <1>2, <1>3, <1>4, <1>5, OutcomeForms, Zenon

\* The steps that are not of the SCP client's setstat.
SetStep(ask) == Step("setstat", DOMAIN metadata_to_filestat(ask), "Ok",
                     "StatFailed", "StatFailed")
DirStep == Step("test -d", {}, GoOn, GoOn, "StatFailed")
LsStep == Step("ls -l", {}, "Ok", "NoSuchFileOrDirectory", "ProtocolError")
StatStep == Step("stat", {}, "Ok", "NoSuchFileOrDirectory", "NoSuchFileOrDirectory")

\* Which step a call may be at.
LEMMA StepForms ==
  ASSUME NEW k \in Calls, k.step \in DOMAIN Steps(k)
  PROVE  LET s == Steps(k)[k.step]
             n == Len(Steps(k))
         IN  \/ Probes(k) /\ k.step = 1 /\ s = Probe
             \/ Probes(k) /\ k.step \in 2..n /\ s \in Commands
             \/ /\ k.op = "setstat" /\ k.proto = "sftp" /\ k.step = 1 /\ n = 1
                /\ s = SetStep(k.ask)
             \/ /\ k.op = "stat" /\ k.proto = "scp" /\ k.step = 1 /\ n = 2
                /\ s = DirStep
             \/ /\ k.op = "stat" /\ k.proto = "scp" /\ k.step = 2 /\ n = 2
                /\ s = LsStep
             \/ /\ k.op = "stat" /\ k.proto = "sftp" /\ k.step = 1 /\ n = 1
                /\ s = StatStep
<1>1. k.op \in {"setstat", "stat"} /\ k.proto \in {"scp", "sftp"} /\ k.step \in Nat \ {0}
  BY CallFacts
<1>2. CASE Probes(k)
  <2> DEFINE s == Steps(k)
  <2>1. s \in Seq(Requests) /\ Ranked(s, 5, Undertaken("scp", k.ask)) /\ s[1] = Probe
    BY <1>2, FirstIsProbe
  <2>2. k.step \in DOMAIN s
    OBVIOUS
  <2> HIDE DEF s
  <2>3. k.step \in 1..Len(s)
    BY <2>1, <2>2
  <2>4. k.step = 1 \/ k.step \in 2..Len(s)
    BY <1>1, <2>3
  <2>5. k.step \in 2..Len(s) => s[k.step] \in Commands
    BY <2>1 DEF Ranked
  <2> QED
    BY <1>2, <2>1, <2>4, <2>5 DEF s
<1>3. CASE k.op = "setstat" /\ k.proto = "sftp"
  <2>1. Steps(k) = SftpSetstat(k.ask)
    BY <1>3 DEF Steps
  <2>2. k.step = 1 /\ Len(SftpSetstat(k.ask)) = 1
    BY <1>1, <2>1 DEF SftpSetstat
  <2> QED
    BY <1>3, <2>1, <2>2 DEF SftpSetstat, SetStep
<1>4. CASE k.op = "stat" /\ k.proto = "sftp"
  <2>1. Steps(k) = SftpStat
    BY <1>4 DEF Steps
  <2>2. k.step = 1 /\ Len(SftpStat) = 1
    BY <1>1, <2>1 DEF SftpStat
  <2> QED
    BY <1>4, <2>1, <2>2 DEF SftpStat, StatStep
<1>5. CASE k.op = "stat" /\ k.proto = "scp"
  <2>1. Steps(k) = ScpStat
    BY <1>5 DEF Steps
  <2>2. DOMAIN ScpStat = 1..2 /\ Len(ScpStat) = 2
    BY DEF ScpStat
  <2>3. k.step = 1 \/ k.step = 2
    BY <1>1, <2>1, <2>2
  <2>4. /\ ScpStat[1] = DirStep
        /\ ScpStat[2] = LsStep
    BY DEF ScpStat, DirStep, LsStep
  <2>5. CASE k.step = 1
    BY <1>5, <2>1, <2>2, <2>4, <2>5
  <2>6. CASE k.step = 2
    BY <1>5, <2>1, <2>2, <2>4, <2>6
  <2> QED
    BY <2>3, <2>5, <2>6
<1> QED
  BY <1>1, <1>2, <1>3, <1>4, <1>5 DEF Probes

-----------------------------------------------------------------------------
(* What a setstat has set.                                                 *)

\* The attributes that the first n - 1 steps of the call k are about.
Upto(k, n) == {a \in Attrs : \E i \in 1..n - 1 : a \in Steps(k)[i].on}

\* While a call runs, an SCP client's setstat has had the attributes of the steps
\* before the present one set, and those of the present one when its answer is
\* good; when the answer is lost it is one or the other.
AppliedInv ==
    call # Idle =>
    /\ result = [op |-> call.op, kind |-> "none"]
    /\ answer \in {NoAnswer, Err} \/ answer.rc \in {"0", "1"}
    /\ Probes(call) =>
          /\ answer.rc \in {"none", "1"} => saw.applied = Upto(call, call.step)
          /\ answer.rc = "0" => saw.applied = Upto(call, call.step + 1)
          /\ saw.applied \in {Upto(call, call.step), Upto(call, call.step + 1)}
    /\ call.op = "setstat" /\ call.proto = "sftp" =>
          /\ answer.rc = "none" => saw.applied = {}
          /\ answer.rc = "0" => saw.applied = Undertaken("sftp", call.ask)

\* No call runs at the start, and no result is there.
LEMMA AppliedInit == Init => AppliedInv /\ SetInOrder
BY DEF Init, AppliedInv, SetInOrder

\* The fields of these steps.
LEMMA StepFields ==
  /\ \A ask : /\ SetStep(ask).cmd = "setstat" /\ SetStep(ask).ok = "Ok"
               /\ SetStep(ask).on = DOMAIN metadata_to_filestat(ask)
               /\ SetStep(ask).refused = "StatFailed" /\ SetStep(ask).broken = "StatFailed"
  /\ DirStep.cmd = "test -d" /\ DirStep.on = {} /\ DirStep.ok = GoOn
  /\ DirStep.refused = GoOn /\ DirStep.broken = "StatFailed"
  /\ LsStep.cmd = "ls -l" /\ LsStep.on = {} /\ LsStep.ok = "Ok"
  /\ LsStep.refused = "NoSuchFileOrDirectory" /\ LsStep.broken = "ProtocolError"
  /\ StatStep.cmd = "stat" /\ StatStep.on = {} /\ StatStep.ok = "Ok"
  /\ StatStep.refused = "NoSuchFileOrDirectory" /\ StatStep.broken = "NoSuchFileOrDirectory"
BY DEF Step, SetStep, DirStep, LsStep, StatStep

\* What their answers lead to.
LEMMA StepVerdicts ==
  /\ \A ask : /\ SetStep(ask).ok = "Ok" /\ SetStep(ask).refused = "StatFailed"
               /\ SetStep(ask).broken = "StatFailed"
  /\ DirStep.ok = GoOn /\ DirStep.refused = GoOn /\ DirStep.broken = "StatFailed"
  /\ LsStep.ok = "Ok" /\ LsStep.refused = "NoSuchFileOrDirectory"
  /\ LsStep.broken = "ProtocolError"
  /\ StatStep.ok = "Ok" /\ StatStep.refused = "NoSuchFileOrDirectory"
  /\ StatStep.broken = "NoSuchFileOrDirectory"
BY StepFields, Zenon

\* The probe and the commands.
LEMMA RequestFields ==
  /\ Probe.cmd = "test -e" /\ Probe.on = {} /\ Probe.ok = GoOn
  /\ Probe.refused = "NoSuchFileOrDirectory" /\ Probe.broken = "NoSuchFileOrDirectory"
  /\ \A c \in Commands :
        /\ c.cmd \in {"chmod", "chown", "touch"} /\ c.on \subseteq Attrs
        /\ c.ok = GoOn /\ c.refused = "StatFailed" /\ c.broken = "ProtocolError"
BY DEF Probe, Must, Commands, assert_stat_command, Step

\* What the first steps of a sequence of ranked ones set: with an attribute every
\* one of a lower rank, with the last step all of them, before it not all.
LEMMA RankedPrefix ==
  ASSUME NEW s, NEW S \in SUBSET Attrs, Ranked(s, 5, S), NEW n \in 1..Len(s) + 1
  PROVE  LET P == {a \in Attrs : \E i \in 1..n - 1 : a \in s[i].on}
         IN  /\ P \subseteq S
             /\ \A a \in P, b \in S : Rank[b] < Rank[a] => b \in P
             /\ n = Len(s) + 1 => P = S
             /\ n \in 2..Len(s) => P # S
             /\ n \in 1..2 => P = {}
<1> DEFINE P == {a \in Attrs : \E i \in 1..n - 1 : a \in s[i].on}
<1>1. Len(s) \in Nat \ {0} /\ s[1] = Probe
  BY DEF Ranked
<1>2. s[1].on = {}
  BY <1>1, RequestFields
<1>3. \A a \in Attrs : Rank[a] \in Nat
  BY DEF Rank, Attrs
<1>4. \A a \in P : \E i \in 2..Len(s) : i < n /\ a \in s[i].on
  BY <1>1, <1>2
<1>5. \A i \in 2..Len(s) : i < n => s[i].on \cap Attrs \subseteq P
  BY <1>1
<1> HIDE DEF P
<1>6. P \subseteq S
  BY <1>4 DEF Ranked
<1>7. ASSUME NEW a \in P, NEW b \in S, Rank[b] < Rank[a] PROVE b \in P
  <2>1. PICK i \in 2..Len(s) : i < n /\ a \in s[i].on
    BY <1>4
  <2>2. PICK j \in 2..Len(s) : b \in s[j].on
    BY DEF Ranked
  <2>3. ~(Rank[a] < Rank[b]) /\ Rank[a] # Rank[b]
    BY <1>3, <1>6, <1>7
  <2>4. ~(i < j) /\ i # j
    BY <2>1, <2>2, <2>3 DEF Ranked
  <2> QED
    BY <1>5, <2>1, <2>2, <2>4
<1>8. n = Len(s) + 1 => P = S
  <2>1. SUFFICES ASSUME n = Len(s) + 1, NEW b \in S PROVE b \in P
    BY <1>6
  <2>2. PICK j \in 2..Len(s) : b \in s[j].on
    BY DEF Ranked
  <2> QED
    BY <1>1, <1>5, <2>1, <2>2
<1>9. ASSUME n \in 2..Len(s) PROVE P # S
  <2>1. PICK b \in s[n].on : b \in S
    BY <1>9 DEF Ranked
  <2>2. SUFFICES ASSUME b \in P PROVE FALSE
    BY <2>1
  <2>3. PICK i \in 2..Len(s) : i < n /\ b \in s[i].on
    BY <1>4, <2>2
  <2>4. Rank[b] < Rank[b]
    BY <1>9, <2>1, <2>3 DEF Ranked
  <2> QED
    BY <1>3, <2>1, <2>4
<1>10. ASSUME n \in 1..2 PROVE P = {}
  BY <1>4, <1>10
<1> QED
  BY <1>6, <1>7, <1>8, <1>9, <1>10 DEF P

\* One step more.
LEMMA UptoGrows ==
  ASSUME NEW k \in Calls, Probes(k), k.step \in DOMAIN Steps(k)
  PROVE  /\ k.step \in 1..Len(Steps(k))
         /\ Steps(k)[k.step].on \subseteq Attrs
         /\ Upto(k, k.step + 1) = Upto(k, k.step) \cup Steps(k)[k.step].on
<1> DEFINE s == Steps(k)
           n == k.step
<1>1. s \in Seq(Requests) /\ s[1] = Probe
  BY FirstIsProbe
<1>2. n \in DOMAIN s
  OBVIOUS
<1> HIDE DEF s
<1>3. n \in 1..Len(s) /\ s[n] \in Requests
  BY <1>1, <1>2
<1>4. s[n].on \subseteq Attrs
  BY <1>3, RequestFields DEF Requests
<1>5. n \in Nat \ {0}
  BY CallFacts
<1>6. \A i : i \in 1..n + 1 - 1 <=> (i \in 1..n - 1 \/ i = n)
  BY <1>5
<1> HIDE DEF n
<1>7. Upto(k, n + 1) = Upto(k, n) \cup s[n].on
  BY <1>4, <1>6 DEF Upto, s
<1> QED
  BY <1>3, <1>4, <1>7 DEF s, n

\* A new call has set nothing.
LEMMA UptoFirst ==
  ASSUME NEW k
  PROVE  Upto(k, 1) = {}
BY DEF Upto

\* What the client makes of an answer to a setstat.
LEMMA SetstatVerdict ==
  ASSUME ProbedInv, AppliedInv, call # Idle, call.op = "setstat", answer # NoAnswer
  PROVE  /\ Verdict \in {GoOn, "Ok", "NoSuchFileOrDirectory", "StatFailed", "ProtocolError"}
         /\ call.proto = "sftp" =>
               Verdict # GoOn /\ (Verdict = "Ok" => answer.rc = "0")
         /\ Probes(call) =>
               /\ Verdict # "Ok"
               /\ Verdict = GoOn => answer.rc = "0"
               /\ Verdict = "StatFailed" => answer.rc = "1" /\ call.step > 1
               /\ Verdict = "NoSuchFileOrDirectory" => call.step = 1
<1>1. call \in Calls /\ call.step \in DOMAIN Steps(call) /\ call.step \in Nat \ {0}
  BY CallFacts DEF ProbedInv
<1>2. /\ answer # Err => answer.rc \in {"0", "1"}
      /\ answer = Err => answer.rc \notin {"0", "1"}
  BY DEF AppliedInv, Err
<1>3. ~Unreadable
  BY DEF Unreadable
<1>4. /\ answer = Err => Verdict = Current.broken
      /\ answer.rc = "1" => Verdict = Current.refused
      /\ answer.rc = "0" => Verdict = Current.ok
  BY <1>2, <1>3 DEF Verdict
<1>5. \/ Probes(call) /\ call.step = 1 /\ Current = Probe
      \/ Probes(call) /\ call.step > 1 /\ Current \in Commands
      \/ /\ call.proto = "sftp"
         /\ Current = SetStep(call.ask)
  BY <1>1, StepForms DEF Current
<1>6. CASE Probes(call) /\ call.step = 1 /\ Current = Probe
  BY <1>2, <1>4, <1>6, RequestFields DEF Probes, GoOn
<1>7. CASE Probes(call) /\ call.step > 1 /\ Current \in Commands
  BY <1>1, <1>2, <1>4, <1>7, RequestFields DEF Probes, GoOn
<1>8. CASE call.proto = "sftp" /\ Current = SetStep(call.ask)
  <2>1. Current.ok = "Ok" /\ Current.refused = "StatFailed" /\ Current.broken = "StatFailed"
    BY <1>8, StepVerdicts
  <2> QED
    BY <1>2, <1>4, <1>8, <2>1 DEF Probes, GoOn
<1> QED
  BY <1>5, <1>6, <1>7, <1>8

\* What the client makes of an answer to a stat.
LEMMA StatVerdict ==
  ASSUME ProbedInv, AppliedInv, call # Idle, call.op = "stat", answer # NoAnswer
  PROVE  \/ Verdict = GoOn /\ call.proto = "scp" /\ call.step = 1 /\ More
         \/ Verdict \in {"StatFailed", "ProtocolError"}
         \/ /\ Verdict = "Ok" /\ answer.rc = "0" /\ answer # Err /\ ~Unreadable
            /\ call.proto = "sftp" \/ call.step = 2
         \/ /\ Verdict = "NoSuchFileOrDirectory"
            /\ call.proto = "sftp" \/ call.step = 2
            /\ \/ answer.rc = "1" \/ Unreadable
               \/ answer = Err /\ call.proto = "sftp"
<1>1. call \in Calls /\ call.step \in DOMAIN Steps(call) /\ call.step \in Nat \ {0}
  BY CallFacts DEF ProbedInv
<1>2. /\ answer # Err => answer.rc \in {"0", "1"}
      /\ answer = Err => answer.rc \notin {"0", "1"}
  BY DEF AppliedInv, Err
<1>3. /\ answer = Err => Verdict = Current.broken
      /\ answer.rc = "1" => Verdict = Current.refused
      /\ answer.rc = "0" /\ Unreadable => Verdict = Current.refused
      /\ answer.rc = "0" /\ ~Unreadable => Verdict = Current.ok
  BY <1>2 DEF Verdict
<1>4. \/ /\ call.proto = "scp" /\ call.step = 1 /\ Len(Steps(call)) = 2
         /\ Current = DirStep
      \/ /\ call.proto = "scp" /\ call.step = 2
         /\ Current = LsStep
      \/ /\ call.proto = "sftp"
         /\ Current = StatStep
  BY <1>1, StepForms DEF Current, Probes
<1>5. CASE /\ call.proto = "scp" /\ call.step = 1 /\ Len(Steps(call)) = 2
           /\ Current = DirStep
  <2>1. Current.ok = GoOn /\ Current.refused = GoOn /\ Current.broken = "StatFailed"
    BY <1>5, StepVerdicts
  <2>2. More
    BY <1>5 DEF More
  <2> QED
    BY <1>2, <1>3, <1>5, <2>1, <2>2
<1>6. CASE /\ call.proto = "scp" /\ call.step = 2
           /\ Current = LsStep
  <2>1. /\ Current.ok = "Ok" /\ Current.refused = "NoSuchFileOrDirectory"
        /\ Current.broken = "ProtocolError"
    BY <1>6, StepVerdicts
  <2> QED
    BY <1>2, <1>3, <1>6, <2>1
<1>7. CASE /\ call.proto = "sftp"
           /\ Current = StatStep
  <2>1. /\ Current.ok = "Ok" /\ Current.refused = "NoSuchFileOrDirectory"
        /\ Current.broken = "NoSuchFileOrDirectory"
    BY <1>7, StepVerdicts
  <2>2. ~Unreadable
    BY <1>7 DEF Unreadable
  <2> QED
    BY <1>2, <1>3, <1>7, <2>1, <2>2
<1> QED
  BY <1>4, <1>5, <1>6, <1>7

\* The constants have their types, and so have the present time and the time zone.
LEMMA ClockTypes ==
  ASSUME TypeOK
  PROVE  zone \in Int /\ start \in Int /\ now \in Int /\ MaxTicks \in Nat
BY AttributesAssumption DEF TypeOK

\* Setting, as a packet does, some of the attributes of a setstat.
LEMMA PairedFacts ==
  ASSUME NEW part \in SUBSET Attrs
  PROVE  /\ Paired(part) \in SUBSET Attrs
         /\ "mode" \in Paired(part) => "mode" \in part
BY DEF Paired, Attrs, Times

\* The attributes that a request sets are asked for, and only a setstat has some.
LEMMA OnFacts ==
  ASSUME NEW k \in Calls, k.step \in DOMAIN Steps(k)
  PROVE  LET s == Steps(k)[k.step]
         IN  /\ k.op = "setstat" => k.ask \in Asks /\ s.on \subseteq Undertaken(k.proto, k.ask)
             /\ Undertaken(k.proto, k.ask) \subseteq DOMAIN k.ask
             /\ k.op = "stat" => s.on = {} /\ s.cmd \in {"test -d", "ls -l", "stat"}
             /\ s.cmd = "setstat" => k.op = "setstat" /\ k.proto = "sftp"
             /\ k.op = "setstat" /\ k.proto = "sftp" => s.on = Undertaken("sftp", k.ask)
             /\ k.op = "setstat" => s.cmd \notin {"test -d", "ls -l", "stat"}
             /\ s.cmd \in {"touch", "chmod", "chown"} => Probes(k)
<1> DEFINE s == Steps(k)[k.step]
<1>1. k.op = "setstat" => k.ask \in Asks
  BY DEF Calls
<1>2. Undertaken(k.proto, k.ask) \subseteq DOMAIN k.ask
  BY DEF Undertaken
<1>3. CASE Probes(k)
  <2> DEFINE all == Steps(k)
  <2>1. Ranked(all, 5, Undertaken("scp", k.ask)) /\ k.proto = "scp" /\ k.op = "setstat"
    BY <1>3, FirstIsProbe DEF Probes
  <2>2. \/ k.step = 1 /\ s = Probe
        \/ k.step \in 2..Len(all) /\ s \in Commands
    BY <1>3, StepForms DEF Probes
  <2>3. s.on \subseteq Undertaken("scp", k.ask)
    <3>1. CASE s = Probe
      BY <3>1, RequestFields, Zenon
    <3>2. CASE k.step \in 2..Len(all)
      BY <2>1, <3>2 DEF Ranked
    <3> QED
      BY <2>2, <3>1, <3>2
  <2>4. s.cmd \notin {"test -d", "ls -l", "stat", "setstat"}
    <3>1. CASE s = Probe
      BY <3>1, RequestFields
    <3>2. CASE s \in Commands
      BY <3>2, RequestFields
    <3> QED
      BY <2>2, <3>1, <3>2
  <2> QED
    BY <1>1, <1>2, <1>3, <2>1, <2>3, <2>4, Zenon
<1>4. CASE ~Probes(k)
  <2>1. \/ /\ k.op = "setstat" /\ k.proto = "sftp" /\ s = SetStep(k.ask)
        \/ k.op = "stat" /\ s \in {DirStep, LsStep, StatStep}
    BY <1>4, StepForms
  <2>2. CASE k.op = "setstat" /\ k.proto = "sftp" /\ s = SetStep(k.ask)
    <3>2. DOMAIN metadata_to_filestat(k.ask) = Undertaken("sftp", k.ask)
      BY <1>1, <2>2, FilestatFacts
    <3>3. /\ SetStep(k.ask).on = DOMAIN metadata_to_filestat(k.ask)
          /\ SetStep(k.ask).cmd = "setstat"
      BY StepFields, Zenon
    <3>1. s.on = Undertaken("sftp", k.ask) /\ s.cmd = "setstat"
      BY <2>2, <3>2, <3>3
    <3> QED
      BY <1>1, <1>2, <2>2, <3>1, Zenon
  <2>3. CASE k.op = "stat" /\ s \in {DirStep, LsStep, StatStep}
    <3>1. s.on = {} /\ s.cmd \in {"test -d", "ls -l", "stat"}
      BY <2>3, StepFields, Zenon
    <3> QED
      BY <1>2, <2>3, <3>1, Zenon
  <2> QED
    BY <2>1, <2>2, <2>3
<1> QED
  BY <1>3, <1>4

\* A request makes of a file another one, or none, and gives a known status.
LEMMA ServedFile ==
  ASSUME TypeOK, ProbedInv, call # Idle, NEW o \in Outcomes(Current)
  PROVE  /\ o.rc \in {"0", "1"}
         /\ o.file # Nothing => o.file = Some(o.file[1]) /\ FileOK(o.file[1])
<1>1. call \in Calls /\ call.step \in DOMAIN Steps(call)
  BY DEF ProbedInv
<1>2. zone \in Int /\ now \in Int
  BY ClockTypes
<1> DEFINE s == Current
<1>3. /\ call.op = "setstat" => call.ask \in Asks /\ s.on \subseteq DOMAIN call.ask
      /\ call.op = "stat" => s.cmd \in {"test -d", "ls -l", "stat"}
      /\ s.cmd = "setstat" => call.op = "setstat" /\ call.proto = "sftp"
  BY <1>1, OnFacts, Zenon DEF Current
<1>4. call.op \in {"setstat", "stat"}
  BY <1>1, CallFacts
<1>5. \A x : Some(x)[1] = x
  BY DEF Some
<1>6. file # Nothing => file = Some(file[1]) /\ FileOK(file[1])
  BY DEF TypeOK
<1>7. FileOK(NewFile)
  BY <1>2 DEF FileOK, NewFile, Mode, Attrs
<1>8. call.op = "setstat" => DOMAIN call.ask \in SUBSET Attrs
  BY <1>3, AskTypes
<1> HIDE DEF s
<1>9. ASSUME NEW f, FileOK(f), call.op = "setstat"
      PROVE  FileOK(With(f, s.on))
  BY <1>1, <1>2, <1>3, <1>8, <1>9, WithOK
<1>10. ASSUME NEW f, FileOK(f), NEW part \in SUBSET s.on, call.op = "setstat",
              call.proto = "sftp"
       PROVE  FileOK(With(f, Paired(part)))
  <2>1. part \in SUBSET Attrs
    BY <1>3, <1>8, <1>10
  <2> QED
    BY <1>1, <1>2, <1>3, <1>10, <2>1, PairedFacts, WithOK
<1>11. CASE o = Refused(file) \/ \E out : o = Done(file, out)
  BY <1>6, <1>11 DEF Refused, Done
<1>12. CASE s.cmd = "touch" /\ o = Done(Some(With(NewFile, s.on)), Nothing)
  <2>1. call.op = "setstat"
    BY <1>3, <1>4, <1>12, Zenon
  <2>2. FileOK(With(NewFile, s.on))
    BY <1>7, <1>9, <2>1
  <2> QED
    BY <1>5, <1>12, <2>2, Zenon DEF Done
<1>13. CASE /\ file # Nothing /\ s.cmd = "setstat"
            /\ \E part \in SUBSET s.on :
                  \E rc \in {"0", "1"} : \E out :
                     o = [rc |-> rc, file |-> Some(With(file[1], Paired(part))), out |-> out]
  <2>1. PICK part \in SUBSET s.on, rc \in {"0", "1"} :
           \E out : o = [rc |-> rc, file |-> Some(With(file[1], Paired(part))), out |-> out]
    BY <1>13
  <2>2. FileOK(With(file[1], Paired(part)))
    BY <1>3, <1>6, <1>10, <1>13
  <2> QED
    BY <1>5, <2>1, <2>2
<1>14. CASE /\ file # Nothing /\ call.op = "setstat"
            /\ o = Done(Some(With(file[1], s.on)), Nothing)
  <2>1. FileOK(With(file[1], s.on))
    BY <1>6, <1>9, <1>14
  <2> QED
    BY <1>5, <1>14, <2>1 DEF Done
<1>15. \/ o = Refused(file) \/ \E out : o = Done(file, out)
       \/ s.cmd = "touch" /\ o = Done(Some(With(NewFile, s.on)), Nothing)
       \/ /\ file # Nothing /\ s.cmd = "setstat"
          /\ \/ o = Done(Some(With(file[1], Paired(s.on))), Nothing)
             \/ \E part \in SUBSET s.on : o = Refused(Some(With(file[1], Paired(part))))
       \/ /\ file # Nothing /\ call.op = "setstat"
          /\ o = Done(Some(With(file[1], s.on)), Nothing)
  <2>1. s.cmd \notin {"test -e", "test -d", "ls -l", "stat", "setstat"} => call.op = "setstat"
    BY <1>3, <1>4, Zenon
  <2> QED
    BY <2>1, OutcomeForms, Zenon DEF s
<1>16. /\ file # Nothing /\ s.cmd = "setstat"
       /\ \/ o = Done(Some(With(file[1], Paired(s.on))), Nothing)
          \/ \E part \in SUBSET s.on : o = Refused(Some(With(file[1], Paired(part))))
       => \E part \in SUBSET s.on :
             \E rc \in {"0", "1"} : \E out :
                o = [rc |-> rc, file |-> Some(With(file[1], Paired(part))), out |-> out]
  BY DEF Done, Refused
<1> QED
  BY <1>11, <1>12, <1>13, <1>14, <1>15, <1>16, Zenon

\* The initial values have their types.
LEMMA TypeInit == Init => TypeOK
<1> SUFFICES ASSUME Init PROVE TypeOK
  OBVIOUS
<1>1. file # Nothing => file = Some(file[1]) /\ FileOK(file[1])
  <2>1. SUFFICES ASSUME file # Nothing PROVE file = Some(file[1]) /\ FileOK(file[1])
    OBVIOUS
  <2>2. PICK f \in Files : file = Some(f)
    BY <2>1 DEF Init
  <2> QED
    BY <2>2, AttributesAssumption DEF Some
<1>2. zone \in Zones /\ start \in Starts /\ now \in start..start + MaxTicks
  BY AttributesAssumption DEF Init
<1>3. /\ call = Idle /\ answer = NoAnswer /\ result.kind = "none"
      /\ calls = [setstat |-> 0, stat |-> 0] /\ faults = 0
  BY DEF Init
<1>4. 0 \in 0..MaxFaults /\ \A op \in {"setstat", "stat"} : calls[op] \in 0..MaxCalls[op]
  BY <1>3, AttributesAssumption
<1> QED
  BY <1>1, <1>2, <1>3, <1>4 DEF TypeOK

\* The kinds of result.
Kinds == {"none", "Ok", "NoSuchFileOrDirectory", "StatFailed", "ProtocolError"}

\* A result is of a known kind.
LEMMA VerdictKinds ==
  ASSUME ProbedInv, AppliedInv, call # Idle, answer # NoAnswer, Verdict # GoOn
  PROVE  Verdict \in Kinds
<1>1. call.op \in {"setstat", "stat"}
  BY CallFacts DEF ProbedInv
<1>2. CASE call.op = "setstat"
  BY <1>2, SetstatVerdict DEF Kinds
<1>3. CASE call.op = "stat"
  BY <1>3, StatVerdict DEF Kinds
<1> QED
  BY <1>1, <1>2, <1>3

\* Every step keeps the types.
LEMMA TypeNext ==
  ASSUME TypeOK, ProbedInv, ProbedInv', AppliedInv, [Next]_vars
  PROVE  TypeOK'
<1>1. /\ MaxTicks \in Nat /\ MaxFaults \in Nat /\ MaxCalls \in [setstat : Nat, stat : Nat]
      /\ start \in Int /\ now \in Int
  BY ClockTypes, AttributesAssumption
<1>2. ProbedInv' => /\ call' # Idle => call'.step \in DOMAIN Steps(call')
                    /\ answer' # NoAnswer => call' # Idle
  BY DEF ProbedInv
<1>3. CASE setstat \/ stat
  <2>1. PICK op \in {"setstat", "stat"} :
           /\ calls[op] < MaxCalls[op] /\ calls' = [calls EXCEPT ![op] = @ + 1]
           /\ result'.kind = "none"
           /\ UNCHANGED <<file, zone, start, now, faults>>
    BY <1>3 DEF setstat, stat, Start, clock
  <2>2. \A o \in {"setstat", "stat"} : calls'[o] \in 0..MaxCalls[o]
    <3>1. calls[op] \in 0..MaxCalls[op] /\ MaxCalls[op] \in Nat
      BY <1>1 DEF TypeOK
    <3>2. calls[op] + 1 \in 0..MaxCalls[op]
      BY <2>1, <3>1
    <3> QED
      BY <2>1, <3>2 DEF TypeOK
  <2> QED
    BY <1>2, <2>1, <2>2 DEF TypeOK
<1>4. CASE Serve
  <2>1. call # Idle /\ UNCHANGED <<zone, start, now, result, calls, faults>>
    BY <1>4 DEF Serve, clock, bounds
  <2>2. file' # Nothing => file' = Some(file'[1]) /\ FileOK(file'[1])
    <3>1. PICK o \in Outcomes(Current) : file' = o.file
      BY <1>4 DEF Serve
    <3>2. o.file # Nothing => o.file = Some(o.file[1]) /\ FileOK(o.file[1])
      BY <2>1, ServedFile
    <3> QED
      BY <3>1, <3>2
  <2> QED
    BY <1>2, <2>1, <2>2 DEF TypeOK
<1>5. CASE Fails \/ Cut
  <2>1. /\ UNCHANGED <<file, zone, start, now, result, calls>>
        /\ faults < MaxFaults /\ faults' = faults + 1
    BY <1>5 DEF Fails, Cut, clock
  <2>2. faults' \in 0..MaxFaults
    BY <1>1, <2>1 DEF TypeOK
  <2> QED
    BY <1>2, <2>1, <2>2 DEF TypeOK
<1>6. CASE Take
  <2>1. call # Idle /\ answer # NoAnswer /\ UNCHANGED <<file, zone, start, now, calls, faults>>
    BY <1>6 DEF Take, clock, bounds
  <2>2. result'.kind \in Kinds
    <3>1. CASE result' = result
      BY <3>1 DEF TypeOK, Kinds
    <3>2. ASSUME NEW kind \in Kinds, Finish(kind) PROVE result'.kind \in Kinds
      BY <3>2 DEF Finish, Kinds
    <3>3. result' = result \/ Finish("Ok") \/ (Verdict # GoOn /\ Finish(Verdict))
      BY <1>6 DEF Take
    <3>4. "Ok" \in Kinds
      BY DEF Kinds
    <3> QED
      BY <2>1, <3>1, <3>2, <3>3, <3>4, VerdictKinds
  <2> QED
    BY <1>2, <2>1, <2>2 DEF TypeOK, Kinds
<1>7. CASE Tick
  <2>1. /\ UNCHANGED <<file, zone, start, result, calls, faults>>
        /\ now < start + MaxTicks /\ now' = now + 1
    BY <1>7 DEF Tick, bounds
  <2>2. now' \in start'..start' + MaxTicks
    BY <1>1, <2>1 DEF TypeOK
  <2> QED
    BY <1>2, <2>1, <2>2 DEF TypeOK
<1>8. CASE Removed
  <2>1. UNCHANGED <<zone, start, now, result, calls, faults>> /\ file' = Nothing
    BY <1>8 DEF Removed, clock, bounds
  <2> QED
    BY <1>2, <2>1 DEF TypeOK
<1>9. CASE UNCHANGED vars
  BY <1>9 DEF vars, TypeOK
<1> QED
  BY <1>3, <1>4, <1>5, <1>6, <1>7, <1>8, <1>9 DEF Next

\* The result of a setstat tells what was set.
LEMMA SetInOrderNext ==
  ASSUME ProbedInv, AppliedInv, SetInOrder, [Next]_vars
  PROVE  SetInOrder'
<1>1. CASE setstat \/ stat
  <2>1. result'.kind = "none"
    BY <1>1 DEF setstat, stat, Start
  <2> QED
    BY <2>1 DEF SetInOrder
<1>2. CASE Serve \/ Fails \/ Cut
  <2>1. call # Idle /\ result' = result
    BY <1>2 DEF Serve, Fails, Cut
  <2>2. result'.kind = "none"
    BY <2>1 DEF AppliedInv
  <2> QED
    BY <2>2 DEF SetInOrder
<1>3. CASE Tick \/ Removed \/ UNCHANGED vars
  <2>1. result' = result
    BY <1>3 DEF Tick, Removed, vars
  <2>2. Removed => saw'.applied = saw.applied
    BY DEF Removed
  <2>3. saw'.applied = saw.applied
    BY <1>3, <2>2 DEF Tick, vars
  <2> QED
    BY <2>1, <2>3 DEF SetInOrder
<1>4. CASE Take
  <2>1. call # Idle /\ answer # NoAnswer /\ call \in Calls
        /\ call.step \in DOMAIN Steps(call) /\ call.op \in {"setstat", "stat"}
        /\ result.kind = "none" /\ call.proto \in {"scp", "sftp"} /\ call.step \in Nat \ {0}
    BY <1>4, CallFacts DEF Take, ProbedInv, AppliedInv
  <2>2. \/ result' = result
        \/ Verdict = GoOn /\ ~More /\ Finish("Ok")
        \/ Verdict # GoOn /\ Finish(Verdict)
    BY <1>4 DEF Take
  <2>3. CASE result' = result
    BY <2>1, <2>3 DEF SetInOrder
  <2>4. ASSUME NEW kind, Finish(kind), call.op = "stat" PROVE SetInOrder'
    <3>1. result'.op = "stat"
      BY <2>4 DEF Finish
    <3> QED
      BY <3>1 DEF SetInOrder
  <2>5. ASSUME NEW kind, Finish(kind), call.op = "setstat"
        PROVE  /\ result' = [op |-> "setstat", kind |-> kind, proto |-> call.proto,
                             ask |-> call.ask]
               /\ saw'.applied = saw.applied
    BY <2>5 DEF Finish
  <2>6. CASE call.op = "setstat" /\ call.proto = "sftp" /\ result' # result
    <3>1. Verdict # GoOn /\ (Verdict = "Ok" => answer.rc = "0")
      BY <2>1, <2>6, SetstatVerdict
    <3>2. Finish(Verdict)
      BY <2>2, <2>6, <3>1
    <3>3. Verdict = "Ok" => saw.applied = Undertaken("sftp", call.ask)
      BY <2>1, <2>6, <3>1 DEF AppliedInv
    <3>4. /\ result'.kind = Verdict /\ result'.proto = "sftp" /\ result'.ask = call.ask
          /\ saw'.applied = saw.applied
      BY <2>5, <2>6, <3>2
    <3> QED
      BY <3>3, <3>4 DEF SetInOrder
  <2>7. CASE call.op = "setstat" /\ call.proto = "scp" /\ result' # result
    <3> DEFINE s == Steps(call)
               all == Undertaken("scp", call.ask)
               n == call.step
    <3>1. Probes(call) /\ call.ask \in Asks
      BY <2>1, <2>7 DEF Probes, Calls
    <3>2. /\ Verdict # "Ok"
          /\ Verdict = GoOn => answer.rc = "0"
          /\ Verdict = "StatFailed" => answer.rc = "1" /\ n > 1
          /\ Verdict = "NoSuchFileOrDirectory" => n = 1
          /\ Verdict \in {GoOn, "Ok", "NoSuchFileOrDirectory", "StatFailed", "ProtocolError"}
      BY <2>1, <2>7, <3>1, SetstatVerdict
    <3>3. PICK kind : /\ Finish(kind)
                      /\ kind = "Ok" => Verdict = GoOn /\ ~More
                      /\ kind # "Ok" => kind = Verdict
      BY <2>2, <2>7, <3>2
    <3>4. /\ result'.kind = kind /\ result'.proto = "scp" /\ result'.ask = call.ask
          /\ saw'.applied = saw.applied
      BY <2>5, <2>7, <3>3
    <3>5. Ranked(s, 5, all) /\ n \in 1..Len(s) /\ all \in SUBSET Attrs
      BY <2>1, <3>1, FirstIsProbe, UptoGrows, AskTypes DEF Undertaken
    <3>6. /\ answer.rc = "1" => saw.applied = Upto(call, n)
          /\ answer.rc = "0" => saw.applied = Upto(call, n + 1)
          /\ saw.applied \in {Upto(call, n), Upto(call, n + 1)}
      BY <2>1, <3>1 DEF AppliedInv
    <3> HIDE DEF all, s
    <3>7. n \in 1..Len(s) + 1 /\ n + 1 \in 1..Len(s) + 1 /\ Len(s) \in Nat
      BY <2>1, <3>5 DEF Ranked
    <3>8. \A m \in 1..Len(s) + 1 :
             /\ Upto(call, m) \subseteq all
             /\ \A a \in Upto(call, m), b \in all : Rank[b] < Rank[a] => b \in Upto(call, m)
             /\ m = Len(s) + 1 => Upto(call, m) = all
             /\ m \in 2..Len(s) => Upto(call, m) # all
             /\ m \in 1..2 => Upto(call, m) = {}
      BY <3>5, RankedPrefix DEF Upto, s
    <3>9. kind = "Ok" => saw.applied = all
      <4>1. SUFFICES ASSUME kind = "Ok" PROVE saw.applied = all
        OBVIOUS
      <4>2. n = Len(s)
        BY <3>3, <3>5, <3>7, <4>1 DEF More, s
      <4>3. saw.applied = Upto(call, n + 1)
        BY <3>2, <3>3, <3>6, <4>1
      <4> QED
        BY <3>7, <3>8, <4>2, <4>3
    <3>10. /\ saw.applied \subseteq all
           /\ \A a \in saw.applied, b \in all : Rank[b] < Rank[a] => b \in saw.applied
      BY <3>6, <3>7, <3>8
    <3>11. kind = "StatFailed" => saw.applied # all
      <4>1. kind = "StatFailed" => n \in 2..Len(s) /\ saw.applied = Upto(call, n)
        BY <3>2, <3>3, <3>5, <3>6, <3>7
      <4> QED
        BY <3>7, <3>8, <4>1
    <3>12. kind = "NoSuchFileOrDirectory" => saw.applied = {}
      <4>1. kind = "NoSuchFileOrDirectory" => n = 1
        BY <3>2, <3>3
      <4>2. n = 1 => n \in 1..2 /\ n + 1 \in 1..2
        OBVIOUS
      <4> QED
        BY <3>6, <3>7, <3>8, <4>1, <4>2
    <3> QED
      BY <3>4, <3>9, <3>10, <3>11, <3>12 DEF SetInOrder, all
  <2> QED
    BY <2>1, <2>2, <2>3, <2>4, <2>6, <2>7
<1> QED
  BY <1>1, <1>2, <1>3, <1>4 DEF Next

\* The forms of a call that has begun.
LEMMA StartFacts ==
  ASSUME setstat \/ stat
  PROVE  /\ call = Idle /\ call'.step = 1 /\ call'.op \in {"setstat", "stat"}
         /\ result' = [op |-> call'.op, kind |-> "none"]
         /\ saw'.applied = {} /\ saw'.files = {file}
         /\ saw'.set = (IF call'.op = "setstat" THEN Nothing ELSE saw.set)
         /\ UNCHANGED <<file, zone, start, now, answer>>
<1>1. PICK op \in {"setstat", "stat"} : \E proto, ask : Start(op, proto, ask)
  BY DEF setstat, stat
<1>2. call'.op = op /\ call'.step = 1
  BY <1>1 DEF Start
<1>3. saw' = [files |-> {file}, applied |-> {}, fault |-> FALSE, cut |-> FALSE,
              denied |-> FALSE,
              set |-> IF op = "setstat" THEN Nothing ELSE saw.set]
  BY <1>1 DEF Start
<1>4. saw'.set = (IF op = "setstat" THEN Nothing ELSE saw.set)
  BY <1>3
<1>5. saw'.applied = {} /\ saw'.files = {file}
  BY <1>3
<1> QED
  BY <1>1, <1>2, <1>4, <1>5 DEF Start, clock

\* Every step keeps track of what is set.
LEMMA AppliedNext ==
  ASSUME TypeOK, ProbedInv, ProbedInv', AppliedInv, [Next]_vars
  PROVE  AppliedInv'
<1>1. NoAnswer.rc = "none" /\ Err.rc = "err"
  BY DEF NoAnswer, Err
<1>2. call # Idle => call \in Calls /\ call.step \in DOMAIN Steps(call)
  BY DEF ProbedInv
<1>3. CASE setstat \/ stat
  <2>1. /\ call'.step = 1 /\ result' = [op |-> call'.op, kind |-> "none"]
        /\ saw'.applied = {} /\ answer' = NoAnswer
    BY <1>3, StartFacts DEF ProbedInv
  <2>2. Upto(call', call'.step) = {}
    BY <2>1, UptoFirst
  <2> QED
    BY <1>1, <2>1, <2>2 DEF AppliedInv
<1>4. CASE Serve
  <2>1. PICK o \in Outcomes(Current) :
           /\ call # Idle /\ answer = NoAnswer /\ call' = call /\ result' = result
           /\ answer' = [rc |-> o.rc, out |-> o.out]
           /\ saw'.applied = IF o.rc = "0" THEN saw.applied \cup Current.on ELSE saw.applied
    BY <1>4 DEF Serve, SawFields, ProbedInv
  <2>2. o.rc \in {"0", "1"} /\ answer'.rc = o.rc
    BY <2>1, ServedFile
  <2>3. saw'.applied = saw.applied \/ saw'.applied = saw.applied \cup Current.on
    BY <2>1
  <2>4. /\ o.rc = "0" => saw'.applied = saw.applied \cup Current.on
        /\ o.rc = "1" => saw'.applied = saw.applied
    BY <2>1
  <2>5. Probes(call) =>
          /\ saw.applied = Upto(call, call.step)
          /\ Upto(call, call.step + 1) = Upto(call, call.step) \cup Current.on
    BY <1>1, <1>2, <2>1, UptoGrows DEF AppliedInv, Current
  <2>6. call.op = "setstat" /\ call.proto = "sftp" =>
          Current.on = Undertaken("sftp", call.ask)
    BY <1>2, <2>1, OnFacts DEF Current
  <2>7. /\ result' = [op |-> call'.op, kind |-> "none"]
        /\ answer'.rc \in {"0", "1"}
    BY <2>1, <2>2 DEF AppliedInv
  <2>8. ASSUME Probes(call)
        PROVE  /\ answer'.rc = "1" => saw'.applied = Upto(call, call.step)
               /\ answer'.rc = "0" => saw'.applied = Upto(call, call.step + 1)
    BY <2>2, <2>4, <2>5, <2>8
  <2>9. ASSUME call.op = "setstat", call.proto = "sftp", answer'.rc = "0"
        PROVE  saw'.applied = Undertaken("sftp", call.ask)
    <3>1. saw.applied = {}
      BY <1>1, <2>1, <2>9 DEF AppliedInv
    <3> QED
      BY <2>2, <2>4, <2>6, <2>9, <3>1
  <2> QED
    BY <1>1, <2>1, <2>7, <2>8, <2>9 DEF AppliedInv
<1>5. CASE Fails
  <2>1. /\ call # Idle /\ UNCHANGED <<call, result>> /\ answer' = Err
        /\ saw'.applied = saw.applied
    BY <1>5 DEF Fails
  <2> QED
    BY <1>1, <2>1 DEF AppliedInv
<1>6. CASE Cut
  <2>1. /\ call # Idle /\ UNCHANGED <<call, result>> /\ Current.cmd = "ls -l"
        /\ answer' = [rc |-> "1", out |-> Nothing]
    BY <1>6 DEF Cut
  <2>2. call.op # "setstat" /\ answer'.rc = "1"
    BY <1>2, <2>1, OnFacts, Zenon DEF Current
  <2> QED
    BY <2>1, <2>2 DEF AppliedInv, Probes
<1>7. CASE Take
  <2>1. call # Idle /\ answer # NoAnswer /\ answer' = NoAnswer
    BY <1>7 DEF Take
  <2>2. CASE call' = Idle
    BY <2>2 DEF AppliedInv
  <2>3. CASE Verdict = GoOn /\ call' = [call EXCEPT !.step = @ + 1] /\ UNCHANGED <<result, saw>>
    <3>1. /\ Steps(call') = Steps(call)
          /\ Probes(call') <=> Probes(call)
          /\ call'.step = call.step + 1 /\ call'.op = call.op /\ call'.proto = call.proto
          /\ call'.ask = call.ask
      BY <1>2, <2>1, <2>3, StepsOfNext DEF Calls
    <3>2. Upto(call', call'.step) = Upto(call, call.step + 1)
      BY <3>1 DEF Upto
    <3>3. ASSUME Probes(call) PROVE saw.applied = Upto(call, call.step + 1)
      <4>1. answer.rc = "0"
        BY <2>1, <2>3, <3>3, SetstatVerdict DEF Probes
      <4> QED
        BY <2>1, <3>3, <4>1 DEF AppliedInv
    <3>4. ~(call.op = "setstat" /\ call.proto = "sftp")
      BY <2>1, <2>3, SetstatVerdict
    <3> QED
      BY <1>1, <2>1, <2>3, <3>1, <3>2, <3>3, <3>4 DEF AppliedInv
  <2> QED
    BY <1>7, <2>2, <2>3 DEF Take, Finish
<1>8. CASE Tick \/ Removed \/ UNCHANGED vars
  <2>1. UNCHANGED <<call, answer, result>>
    BY <1>8 DEF Tick, Removed, vars
  <2>2. Removed => saw'.applied = saw.applied
    BY DEF Removed
  <2>3. saw'.applied = saw.applied
    BY <1>8, <2>2 DEF Tick, vars
  <2>4. Upto(call, call.step)' = Upto(call, call.step)
        /\ Upto(call, call.step + 1)' = Upto(call, call.step + 1)
    BY <2>1 DEF Upto
  <2> QED
    BY <2>1, <2>3, <2>4 DEF AppliedInv
<1> QED
  BY <1>3, <1>4, <1>5, <1>6, <1>7, <1>8 DEF Next

\* The invariant.
AttrInv == TypeOK /\ ProbedInv /\ AppliedInv /\ SetInOrder

\* The invariant holds at the start, and every step keeps it.
LEMMA AttrInvariant == Spec => []AttrInv
<1>1. Init => AttrInv
  BY TypeInit, ProbedInit, AppliedInit DEF AttrInv
<1>2. AttrInv /\ [Next]_vars => AttrInv'
  <2>1. SUFFICES ASSUME AttrInv, [Next]_vars PROVE AttrInv'
    OBVIOUS
  <2>2. TypeOK /\ ProbedInv /\ AppliedInv /\ SetInOrder
    BY <2>1 DEF AttrInv
  <2>3. ProbedInv'
    BY <2>1, <2>2, ProbedNext
  <2>4. TypeOK' /\ AppliedInv' /\ SetInOrder'
    BY <2>1, <2>2, <2>3, TypeNext, AppliedNext, SetInOrderNext
  <2> QED
    BY <2>3, <2>4 DEF AttrInv
<1> QED
  BY <1>1, <1>2, PTL DEF Spec

\* Every state has the types: a call at one of its steps, a file with all its
\* attributes, whatever was set.
THEOREM AttributeTypes == Spec => []TypeOK
BY AttrInvariant, PTL DEF AttrInv

\* A setstat that returns Ok has set all it undertakes, and one of the SCP client
\* that fails has set a beginning of it.
THEOREM AppliedInOrder == Spec => []SetInOrder
BY AttrInvariant, PTL DEF AttrInv

\* A step that leaves a file a file changes only what the call was asked to, and
\* what a packet sets with it.
THEOREM NothingElseChanges == Spec => OnlyAsked
<1>1. ASSUME AttrInv, [Next]_vars, file # Nothing, file' # Nothing,
             NEW a \in Attrs \cup {"plain"}, file'[1][a] # file[1][a]
      PROVE  LET asked == Undertaken(call.proto, call.ask)
                 more == IF call.proto = "sftp"
                           THEN Paired(asked) \cup {"size", "modified"} ELSE {}
             IN  call # Idle /\ call.op = "setstat" /\ a \in asked \cup more
  <2> DEFINE asked == Undertaken(call.proto, call.ask)
             f == file[1]
  <2>1. Serve
    BY <1>1 DEF Next, vars, setstat, stat, Start, Fails, Cut, Take, Tick, Removed
  <2>2. PICK o \in Outcomes(Current) : file' = o.file
    BY <2>1 DEF Serve
  <2>3. /\ call # Idle /\ call \in Calls /\ call.step \in DOMAIN Steps(call)
        /\ call.op \in {"setstat", "stat"} /\ call.proto \in {"scp", "sftp"}
    BY <1>1, <2>1, CallFacts DEF Serve, AttrInv, ProbedInv
  <2>4. \A x : Some(x)[1] = x
    BY DEF Some
  <2> DEFINE s == Current
  <2>5. /\ call.op = "setstat" => call.ask \in Asks /\ s.on \subseteq asked
        /\ call.op = "stat" => s.cmd \in {"test -d", "ls -l", "stat"}
        /\ s.cmd = "setstat" => call.op = "setstat" /\ call.proto = "sftp"
        /\ call.op = "setstat" /\ call.proto = "sftp" => s.on = asked
    BY <2>3, OnFacts, Zenon DEF Current
  <2>6. s.cmd \in {"touch", "chmod", "chown"} => Probes(call)
    BY <2>3, OnFacts, Zenon DEF Current
  <2>7. call.op = "setstat" => asked \subseteq Attrs
    BY <2>5, AskTypes DEF Undertaken
  <2>8. ASSUME NEW attrs, o.file = Some(With(f, attrs))
        PROVE  a \in attrs \/ (a = "modified" /\ "size" \in attrs)
    <3>1. With(f, attrs)[a] # f[a]
      BY <1>1, <2>2, <2>4, <2>8
    <3> QED
      BY <3>1, WithFacts
  <2>9. o.file # file
    BY <1>1, <2>2
  <2> HIDE DEF s, asked
  <2>10. \/ /\ s.cmd = "setstat"
            /\ \E part \in SUBSET s.on : o.file = Some(With(f, Paired(part)))
         \/ /\ s.cmd \notin {"test -d", "ls -l", "stat", "setstat"}
            /\ o.file = Some(With(f, s.on))
    BY <1>1, <2>9, OutcomeFiles, Zenon DEF s
  <2>11. CASE /\ s.cmd = "setstat"
              /\ \E part \in SUBSET s.on : o.file = Some(With(f, Paired(part)))
    <3>1. PICK part \in SUBSET s.on : o.file = Some(With(f, Paired(part)))
      BY <2>11
    <3>2. call.op = "setstat" /\ call.proto = "sftp" /\ part \subseteq asked
      BY <2>5, <2>11
    <3>3. Paired(part) \subseteq Paired(asked)
      BY <3>2 DEF Paired
    <3>4. a \in Paired(part) \/ a = "modified"
      BY <2>8, <3>1
    <3> QED
      BY <2>3, <3>2, <3>3, <3>4 DEF asked
  <2>12. CASE /\ s.cmd \notin {"test -d", "ls -l", "stat", "setstat"}
              /\ o.file = Some(With(f, s.on))
    <3>1. call.op = "setstat" /\ call.ask \in Asks /\ s.on \subseteq asked
      BY <2>3, <2>5, <2>12, Zenon
    <3>2. a \in s.on \/ (a = "modified" /\ "size" \in s.on)
      BY <2>8, <2>12, Zenon
    <3>3. call.proto = "scp" => "size" \notin asked
      BY DEF asked, Undertaken
    <3> QED
      BY <2>3, <3>1, <3>2, <3>3 DEF asked
  <2> QED
    BY <2>10, <2>11, <2>12, Zenon
<1>2. AttrInv /\ [Next]_vars
        => [file # Nothing /\ file' # Nothing =>
              LET asked == Undertaken(call.proto, call.ask)
                  more == IF call.proto = "sftp"
                            THEN Paired(asked) \cup {"size", "modified"} ELSE {}
              IN  \A a \in Attrs \cup {"plain"} :
                     file'[1][a] # file[1][a] =>
                        call # Idle /\ call.op = "setstat" /\ a \in asked \cup more]_vars
  BY <1>1
<1> QED
  BY <1>2, AttrInvariant, PTL DEF Spec, OnlyAsked

=============================================================================
