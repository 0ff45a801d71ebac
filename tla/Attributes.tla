----------------------------- MODULE Attributes -----------------------------
(***************************************************************************)
(* setstat and stat of one file, by the SCP client (src/ssh/scp.rs), which *)
(* runs a command per attribute and reads a line of ls, and by the SFTP    *)
(* client (src/ssh/sftp.rs), which sends one packet each way.  Meanwhile   *)
(* the clock runs, another user may remove the file, requests are refused  *)
(* and answers lost.                                                       *)
(***************************************************************************)
EXTENDS Calendar, Calls

CONSTANTS
    Files,      \* what the file may be at the start
    Asks,       \* the metadata setstat is called with: some attributes, a size
    Zones,      \* local time of the server minus UTC
    Starts,     \* the first instants of a behaviour
    MaxTicks,   \* how far the clock runs
    Recent,     \* the age from which ls prints the year
    Named,      \* the ids ls prints as names
    WireMod,    \* 2^(width of the seconds in an SFTP packet)
    MaxCalls,   \* how many calls of each method a behaviour has
    MaxFaults   \* how many requests or answers are lost

Attrs == {"mode", "uid", "gid", "accessed", "modified", "size"}
Times == {"accessed", "modified"}

Mode == [exec : BOOLEAN, special : BOOLEAN]

\* A file has all its attributes, and is or is not plain.
FileOK(f) ==
    /\ DOMAIN f = Attrs \cup {"plain"}
    /\ f.mode \in Mode /\ f.plain \in BOOLEAN
    /\ {f.uid, f.gid, f.size} \subseteq Nat
    /\ {f.accessed, f.modified} \subseteq Int

ASSUME AttributesAssumption ==
    /\ \A f \in Files : FileOK(f)
    /\ \A ask \in Asks :
          /\ DOMAIN ask \subseteq Attrs /\ "size" \in DOMAIN ask
          /\ \A a \in DOMAIN ask :
                ask[a] \in (CASE a = "mode" -> Mode [] a \in Times -> Int [] OTHER -> Nat)
    /\ Zones \subseteq Int /\ Starts \subseteq Int
    /\ Recent \in Nat /\ WireMod \in Nat \ {0}
    /\ MaxTicks \in Nat /\ MaxCalls \in [setstat : Nat, stat : Nat] /\ MaxFaults \in Nat

VARIABLES
    file,     \* << >>, or << >> with the attributes of the file
    zone, now, start,
    call,     \* the call in progress: proto, op, ask, step
    answer,   \* the server's answer to the request in progress
    result,   \* what the last call returned
    saw,      \* history of the call and of the last setstat: read by no step
    calls, faults

vars == <<file, zone, now, start, call, answer, result, saw, calls, faults>>

clock == <<zone, now, start>>
bounds == <<calls, faults>>

Idle == [op |-> "idle"]
NoAnswer == [rc |-> "none"]
Err == [rc |-> "err"]

\* An Option.
Some(x) == <<x>>
Nothing == << >>

-----------------------------------------------------------------------------
(* setstat.                                                                *)

\* fmt_time_utc: the text of a time, in UTC, to the second.
fmt_time_utc(t) == Civil(Whole(t, Second))

\* Variant of assert_stat_command that asserts nothing.
IgnoreStatus(cmd, attrs) == Step(cmd, attrs, GoOn, GoOn, "ProtocolError")

\* assert_stat_command: the status of one command.
assert_stat_command(cmd, attrs) ==
    Step(cmd, attrs, GoOn, "StatFailed", "ProtocolError")

\* The command for the attribute a, if a is asked for.
Asked(ask, a, cmd, attrs) ==
    IF a \in DOMAIN ask THEN <<assert_stat_command(cmd, attrs)>> ELSE << >>

\* Variant of ScpSetstat that goes on whatever the probe says.
ScpSetstatUnprobed(ask) ==
    <<Step("test -e", {}, GoOn, GoOn, GoOn)>>
    \o Asked(ask, "mode", "chmod", {"mode"})
    \o Asked(ask, "uid", "chown", {"uid", "gid"} \cap DOMAIN ask)
    \o Asked(ask, "accessed", "touch", {"accessed"})
    \o Asked(ask, "modified", "touch", {"modified"})

\* chmod; chown uid:gid, never for a gid alone; touch -a; touch -m.
ScpSetstat(ask) ==
    <<Must("test -e", {})>>
    \o Asked(ask, "mode", "chmod", {"mode"})
    \o Asked(ask, "uid", "chown", {"uid", "gid"} \cap DOMAIN ask)
    \o Asked(ask, "accessed", "touch", {"accessed"})
    \o Asked(ask, "modified", "touch", {"modified"})

\* Variant of metadata_to_filestat that makes such a time the epoch.
FilestatFromEpoch(ask) ==
    [a \in DOMAIN ask |->
       IF a \notin Times THEN ask[a] ELSE IF ask[a] < 0 THEN 0 ELSE ask[a] \div Second]

\* Times are whole seconds, and one before the epoch is left out; the size is always
\* there.
metadata_to_filestat(ask) ==
    [a \in DOMAIN ask \ {t \in Times \cap DOMAIN ask : ask[t] < 0} |->
       IF a \in Times THEN ask[a] \div Second ELSE ask[a]]

SftpSetstat(ask) ==
    <<Step("setstat", DOMAIN metadata_to_filestat(ask), "Ok",
           "StatFailed", "StatFailed")>>

ScpStat == <<Step("test -d", {}, GoOn, GoOn, "StatFailed"),
             Step("ls -l", {}, "Ok", "NoSuchFileOrDirectory", "ProtocolError")>>

SftpStat == <<Step("stat", {}, "Ok", "NoSuchFileOrDirectory", "NoSuchFileOrDirectory")>>

Steps(k) ==
    CASE k.op = "setstat" /\ k.proto = "scp" -> ScpSetstat(k.ask)
      [] k.op = "setstat" /\ k.proto = "sftp" -> SftpSetstat(k.ask)
      [] k.op = "stat" /\ k.proto = "scp" -> ScpStat
      [] k.op = "stat" /\ k.proto = "sftp" -> SftpStat

Current == Steps(call)[call.step]

-----------------------------------------------------------------------------
(* The server (external).                                                  *)

\* An SFTP packet carries the two ids and the two times in pairs: what is not
\* given is sent as zero.
Paired(attrs) ==
    attrs \cup (IF attrs \cap {"uid", "gid"} # {} THEN {"uid", "gid"} ELSE {})
          \cup (IF attrs \cap Times # {} THEN Times ELSE {})

\* What an attribute is set to: touch takes the text for local time, a packet
\* has the seconds since the epoch.
Sent(k, a) ==
    LET stat == metadata_to_filestat(k.ask)
    IN  CASE k.proto = "scp" /\ a \in Times -> Instant(fmt_time_utc(k.ask[a])) - zone
          [] k.proto = "scp" /\ a \notin Times -> k.ask[a]
          [] k.proto = "sftp" /\ a \notin DOMAIN stat -> 0
          [] k.proto = "sftp" /\ a \in DOMAIN stat ->
               IF a \in Times THEN (stat[a] % WireMod) * Second ELSE stat[a]

\* The file f with the attributes attrs set; cutting or extending it modifies it.
With(f, attrs) ==
    LET resized == "size" \in attrs /\ Sent(call, "size") # f.size
    IN  [a \in Attrs \cup {"plain"} |->
           CASE a \in attrs -> Sent(call, a)
             [] a \notin attrs /\ a = "modified" /\ resized -> now
             [] a \notin attrs /\ ~(a = "modified" /\ resized) -> f[a]]

NewFile == [mode |-> [exec |-> FALSE, special |-> FALSE], uid |-> 1, gid |-> 1,
            accessed |-> now, modified |-> now, size |-> 0, plain |-> TRUE]

Done(f, out) == [rc |-> "0", file |-> f, out |-> out]
Refused(f) == [rc |-> "1", file |-> f, out |-> Nothing]

\* A line of ls -l: the letter of the last execute bit, names for known ids, and
\* the local time, with the hour and minute if the file is recent and else with the
\* year.  It has the form the client expects only for a plain file without a mark for
\* an ACL or a security label.
LsLine(f) ==
    LET at == Civil(Whole(f.modified + zone, Minute))
        hour == f.modified > now - Recent /\ f.modified <= now
        Id(n) == IF n \in Named THEN Nothing ELSE Some(n)
    IN  [plain |-> f.plain,
         pex |-> CASE f.mode.special /\ f.mode.exec -> "s"
                   [] f.mode.special /\ ~f.mode.exec -> "S"
                   [] ~f.mode.special /\ f.mode.exec -> "x"
                   [] OTHER -> "-",
         uid |-> Id(f.uid), gid |-> Id(f.gid), size |-> f.size,
         day |-> at.day,
         tod |-> IF hour THEN Some(at.tod) ELSE Nothing,
         year |-> IF hour THEN Nothing ELSE Some(at.year)]

\* The outcomes of a request: any may be refused, a refused packet may have been
\* carried out in part, and touch makes the file when there is none.
Outcomes(s) ==
    IF file = Nothing
      THEN {Refused(file)} \cup
           (IF s.cmd = "touch" THEN {Done(Some(With(NewFile, s.on)), Nothing)} ELSE {})
      ELSE LET f == file[1]
           IN  CASE s.cmd = "test -e" -> {Done(file, Nothing), Refused(file)}
                 [] s.cmd = "test -d" -> {Refused(file)}
                 [] s.cmd = "ls -l" -> {Done(file, Some(LsLine(f))), Refused(file)}
                 [] s.cmd = "stat" -> {Done(file, Some(f)), Refused(file)}
                 [] s.cmd = "setstat" ->
                      {Done(Some(With(f, Paired(s.on))), Nothing)} \cup
                      {Refused(Some(With(f, Paired(part)))) : part \in SUBSET s.on}
                 [] OTHER -> {Done(Some(With(f, s.on)), Nothing), Refused(file)}

-----------------------------------------------------------------------------
(* stat: what the client makes of the answer.                              *)

\* Variant of parse_lstime without the form that has no year.
LsTimeWithYear(line, this_year) ==
    IF line.year = Nothing THEN Nothing
    ELSE Some(Instant([year |-> line.year[1], day |-> line.day, tod |-> 0]))

\* parse_lstime: a date with a year is the midnight before, one without gets the
\* current year, in which it may not exist, and no seconds; a date before the epoch
\* is beyond the unsigned seconds and becomes the epoch.
parse_lstime(line, this_year) ==
    LET c == IF line.year # Nothing
               THEN [year |-> line.year[1], day |-> line.day, tod |-> 0]
               ELSE [year |-> this_year, day |-> line.day, tod |-> line.tod[1]]
    IN  IF ~IsDate(c) THEN Nothing
        ELSE Some(IF Instant(c) < 0 THEN 0 ELSE Instant(c))

\* pex: whatever is not a dash is a bit.
pex(letter) == letter # "-"

\* Variant of parse_ls_output with the columns of the ids swapped.
ParseLsOutputSwapped(line, this_year) ==
    LET t == parse_lstime(line, this_year)
    IN  [exec |-> pex(line.pex), uid |-> line.gid, gid |-> line.uid,
         size |-> line.size, accessed |-> Nothing,
         modified |-> Some(IF t = Nothing THEN 0 ELSE t[1])]

\* parse_ls_output: an unreadable time is the epoch.
parse_ls_output(line, this_year) ==
    LET t == parse_lstime(line, this_year)
    IN  [exec |-> pex(line.pex), uid |-> line.uid, gid |-> line.gid,
         size |-> line.size, accessed |-> Nothing,
         modified |-> Some(IF t = Nothing THEN 0 ELSE t[1])]

\* A time as a packet carries it: unsigned seconds.
OnWire(t) == ((t \div Second) % WireMod) * Second

\* make_fsentry
make_fsentry(f) ==
    [exec |-> f.mode.exec, uid |-> Some(f.uid), gid |-> Some(f.gid),
     size |-> f.size, accessed |-> Some(OnWire(f.accessed)),
     modified |-> Some(OnWire(f.modified))]

Parsed ==
    IF call.proto = "scp" THEN parse_ls_output(answer.out[1], Civil(now).year)
                          ELSE make_fsentry(answer.out[1])

\* LS_RE does not match the line.
Unreadable == call.proto = "scp" /\ call.op = "stat" /\ answer.rc = "0"
              /\ answer.out # Nothing /\ ~answer.out[1].plain

-----------------------------------------------------------------------------
Init ==
    /\ file \in {Some(f) : f \in Files} \cup {Nothing}
    /\ zone \in Zones
    /\ start \in Starts /\ now = start
    /\ call = Idle
    /\ answer = NoAnswer
    /\ result = [op |-> "idle", kind |-> "none"]
    /\ saw = [files |-> {}, applied |-> {}, fault |-> FALSE, cut |-> FALSE,
              denied |-> FALSE, set |-> Nothing]
    /\ calls = [setstat |-> 0, stat |-> 0] /\ faults = 0

Tick ==
    /\ now < start + MaxTicks
    /\ now' = now + 1
    /\ UNCHANGED <<file, zone, start, call, answer, result, saw, bounds>>

\* Another user removes the file.
Removed ==
    /\ file # Nothing
    /\ file' = Nothing
    /\ saw' = [saw EXCEPT !.files = @ \cup {Nothing}, !.set = Nothing]
    /\ UNCHANGED <<clock, call, answer, result, bounds>>

Start(op, proto, ask) ==
    /\ call = Idle /\ calls[op] < MaxCalls[op]
    /\ calls' = [calls EXCEPT ![op] = @ + 1]
    /\ call' = [op |-> op, proto |-> proto, ask |-> ask, step |-> 1]
    /\ result' = [op |-> op, kind |-> "none"]
    /\ saw' = [files |-> {file}, applied |-> {}, fault |-> FALSE, cut |-> FALSE,
               denied |-> FALSE,
               set |-> IF op = "setstat" THEN Nothing ELSE saw.set]
    /\ UNCHANGED <<file, clock, answer, faults>>

setstat == \E proto \in {"scp", "sftp"}, ask \in Asks : Start("setstat", proto, ask)

stat == \E proto \in {"scp", "sftp"} : Start("stat", proto, << >>)

Serve ==
    /\ call # Idle /\ answer = NoAnswer
    /\ \E o \in Outcomes(Current) :
          /\ file' = o.file
          /\ answer' = [rc |-> o.rc, out |-> o.out]
          /\ saw' = [saw EXCEPT
                       !.files = @ \cup {o.file},
                       !.applied = IF o.rc = "0" THEN @ \cup Current.on ELSE @,
                       !.denied = @ \/ (/\ Current.cmd \in {"ls -l", "stat"}
                                       /\ file # Nothing /\ o.rc # "0")]
    /\ UNCHANGED <<clock, call, result, bounds>>

\* The request is not sent, or served and its answer lost.
Fails ==
    /\ call # Idle /\ answer # Err
    /\ faults < MaxFaults /\ faults' = faults + 1
    /\ answer' = Err
    /\ saw' = [saw EXCEPT !.fault = TRUE]
    /\ UNCHANGED <<file, clock, call, result, calls>>

\* The line of ls ends before its name, and no status tells.
Cut ==
    /\ call # Idle /\ answer \notin {NoAnswer, Err} /\ answer.rc = "0"
    /\ Current.cmd = "ls -l"
    /\ faults < MaxFaults /\ faults' = faults + 1
    /\ answer' = [rc |-> "1", out |-> Nothing]
    /\ saw' = [saw EXCEPT !.cut = TRUE]
    /\ UNCHANGED <<file, clock, call, result, calls>>

Verdict ==
    IF answer = Err THEN Current.broken
    ELSE IF answer.rc # "0" \/ Unreadable THEN Current.refused
    ELSE Current.ok

Finish(kind) ==
    /\ result' = IF call.op = "stat" /\ kind = "Ok"
                   THEN [op |-> "stat", kind |-> "Ok", proto |-> call.proto,
                         value |-> Parsed, at |-> now]
                   ELSE [op |-> call.op, kind |-> kind, proto |-> call.proto,
                         ask |-> call.ask]
    /\ saw' = IF call.op = "setstat" /\ kind = "Ok" /\ "modified" \in DOMAIN call.ask
                 /\ file # Nothing
                THEN [saw EXCEPT !.set = Some([proto |-> call.proto,
                                               time |-> call.ask["modified"]])]
                ELSE saw
    /\ call' = Idle

\* Variant of More: one step too many.
MoreOneTooFar == call.step <= Len(Steps(call))

More == call.step < Len(Steps(call))

Take ==
    /\ call # Idle /\ answer # NoAnswer
    /\ answer' = NoAnswer
    /\ \/ /\ Verdict = GoOn /\ More
          /\ call' = [call EXCEPT !.step = @ + 1]
          /\ UNCHANGED <<result, saw>>
       \/ /\ Verdict = GoOn /\ ~More
          /\ Finish("Ok")
       \/ /\ Verdict # GoOn
          /\ Finish(Verdict)
    /\ UNCHANGED <<file, clock, bounds>>

Next == setstat \/ stat \/ Serve \/ Fails \/ Cut \/ Take \/ Tick \/ Removed

Spec == Init /\ [][Next]_vars

-----------------------------------------------------------------------------
(* Correctness.                                                            *)

\* The types: a call in progress is at one of its steps, a file has all its
\* attributes.
TypeOK ==
    /\ file # Nothing => file = Some(file[1]) /\ FileOK(file[1])
    /\ zone \in Zones /\ start \in Starts /\ now \in start..start + MaxTicks
    /\ call # Idle => call.step \in DOMAIN Steps(call)
    /\ answer # NoAnswer => call # Idle
    /\ result.kind \in {"none", "Ok", "NoSuchFileOrDirectory", "StatFailed",
                        "ProtocolError"}
    /\ \A op \in {"setstat", "stat"} : calls[op] \in 0..MaxCalls[op]
    /\ faults \in 0..MaxFaults

\* The attributes a setstat of the client proto undertakes to set.  A gid without
\* a uid is ignored, as is a size, by one client; a time before the epoch by the
\* other.
Undertaken(proto, ask) ==
    IF proto = "scp"
      THEN DOMAIN ask \ ({"size"} \cup (IF "uid" \in DOMAIN ask THEN {} ELSE {"gid"}))
      ELSE DOMAIN ask \ {t \in Times \cap DOMAIN ask : ask[t] < 0}

Rank == [mode |-> 1, uid |-> 2, gid |-> 2, accessed |-> 3, modified |-> 4, size |-> 5]

\* A setstat that returns Ok has had every attribute set that it undertakes; one
\* that fails in an SCP client has set the attributes that come before the failed
\* one and none after it, not all of them unless an answer was lost, and nothing
\* when it reports a missing file.
SetInOrder ==
    result.op = "setstat" /\ result.kind # "none" =>
       LET all == Undertaken(result.proto, result.ask)
       IN  /\ result.kind = "Ok" => saw.applied = all
           /\ result.proto = "scp" =>
                /\ saw.applied \subseteq all
                /\ \A a \in saw.applied, b \in all : Rank[b] < Rank[a] => b \in saw.applied
                /\ result.kind = "StatFailed" => saw.applied # all
                /\ result.kind = "NoSuchFileOrDirectory" => saw.applied = {}

\* setstat changes no attribute it was not asked to change; only the SFTP client
\* always sets the size and, with one id or time, the other one of the pair, and
\* with a new size comes a new time of modification.
OnlyAsked ==
    [][file # Nothing /\ file' # Nothing =>
         LET asked == Undertaken(call.proto, call.ask)
             more == IF call.proto = "sftp"
                       THEN Paired(asked) \cup {"size", "modified"} ELSE {}
         IN  \A a \in Attrs \cup {"plain"} :
                file'[1][a] # file[1][a] =>
                   call # Idle /\ call.op = "setstat" /\ a \in asked \cup more]_vars

\* setstat never makes a file out of nothing: touch brings one into being only
\* when the file was removed after the call had seen it.
NoFileFromNothing ==
    [][file = Nothing /\ file' # Nothing =>
         call # Idle /\ call.op = "setstat" /\ saw.files # {Nothing}]_vars

\* stat reports what the file had at some moment of the call: its size, its ids
\* unless the server prints names, the execute bit (which a special bit without
\* it feigns in ls), and a missing file only when there was none, the lookup was
\* denied, a transport error is taken for it (SFTP), or the line of ls has another
\* form or is cut (SCP).
StatHonest ==
    result.op = "stat" =>
       /\ result.kind = "Ok" =>
             \E s \in saw.files \ {Nothing} :
                LET v == result.value
                    f == s[1]
                IN  /\ v.size = f.size
                    /\ v.uid \in {Nothing, Some(f.uid)} /\ v.gid \in {Nothing, Some(f.gid)}
                    /\ v.exec = (f.mode.exec \/ (result.proto = "scp" /\ f.mode.special))
                    /\ v.accessed \in {Nothing, Some(OnWire(f.accessed))}
       /\ result.kind = "NoSuchFileOrDirectory" =>
             \/ Nothing \in saw.files \/ saw.denied
             \/ result.proto = "sftp" /\ saw.fault
             \/ result.proto = "scp" /\ (saw.cut \/ \E s \in saw.files : ~s[1].plain)

Midnight(t) == Instant([Civil(t) EXCEPT !.tod = 0])

\* A client reads back the time it set, whatever the time zone of the server: the
\* SFTP client to the second, if a packet can hold it; the SCP client to the minute,
\* although it sets seconds, or the midnight before, and the epoch for a time before
\* that; unless ls left the year out and it is not this year.
ReadsBack ==
    /\ result.op = "stat" /\ result.kind = "Ok"
    /\ saw.set # Nothing /\ saw.set[1].proto = result.proto
    => LET m == saw.set[1].time
           v == result.value.modified[1]
       IN  \/ result.proto = "sftp" /\ (m \notin 0..WireMod * Second - 1 \/ v = Whole(m, Second))
           \/ result.proto = "scp" /\ m >= 0 /\ v \in {Whole(m, Minute), Midnight(m)}
           \/ result.proto = "scp" /\ m < 0 /\ v = 0
           \/ /\ result.proto = "scp" /\ m - zone > start - Recent
                /\ Civil(m).year # Civil(result.at).year

\* A time reported by the SCP client is on the day that the server shows.
LsTimeIsRight ==
    result.op = "stat" /\ result.kind = "Ok" /\ result.proto = "scp" =>
       \E s \in saw.files \ {Nothing} :
          LET shown == s[1].modified + zone
          IN  shown < 0 \/ Midnight(result.value.modified[1]) = Midnight(shown)

=============================================================================
