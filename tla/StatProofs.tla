----------------------------- MODULE StatProofs -----------------------------
(***************************************************************************)
(* Proofs about stat in Attributes, for every file, time zone, clock and   *)
(* number of faults: what it reports is what the file had, and the time    *)
(* that setstat set is read back.                                          *)
(***************************************************************************)
EXTENDS AttributesProofs

\* The line that ls prints at the instant t of the file f in the time zone z.
LineAt(f, t, z) ==
    LET at == Civil(Whole(f.modified + z, Minute))
        hour == f.modified > t - Recent /\ f.modified <= t
        Id(n) == IF n \in Named THEN Nothing ELSE Some(n)
    IN  [plain |-> f.plain,
         pex |-> CASE f.mode.special /\ f.mode.exec -> "s"
                   [] f.mode.special /\ ~f.mode.exec -> "S"
                   [] ~f.mode.special /\ f.mode.exec -> "x"
                   [] OTHER -> "-",
         uid |-> Id(f.uid), gid |-> Id(f.gid), size |-> f.size,
         day |-> at.day,
         tod |-> IF hour THEN Some(at.tod) ELSE Nothing,
         year |-> IF hour THEN Nothing ELSE Some(at.year)]

\* The answer out of the server to the client proto shows the file f: a line of one
\* of the instants, or the attributes.
Shown(proto, f, out, instants, z) ==
    IF proto = "scp" THEN \E t \in instants : out = Some(LineAt(f, t, z))
                     ELSE out = Some(f)

\* The file f has the time of modification m as the client proto sets it.
Holds(proto, m, f, z) ==
    IF proto = "scp" THEN f.modified = Whole(m, Second) - z
                     ELSE m < 0 \/ f.modified = OnWire(m)

\* The request of a stat that tells of the file.
Asking == call.op = "stat" /\ (call.proto = "sftp" \/ call.step = 2)

\* The files that a call has seen are files.
SeenInv == \A s \in saw.files : s # Nothing => s = Some(s[1]) /\ FileOK(s[1])

\* A good answer to a stat shows a file that it has seen, which is the present one
\* unless that was removed; a bad one comes where there was none, or the lookup was
\* denied or its answer cut.
AnswerInv ==
    call # Idle =>
    /\ answer = Err => saw.fault
    /\ call.op = "stat" /\ answer.rc = "0" =>
          /\ Asking
          /\ \E s \in saw.files \ {Nothing} :
                Shown(call.proto, s[1], answer.out, start..now, zone)
          /\ file # Nothing => Shown(call.proto, file[1], answer.out, start..now, zone)
    /\ Asking /\ answer.rc = "1" =>
          Nothing \in saw.files \/ saw.denied \/ (saw.cut /\ call.proto = "scp")

\* What a setstat has set is what the file has, as long as there is one.
KeptInv ==
    /\ saw.set # Nothing =>
          /\ saw.set[1].proto \in {"scp", "sftp"} /\ saw.set[1].time \in Int
          /\ file # Nothing
          /\ Holds(saw.set[1].proto, saw.set[1].time, file[1], zone)
    /\ call # Idle /\ call.op = "setstat" =>
          /\ saw.set = Nothing
          /\ answer.rc = "0" /\ file # Nothing /\ "modified" \in Current.on =>
                Holds(call.proto, call.ask["modified"], file[1], zone)

-----------------------------------------------------------------------------
(* What the client makes of an answer.                                     *)

\* ls prints the line of the present.
LEMMA LineNow ==
  ASSUME NEW f
  PROVE  LsLine(f) = LineAt(f, now, zone)
BY DEF LsLine, LineAt

\* The fields of a line.
LEMMA LineFields ==
  ASSUME NEW f, NEW t, NEW z
  PROVE  LET line == LineAt(f, t, z)
             at == Civil(Whole(f.modified + z, Minute))
             hour == f.modified > t - Recent /\ f.modified <= t
         IN  /\ line.plain = f.plain /\ line.size = f.size
             /\ line.uid = Nothing \/ line.uid = Some(f.uid)
             /\ line.gid = Nothing \/ line.gid = Some(f.gid)
             /\ line.day = at.day
             /\ line.tod = (IF hour THEN Some(at.tod) ELSE Nothing)
             /\ line.year = (IF hour THEN Nothing ELSE Some(at.year))
BY DEF LineAt

\* The last letter of the mode is a dash when the file has neither bit.
LEMMA LineLetter ==
  ASSUME NEW f, FileOK(f), NEW t, NEW z
  PROVE  pex(LineAt(f, t, z).pex) = (f.mode.exec \/ f.mode.special)
<1> DEFINE line == LineAt(f, t, z)
<1>1. f.mode.exec \in BOOLEAN /\ f.mode.special \in BOOLEAN
  BY DEF FileOK, Mode
<1>2. line.pex = (CASE f.mode.special /\ f.mode.exec -> "s"
                    [] f.mode.special /\ ~f.mode.exec -> "S"
                    [] ~f.mode.special /\ f.mode.exec -> "x"
                    [] OTHER -> "-")
  BY DEF LineAt
<1> HIDE DEF line
<1>3. CASE f.mode.special /\ f.mode.exec
  <2>1. line.pex = "s"
    BY <1>2, <1>3, Zenon
  <2> QED
    BY <1>3, <2>1, Zenon DEF pex, line
<1>4. CASE f.mode.special /\ ~f.mode.exec
  <2>1. line.pex = "S"
    BY <1>2, <1>4, Zenon
  <2> QED
    BY <1>4, <2>1, Zenon DEF pex, line
<1>5. CASE ~f.mode.special /\ f.mode.exec
  <2>1. line.pex = "x"
    BY <1>2, <1>5, Zenon
  <2> QED
    BY <1>5, <2>1, Zenon DEF pex, line
<1>6. CASE ~f.mode.special /\ ~f.mode.exec
  <2>1. line.pex = "-"
    BY <1>2, <1>6, Zenon
  <2> QED
    BY <1>6, <2>1, Zenon DEF pex, line
<1> QED
  BY <1>1, <1>3, <1>4, <1>5, <1>6, Zenon

\* Options.
LEMMA Options ==
  /\ \A x : Some(x) # Nothing /\ Some(x)[1] = x
  /\ \A x, y : Some(x) = Some(y) => x = y
BY DEF Some, Nothing

\* What the client makes of a line but for the time.
LEMMA ParsedLine ==
  ASSUME NEW f, FileOK(f), NEW t, NEW z, NEW y
  PROVE  LET v == parse_ls_output(LineAt(f, t, z), y)
         IN  /\ v.size = f.size /\ v.accessed = Nothing
             /\ v.uid \in {Nothing, Some(f.uid)} /\ v.gid \in {Nothing, Some(f.gid)}
             /\ v.exec = (f.mode.exec \/ f.mode.special)
<1> DEFINE line == LineAt(f, t, z)
           v == parse_ls_output(line, y)
<1>1. /\ v.size = line.size /\ v.accessed = Nothing /\ v.uid = line.uid
      /\ v.gid = line.gid /\ v.exec = pex(line.pex)
  BY DEF parse_ls_output
<1>2. pex(line.pex) = (f.mode.exec \/ f.mode.special)
  BY LineLetter
<1>3. /\ line.size = f.size
      /\ line.uid = Nothing \/ line.uid = Some(f.uid)
      /\ line.gid = Nothing \/ line.gid = Some(f.gid)
  BY LineFields
<1> HIDE DEF line, v
<1>4. v.exec = (f.mode.exec \/ f.mode.special)
  BY <1>1, <1>2, Zenon
<1>5. /\ v.size = f.size /\ v.accessed = Nothing
      /\ v.uid \in {Nothing, Some(f.uid)} /\ v.gid \in {Nothing, Some(f.gid)}
  BY <1>1, <1>3, Zenon
<1> QED
  BY <1>4, <1>5, Zenon DEF v, line

\* What the client makes of a packet.
LEMMA ParsedPacket ==
  ASSUME NEW f
  PROVE  LET v == make_fsentry(f)
         IN  /\ v.size = f.size /\ v.accessed = Some(OnWire(f.accessed))
             /\ v.uid = Some(f.uid) /\ v.gid = Some(f.gid) /\ v.exec = f.mode.exec
             /\ v.modified = Some(OnWire(f.modified))
BY DEF make_fsentry

\* The time the client reads from a line is the minute of the server's clock, or its
\* midnight, or the epoch for a time before it, unless the line has no year and the
\* client's year is another.
LEMMA ParsedTime ==
  ASSUME NEW f, f.modified \in Int, NEW t \in Int, NEW z \in Int, NEW y \in Int
  PROVE  LET m == f.modified + z
             v == parse_ls_output(LineAt(f, t, z), y).modified[1]
         IN  \/ m >= 0 /\ v \in {Whole(m, Minute), Midnight(m)}
             \/ m < 0 /\ v = 0
             \/ f.modified > t - Recent /\ Civil(m).year # y
<1> DEFINE n == f.modified + z
           m == Whole(n, Minute)
           line == LineAt(f, t, z)
           at == Civil(m)
           hour == f.modified > t - Recent /\ f.modified <= t
           read == parse_lstime(line, y)
           v == parse_ls_output(line, y).modified[1]
<1>1. m \in Int /\ (m >= 0 <=> n >= 0) /\ n \in Int
      /\ Civil(m).year = Civil(n).year /\ Midnight(m) = Midnight(n)
  <2>1. n \in Int
    OBVIOUS
  <2> HIDE DEF n
  <2> QED
    BY <2>1, MinuteOfDay
<1>2. /\ line.day = at.day
      /\ line.tod = (IF hour THEN Some(at.tod) ELSE Nothing)
      /\ line.year = (IF hour THEN Nothing ELSE Some(at.year))
  BY LineFields
<1>3. v = (IF read = Nothing THEN 0 ELSE read[1])
  <2>1. parse_ls_output(line, y).modified = Some(IF read = Nothing THEN 0 ELSE read[1])
    BY DEF parse_ls_output
  <2> QED
    BY <2>1, Options
<1>4. /\ at.day \in 0..3 /\ at.tod \in 0..DayLen - 1 /\ at.year \in Int
      /\ IsDate(at) /\ Instant(at) = m
  BY <1>1, CivilInstant
<1>5. /\ Midnight(m) = Instant([year |-> at.year, day |-> at.day, tod |-> 0])
      /\ Midnight(m) \in Int /\ Midnight(m) <= m
      /\ m >= 0 => Midnight(m) >= 0
  BY <1>1, MidnightBefore
<1>6. at = [year |-> at.year, day |-> at.day, tod |-> at.tod]
  BY DEF Civil
<1>10. /\ m >= 0 <=> ~(m < 0)
       /\ n >= 0 <=> ~(n < 0)
  BY <1>1
<1> HIDE DEF n, m, line, at, v, hour
<1>7. CASE ~hour
  <2> DEFINE c == [year |-> at.year, day |-> at.day, tod |-> 0]
  <2>1. line.year # Nothing /\ line.year[1] = at.year
    BY <1>2, <1>7, Options
  <2>2. read = IF ~IsDate(c) THEN Nothing
               ELSE Some(IF Instant(c) < 0 THEN 0 ELSE Instant(c))
    BY <1>2, <2>1 DEF parse_lstime
  <2>3. IsDate(c)
    BY <1>4 DEF IsDate
  <2> HIDE DEF c, read
  <2>4. v = IF Instant(c) < 0 THEN 0 ELSE Instant(c)
    BY <1>3, <2>2, <2>3, Options
  <2>5. Instant(c) = Midnight(m)
    BY <1>5 DEF c
  <2>6. m >= 0 \/ m < 0
    BY <1>1
  <2>7. m < 0 => Midnight(m) < 0
    BY <1>1, <1>5
  <2>8. ~(Midnight(m) < 0) <=> Midnight(m) >= 0
    BY <1>5
  <2>9. (m >= 0 /\ v \in {m, Midnight(m)}) \/ (m < 0 /\ v = 0)
    BY <1>5, <2>4, <2>5, <2>6, <2>7, <2>8
  <2> QED
    BY <1>1, <1>10, <2>9 DEF n, m, v, line
<1>8. CASE hour /\ at.year = y
  <2>1. line.year = Nothing /\ line.tod[1] = at.tod
    BY <1>2, <1>8, Options
  <2>2. at = [year |-> y, day |-> line.day, tod |-> line.tod[1]]
    BY <1>2, <1>6, <1>8, <2>1
  <2>3. read = IF ~IsDate(at) THEN Nothing
               ELSE Some(IF Instant(at) < 0 THEN 0 ELSE Instant(at))
    BY <2>1, <2>2 DEF parse_lstime
  <2> HIDE DEF read
  <2>4. v = IF m < 0 THEN 0 ELSE m
    BY <1>3, <1>4, <2>3, Options
  <2>5. (m >= 0 /\ v \in {m, Midnight(m)}) \/ (m < 0 /\ v = 0)
    BY <1>1, <2>4
  <2> QED
    BY <1>1, <1>10, <2>5 DEF n, m, v, line
<1>9. CASE hour /\ at.year # y
  BY <1>1, <1>9 DEF hour, at, n
<1> QED
  BY <1>7, <1>8, <1>9

-----------------------------------------------------------------------------
(* What a stat is told.                                                    *)

\* What the requests of a stat are, and which asks for what.
LEMMA StatRequests ==
  ASSUME ProbedInv, call # Idle
  PROVE  /\ call.op = "stat" =>
              \/ /\ Asking /\ call.proto = "scp" /\ Current.cmd = "ls -l"
              \/ /\ Asking /\ call.proto = "sftp" /\ Current.cmd = "stat"
              \/ /\ ~Asking /\ Current.cmd = "test -d"
         /\ Current.cmd = "ls -l" => call.op = "stat" /\ call.proto = "scp" /\ Asking
<1>1. call \in Calls /\ call.step \in DOMAIN Steps(call)
  BY DEF ProbedInv
<1>2. call.op \in {"setstat", "stat"} /\ call.proto \in {"scp", "sftp"}
  BY <1>1, CallFacts
<1>3. ASSUME call.op = "stat"
      PROVE  \/ Asking /\ call.proto = "scp" /\ Current.cmd = "ls -l"
             \/ Asking /\ call.proto = "sftp" /\ Current.cmd = "stat"
             \/ ~Asking /\ Current.cmd = "test -d"
  <2>1. \/ call.proto = "scp" /\ call.step = 1 /\ Current = DirStep
        \/ call.proto = "scp" /\ call.step = 2 /\ Current = LsStep
        \/ call.proto = "sftp" /\ Current = StatStep
    BY <1>1, <1>3, StepForms DEF Current, Probes
  <2>2. CASE call.proto = "scp" /\ call.step = 1 /\ Current = DirStep
    <3>1. ~Asking
      BY <2>2 DEF Asking
    <3> QED
      BY <2>2, <3>1, StepFields, Zenon
  <2>3. CASE call.proto = "scp" /\ call.step = 2 /\ Current = LsStep
    BY <1>3, <2>3, StepFields, Zenon DEF Asking
  <2>4. CASE call.proto = "sftp" /\ Current = StatStep
    BY <1>3, <2>4, StepFields, Zenon DEF Asking
  <2> QED
    BY <2>1, <2>2, <2>3, <2>4
<1>4. call.op = "setstat" => Current.cmd \notin {"test -d", "ls -l", "stat"}
  BY <1>1, OnFacts, Zenon DEF Current
<1> QED
  BY <1>2, <1>3, <1>4, Zenon

\* The answer to a stat shows the present file, or there is none.
LEMMA StatServed ==
  ASSUME TypeOK, ProbedInv, call # Idle, call.op = "stat", NEW o \in Outcomes(Current)
  PROVE  /\ o.file = file
         /\ o.rc = "0" =>
              /\ Asking /\ file # Nothing
              /\ Shown(call.proto, file[1], o.out, {now}, zone)
         /\ Asking /\ o.rc = "1" =>
              file = Nothing \/ (Current.cmd \in {"ls -l", "stat"} /\ o.rc # "0")
<1> DEFINE s == Current
<1>1. \/ /\ Asking /\ call.proto = "scp" /\ s.cmd = "ls -l"
      \/ /\ Asking /\ call.proto = "sftp" /\ s.cmd = "stat"
      \/ /\ ~Asking /\ s.cmd = "test -d"
  BY StatRequests, Zenon
<1>2. s.cmd \in {"test -d", "ls -l", "stat"}
  BY <1>1, Zenon
<1>3. \/ o = Refused(file)
      \/ file # Nothing /\ s.cmd = "ls -l" /\ o = Done(file, Some(LsLine(file[1])))
      \/ file # Nothing /\ s.cmd = "stat" /\ o = Done(file, Some(file[1]))
  BY <1>2, OutcomeForms, Zenon
<1> HIDE DEF s
<1>4. \A x, y : /\ Refused(x).file = x /\ Refused(x).rc = "1"
                /\ Done(x, y).file = x /\ Done(x, y).rc = "0" /\ Done(x, y).out = y
  BY DEF Refused, Done
<1>5. CASE o = Refused(file)
  <2>1. o.file = file /\ o.rc = "1" /\ "1" # "0"
    BY <1>4, <1>5
  <2>2. Asking => s.cmd \in {"ls -l", "stat"}
    BY <1>1, Zenon
  <2> QED
    BY <2>1, <2>2 DEF s
<1>6. CASE file # Nothing /\ s.cmd = "ls -l" /\ o = Done(file, Some(LsLine(file[1])))
  <2>1. Asking /\ call.proto = "scp"
    BY <1>1, <1>6, Zenon
  <2>2. o.out = Some(LineAt(file[1], now, zone))
    BY <1>4, <1>6, LineNow, ZenonT(60)
  <2>3. Shown(call.proto, file[1], o.out, {now}, zone)
    BY <2>1, <2>2 DEF Shown
  <2> QED
    BY <1>4, <1>6, <2>1, <2>3, Zenon
<1>7. CASE file # Nothing /\ s.cmd = "stat" /\ o = Done(file, Some(file[1]))
  <2>1. Asking /\ call.proto = "sftp"
    BY <1>1, <1>7, Zenon
  <2>2. Shown(call.proto, file[1], o.out, {now}, zone)
    BY <1>4, <1>7, <2>1 DEF Shown
  <2> QED
    BY <1>4, <1>7, <2>1, <2>2, Zenon
<1> QED
  BY <1>3, <1>5, <1>6, <1>7

\* What is shown at some instants is shown at more.
LEMMA ShownGrows ==
  ASSUME NEW proto, NEW f, NEW out, NEW S, NEW T, S \subseteq T, NEW z,
         Shown(proto, f, out, S, z)
  PROVE  Shown(proto, f, out, T, z)
BY DEF Shown

\* The fields of the history that a step changes.
LEMMA SawSteps ==
  ASSUME ProbedInv
  PROVE  /\ Serve => \E o \in Outcomes(Current) :
               /\ file' = o.file /\ answer' = [rc |-> o.rc, out |-> o.out]
               /\ saw'.files = saw.files \cup {o.file} /\ saw'.set = saw.set
               /\ saw'.fault = saw.fault /\ saw'.cut = saw.cut
               /\ Current.cmd \in {"ls -l", "stat"} /\ file # Nothing /\ o.rc # "0"
                    => saw'.denied
               /\ answer = NoAnswer /\ call # Idle /\ UNCHANGED <<call, zone, start, now, result>>
         /\ Fails =>
               /\ saw'.fault /\ saw'.files = saw.files /\ saw'.set = saw.set /\ saw'.cut = saw.cut
               /\ answer' = Err /\ call # Idle /\ UNCHANGED <<file, call, zone, start, now, result>>
         /\ Cut =>
               /\ saw'.cut /\ saw'.files = saw.files /\ saw'.set = saw.set
               /\ saw'.fault = saw.fault /\ Current.cmd = "ls -l"
               /\ answer' = [rc |-> "1", out |-> Nothing]
               /\ call # Idle /\ UNCHANGED <<file, call, zone, start, now, result>>
         /\ Removed =>
               /\ saw'.files = saw.files \cup {Nothing} /\ saw'.set = Nothing /\ file' = Nothing
               /\ saw'.fault = saw.fault /\ saw'.cut = saw.cut /\ saw'.denied = saw.denied
               /\ UNCHANGED <<call, answer, zone, start, now, result>>
         /\ Tick =>
               /\ now' = now + 1
               /\ UNCHANGED <<file, call, answer, zone, start, saw, result>>
<1>1. ASSUME Serve
      PROVE  \E o \in Outcomes(Current) :
                /\ file' = o.file /\ answer' = [rc |-> o.rc, out |-> o.out]
                /\ saw'.files = saw.files \cup {o.file} /\ saw'.set = saw.set
                /\ saw'.fault = saw.fault /\ saw'.cut = saw.cut
                /\ Current.cmd \in {"ls -l", "stat"} /\ file # Nothing /\ o.rc # "0"
                     => saw'.denied
                /\ answer = NoAnswer /\ call # Idle
                /\ UNCHANGED <<call, zone, start, now, result>>
  <2>1. PICK o \in Outcomes(Current) :
           /\ file' = o.file /\ answer' = [rc |-> o.rc, out |-> o.out]
           /\ saw' = [saw EXCEPT
                        !.files = @ \cup {o.file},
                        !.applied = IF o.rc = "0" THEN @ \cup Current.on ELSE @,
                        !.denied = @ \/ (/\ Current.cmd \in {"ls -l", "stat"}
                                        /\ file # Nothing /\ o.rc # "0")]
    BY <1>1, Zenon DEF Serve
  <2>2. saw'.files = saw.files \cup {o.file}
    BY <2>1
  <2>3. saw'.set = saw.set /\ saw'.fault = saw.fault /\ saw'.cut = saw.cut
    BY <2>1
  <2>4. answer = NoAnswer /\ call # Idle /\ UNCHANGED <<call, zone, start, now, result>>
    BY <1>1 DEF Serve, clock
  <2>5. Current.cmd \in {"ls -l", "stat"} /\ file # Nothing /\ o.rc # "0" => saw'.denied
    BY <2>1 DEF SawFields, ProbedInv
  <2> QED
    BY <2>1, <2>2, <2>3, <2>4, <2>5
<1>2. ASSUME Fails
      PROVE  /\ saw'.fault /\ saw'.files = saw.files /\ saw'.set = saw.set
             /\ saw'.cut = saw.cut
             /\ answer' = Err /\ call # Idle
             /\ UNCHANGED <<file, call, zone, start, now, result>>
  <2>1. saw'.fault
    BY <1>2 DEF Fails
  <2>2. saw'.files = saw.files /\ saw'.set = saw.set /\ saw'.cut = saw.cut
    BY <1>2 DEF Fails
  <2>3. answer' = Err /\ call # Idle /\ UNCHANGED <<file, call, zone, start, now, result>>
    BY <1>2 DEF Fails, clock
  <2> QED
    BY <2>1, <2>2, <2>3
<1>3. ASSUME Cut
      PROVE  /\ saw'.cut /\ saw'.files = saw.files /\ saw'.set = saw.set
             /\ saw'.fault = saw.fault /\ Current.cmd = "ls -l"
             /\ answer' = [rc |-> "1", out |-> Nothing]
             /\ call # Idle /\ UNCHANGED <<file, call, zone, start, now, result>>
  <2>1. saw' = [saw EXCEPT !.cut = TRUE]
    BY <1>3, Zenon DEF Cut
  <2>2. saw'.cut /\ saw'.files = saw.files /\ saw'.set = saw.set /\ saw'.fault = saw.fault
    BY <2>1
  <2>4. Current.cmd = "ls -l"
    BY <1>3, Zenon DEF Cut
  <2>3. /\ answer' = [rc |-> "1", out |-> Nothing]
        /\ call # Idle /\ UNCHANGED <<file, call, zone, start, now, result>>
    BY <1>3, Zenon DEF Cut, clock
  <2> QED
    BY <2>2, <2>3, <2>4, Zenon
<1>4. ASSUME Removed
      PROVE  /\ saw'.files = saw.files \cup {Nothing} /\ saw'.set = Nothing
             /\ file' = Nothing /\ saw'.fault = saw.fault /\ saw'.cut = saw.cut
             /\ saw'.denied = saw.denied
             /\ UNCHANGED <<call, answer, zone, start, now, result>>
  <2>1. saw'.files = saw.files \cup {Nothing} /\ saw'.set = Nothing
    BY <1>4 DEF Removed
  <2>2. saw'.fault = saw.fault /\ saw'.cut = saw.cut /\ saw'.denied = saw.denied
    BY <1>4 DEF Removed
  <2>3. file' = Nothing /\ UNCHANGED <<call, answer, zone, start, now, result>>
    BY <1>4 DEF Removed, clock
  <2> QED
    BY <2>1, <2>2, <2>3
<1>5. ASSUME Tick
      PROVE  now' = now + 1 /\ UNCHANGED <<file, call, answer, zone, start, saw, result>>
  BY <1>5 DEF Tick
<1> QED
  BY <1>1, <1>2, <1>3, <1>4, <1>5, Zenon

\* The files that a call has seen are files.
LEMMA SeenNext ==
  ASSUME TypeOK, TypeOK', ProbedInv, SeenInv, [Next]_vars
  PROVE  SeenInv'
<1>1. /\ file # Nothing => file = Some(file[1]) /\ FileOK(file[1])
      /\ file' # Nothing => file' = Some(file'[1]) /\ FileOK(file'[1])
  BY DEF TypeOK
<1>2. CASE setstat \/ stat
  BY <1>1, <1>2, StartFacts DEF SeenInv
<1>3. CASE Serve
  <2>1. saw'.files = saw.files \cup {file'}
    BY <1>3, SawSteps
  <2> QED
    BY <1>1, <2>1 DEF SeenInv
<1>4. CASE Fails \/ Cut
  <2>1. saw'.files = saw.files
    BY <1>4, SawSteps, Zenon
  <2> QED
    BY <2>1 DEF SeenInv
<1>5. CASE Removed
  <2>1. saw'.files = saw.files \cup {Nothing}
    BY <1>5, SawSteps, Zenon
  <2> QED
    BY <2>1 DEF SeenInv
<1>6. CASE Take
  <2>1. ASSUME NEW kind, Finish(kind) PROVE saw'.files = saw.files
    BY <2>1 DEF Finish
  <2>2. saw'.files = saw.files
    BY <1>6, <2>1 DEF Take
  <2> QED
    BY <2>2 DEF SeenInv
<1>7. CASE Tick \/ UNCHANGED vars
  BY <1>7 DEF Tick, vars, SeenInv
<1> QED
  BY <1>2, <1>3, <1>4, <1>5, <1>6, <1>7 DEF Next

\* Every step keeps what is known of the answer to a stat.
LEMMA AnswerNext ==
  ASSUME TypeOK, TypeOK', ProbedInv, AppliedInv, AnswerInv, [Next]_vars
  PROVE  AnswerInv'
<1>1. NoAnswer.rc = "none" /\ Err.rc = "err"
  BY DEF NoAnswer, Err
<1>2. start \in Int /\ now \in start..start + MaxTicks /\ MaxTicks \in Nat
  BY ClockTypes DEF TypeOK
<1>3. CASE setstat \/ stat
  <2>1. answer' = NoAnswer
    BY <1>3, StartFacts DEF ProbedInv
  <2> QED
    BY <1>1, <2>1 DEF AnswerInv
<1>4. CASE Serve
  <2>1. PICK o \in Outcomes(Current) :
           /\ file' = o.file /\ answer' = [rc |-> o.rc, out |-> o.out]
           /\ saw'.files = saw.files \cup {o.file}
           /\ Current.cmd \in {"ls -l", "stat"} /\ file # Nothing /\ o.rc # "0"
                => saw'.denied
           /\ call # Idle /\ UNCHANGED <<call, zone, start, now>>
    BY <1>4, SawSteps
  <2>2. o.rc \in {"0", "1"} /\ answer'.rc = o.rc /\ answer'.out = o.out
    BY <2>1, ServedFile
  <2>3. answer' # Err
    BY <1>1, <2>2
  <2>4. Asking' <=> Asking
    BY <2>1 DEF Asking
  <2>5. CASE call.op = "stat"
    <3>1. /\ o.file = file
          /\ o.rc = "0" =>
               /\ Asking /\ file # Nothing
               /\ Shown(call.proto, file[1], o.out, {now}, zone)
          /\ Asking /\ o.rc = "1" => file = Nothing \/ saw'.denied
      BY <2>1, <2>5, StatServed
    <3>2. {now} \subseteq start..now
      BY <1>2
    <3>3. o.rc = "0" => Shown(call.proto, file[1], o.out, start..now, zone)
      BY <3>1, <3>2, ShownGrows
    <3> QED
      BY <2>1, <2>2, <2>3, <2>4, <3>1, <3>3 DEF AnswerInv
  <2>6. CASE call.op # "stat"
    BY <2>1, <2>3, <2>4, <2>6 DEF AnswerInv, Asking
  <2> QED
    BY <2>5, <2>6
<1>5. CASE Fails
  <2>1. saw'.fault /\ answer' = Err
    BY <1>5, SawSteps, Zenon
  <2> QED
    BY <1>1, <2>1 DEF AnswerInv
<1>6. CASE Cut
  <2>1. saw'.cut /\ answer' = [rc |-> "1", out |-> Nothing] /\ call' = call /\ call # Idle
    BY <1>6, SawSteps, Zenon
  <2>2. call.proto = "scp"
    BY <1>6, <2>1, SawSteps, StatRequests, Zenon
  <2>3. answer'.rc = "1" /\ answer' # Err
    BY <1>1, <2>1
  <2> QED
    BY <2>1, <2>2, <2>3 DEF AnswerInv
<1>7. CASE Take
  <2>1. answer' = NoAnswer
    BY <1>7 DEF Take
  <2> QED
    BY <1>1, <2>1 DEF AnswerInv
<1>8. CASE Tick
  <2>1. now' = now + 1 /\ UNCHANGED <<file, call, answer, zone, start, saw>>
    BY <1>8, SawSteps, Zenon
  <2>2. start..now \subseteq start'..now'
    BY <1>2, <2>1
  <2>3. Asking' <=> Asking
    BY <2>1 DEF Asking
  <2>4. \A p, f, out, z : Shown(p, f, out, start..now, z) => Shown(p, f, out, start'..now', z)
    BY <2>2, ShownGrows
  <2> QED
    BY <2>1, <2>3, <2>4 DEF AnswerInv
<1>9. CASE Removed
  <2>1. /\ saw'.files = saw.files \cup {Nothing} /\ file' = Nothing
        /\ saw'.fault = saw.fault /\ saw'.cut = saw.cut /\ saw'.denied = saw.denied
        /\ UNCHANGED <<call, answer, zone, start, now>>
    BY <1>9, SawSteps, Zenon
  <2>2. Asking' <=> Asking
    BY <2>1 DEF Asking
  <2> QED
    BY <2>1, <2>2 DEF AnswerInv
<1>10. CASE UNCHANGED vars
  <2>1. Asking' <=> Asking
    BY <1>10 DEF Asking, vars
  <2> QED
    BY <1>10, <2>1 DEF AnswerInv, vars
<1> QED
  BY <1>3, <1>4, <1>5, <1>6, <1>7, <1>8, <1>9, <1>10 DEF Next

\* A result of a stat is what the answer says.
LEMMA HonestResult ==
  ASSUME ProbedInv, AppliedInv, SeenInv, AnswerInv, Take, call.op = "stat",
         result'.kind # "none"
  PROVE  StatHonest'
<1>1. call # Idle /\ answer # NoAnswer /\ result.kind = "none" /\ call.proto \in {"scp", "sftp"}
  BY CallFacts DEF Take, AppliedInv, ProbedInv
<1>2. Verdict # GoOn /\ Finish(Verdict)
  BY <1>1, StatVerdict DEF Take, GoOn
<1>3. /\ saw' = saw /\ result'.op = "stat" /\ result'.kind = Verdict
      /\ result'.proto = call.proto
      /\ Verdict = "Ok" => result'.value = Parsed
  BY <1>2 DEF Finish
<1>4. CASE Verdict = "Ok"
  <2>1. answer.rc = "0" /\ ~Unreadable
    BY <1>1, <1>4, StatVerdict DEF GoOn
  <2>2. PICK s \in saw.files \ {Nothing} :
           Shown(call.proto, s[1], answer.out, start..now, zone)
    BY <1>1, <2>1 DEF AnswerInv
  <2> DEFINE f == s[1]
             v == Parsed
  <2>3. FileOK(f)
    BY <2>2 DEF SeenInv
  <2>4. /\ v.size = f.size
        /\ v.uid \in {Nothing, Some(f.uid)} /\ v.gid \in {Nothing, Some(f.gid)}
        /\ v.exec = (f.mode.exec \/ (call.proto = "scp" /\ f.mode.special))
        /\ v.accessed \in {Nothing, Some(OnWire(f.accessed))}
    <3>1. CASE call.proto = "scp"
      <4>1. PICK t \in start..now : answer.out = Some(LineAt(f, t, zone))
        BY <2>2, <3>1 DEF Shown
      <4>2. v = parse_ls_output(LineAt(f, t, zone), Civil(now).year)
        BY <3>1, <4>1, Options DEF Parsed
      <4> HIDE DEF v, f
      <4>3. /\ v.size = f.size /\ v.accessed = Nothing
            /\ v.uid \in {Nothing, Some(f.uid)} /\ v.gid \in {Nothing, Some(f.gid)}
            /\ v.exec = (f.mode.exec \/ f.mode.special)
        BY <2>3, <4>2, ParsedLine
      <4> QED
        BY <3>1, <4>3, Zenon
    <3>2. CASE call.proto = "sftp"
      <4>1. answer.out = Some(f)
        BY <2>2, <3>2 DEF Shown
      <4>2. v = make_fsentry(f)
        BY <3>2, <4>1, Options DEF Parsed
      <4> HIDE DEF v, f
      <4>3. /\ v.size = f.size /\ v.accessed = Some(OnWire(f.accessed))
            /\ v.uid = Some(f.uid) /\ v.gid = Some(f.gid) /\ v.exec = f.mode.exec
        BY <4>2, ParsedPacket
      <4>4. f.mode.exec \in BOOLEAN
        BY <2>3 DEF FileOK, Mode
      <4>5. v.exec = (f.mode.exec \/ (call.proto = "scp" /\ f.mode.special))
        BY <3>2, <4>3, <4>4, Zenon
      <4> QED
        BY <4>3, <4>5
    <3> QED
      BY <1>1, <3>1, <3>2
  <2> HIDE DEF v
  <2> QED
    BY <1>3, <1>4, <2>4, Zenon DEF StatHonest, v
<1>5. CASE Verdict = "NoSuchFileOrDirectory"
  <2>1. /\ Asking
        /\ \/ answer.rc = "1" \/ Unreadable
           \/ answer = Err /\ call.proto = "sftp"
    BY <1>1, <1>5, StatVerdict DEF GoOn, Asking
  <2>2. CASE answer.rc = "1"
    BY <1>1, <1>3, <1>5, <2>1, <2>2 DEF AnswerInv, StatHonest
  <2>3. CASE Unreadable
    <3>1. call.proto = "scp" /\ answer.rc = "0" /\ ~answer.out[1].plain
      BY <2>3 DEF Unreadable
    <3>2. PICK s \in saw.files \ {Nothing} :
             Shown(call.proto, s[1], answer.out, start..now, zone)
      BY <1>1, <3>1 DEF AnswerInv
    <3>3. PICK t : answer.out = Some(LineAt(s[1], t, zone))
      BY <3>1, <3>2 DEF Shown
    <3>4. ~s[1].plain
      BY <3>1, <3>3, LineFields, Options
    <3> QED
      BY <1>3, <1>5, <3>1, <3>4 DEF StatHonest
  <2>4. CASE answer = Err /\ call.proto = "sftp"
    BY <1>1, <1>3, <1>5, <2>4 DEF AnswerInv, StatHonest
  <2> QED
    BY <2>1, <2>2, <2>3, <2>4
<1>6. CASE Verdict \notin {"Ok", "NoSuchFileOrDirectory"}
  BY <1>3, <1>6 DEF StatHonest
<1> QED
  BY <1>4, <1>5, <1>6

\* Every step keeps the result honest.
LEMMA HonestNext ==
  ASSUME ProbedInv, AppliedInv, SeenInv, AnswerInv, StatHonest, [Next]_vars
  PROVE  StatHonest'
<1>1. call # Idle => result.kind = "none"
  BY DEF AppliedInv
<1>2. CASE setstat \/ stat
  BY <1>2, StartFacts DEF StatHonest
<1>3. CASE Serve \/ Fails \/ Cut
  <2>1. result'.kind = "none"
    BY <1>1, <1>3, SawSteps, Zenon
  <2> QED
    BY <2>1 DEF StatHonest
<1>4. CASE Take
  <2>1. CASE result'.kind = "none"
    BY <2>1 DEF StatHonest
  <2>2. CASE call.op = "stat" /\ result'.kind # "none"
    BY <1>4, <2>2, HonestResult
  <2>3. CASE call.op # "stat" /\ result'.kind # "none"
    <3>1. ASSUME NEW kind, Finish(kind) PROVE result'.op # "stat"
      BY <2>3, <3>1 DEF Finish
    <3>2. call # Idle
      BY <1>4 DEF Take
    <3>3. result'.op # "stat"
      BY <1>1, <1>4, <2>3, <3>1, <3>2 DEF Take
    <3> QED
      BY <3>3 DEF StatHonest
  <2> QED
    BY <2>1, <2>2, <2>3
<1>5. CASE Tick \/ UNCHANGED vars
  BY <1>5 DEF Tick, vars, StatHonest
<1>6. CASE Removed
  <2>1. /\ saw'.files = saw.files \cup {Nothing} /\ result' = result
        /\ saw'.fault = saw.fault /\ saw'.cut = saw.cut /\ saw'.denied = saw.denied
    BY <1>6, SawSteps, Zenon
  <2>2. saw'.files \ {Nothing} = saw.files \ {Nothing} /\ saw.files \subseteq saw'.files
    BY <2>1
  <2> QED
    BY <2>1, <2>2 DEF StatHonest
<1> QED
  BY <1>2, <1>3, <1>4, <1>5, <1>6 DEF Next

-----------------------------------------------------------------------------
(* The time that was set.                                                  *)

\* The last command of a setstat of the SCP client sets the time of modification, if
\* that is asked for.
LEMMA LastSetsTheTime ==
  ASSUME NEW k \in Calls, Probes(k), "modified" \in DOMAIN k.ask
  PROVE  Steps(k)[Len(Steps(k))].on = {"modified"}
<1> DEFINE ask == k.ask
           c == assert_stat_command("touch", {"modified"})
           s3 == <<Must("test -e", {})>>
                 \o Asked(ask, "mode", "chmod", {"mode"})
                 \o Asked(ask, "uid", "chown", {"uid", "gid"} \cap DOMAIN ask)
                 \o Asked(ask, "accessed", "touch", {"accessed"})
<1>1. k.ask \in Asks /\ Steps(k) = ScpSetstat(k.ask)
  BY CallFacts DEF Steps, Probes, Calls
<1>2. Steps(k) = s3 \o <<c>>
  BY <1>1 DEF ScpSetstat, Asked
<1>3. s3 \in Seq(Requests)
  <2>1. /\ {"mode"} \in SUBSET Attrs /\ {"accessed"} \in SUBSET Attrs
        /\ {"uid", "gid"} \cap DOMAIN ask \in SUBSET Attrs
    BY DEF Attrs
  <2>2. <<Must("test -e", {})>> \in Seq(Requests)
    <3>1. Probe \in Requests
      BY DEF Requests
    <3>2. <<Probe>> \in Seq(Requests)
      BY <3>1
    <3> QED
      BY <3>2 DEF Probe
  <2>3. /\ Asked(ask, "mode", "chmod", {"mode"}) \in Seq(Requests)
        /\ Asked(ask, "uid", "chown", {"uid", "gid"} \cap DOMAIN ask) \in Seq(Requests)
        /\ Asked(ask, "accessed", "touch", {"accessed"}) \in Seq(Requests)
    BY <2>1, AskedType
  <2> DEFINE a == <<Must("test -e", {})>>
             b == Asked(ask, "mode", "chmod", {"mode"})
             d == Asked(ask, "uid", "chown", {"uid", "gid"} \cap DOMAIN ask)
             e == Asked(ask, "accessed", "touch", {"accessed"})
  <2>4. a \in Seq(Requests) /\ b \in Seq(Requests) /\ d \in Seq(Requests) /\ e \in Seq(Requests)
    BY <2>2, <2>3
  <2> HIDE DEF a, b, d, e
  <2>5. a \o b \o d \o e \in Seq(Requests)
    BY <2>4
  <2> QED
    BY <2>5 DEF a, b, d, e
<1>4. c.on = {"modified"} /\ c \in Requests
  BY DEF assert_stat_command, Step, Requests, Commands, Attrs
<1> HIDE DEF s3, c
<1>5. Len(s3 \o <<c>>) = Len(s3) + 1 /\ (s3 \o <<c>>)[Len(s3) + 1] = c
  BY <1>3, <1>4
<1> QED
  BY <1>2, <1>4, <1>5

\* What setting the time of modification sets.
LEMMA SentTime ==
  ASSUME NEW k \in Calls, k.op = "setstat", zone \in Int, "modified" \in DOMAIN k.ask,
         NEW f, f.modified = Sent(k, "modified")
  PROVE  Holds(k.proto, k.ask["modified"], f, zone)
<1> DEFINE ask == k.ask
           m == ask["modified"]
           filestat == metadata_to_filestat(ask)
<1>1. ask \in Asks /\ k.proto \in {"scp", "sftp"} /\ "modified" \in Times
  BY DEF Calls, Times
<1>2. m \in Int
  BY <1>1, AskTypes
<1>3. CASE k.proto = "scp"
  <2>1. Sent(k, "modified") = Instant(fmt_time_utc(m)) - zone
    BY <1>1, <1>3 DEF Sent
  <2>2. Whole(m, Second) \in Int
    BY <1>2, Units, WholeFacts
  <2>3. Instant(fmt_time_utc(m)) = Whole(m, Second)
    BY <2>2, CivilInstant DEF fmt_time_utc
  <2> QED
    BY <1>3, <2>1, <2>3 DEF Holds
<1>4. CASE k.proto = "sftp" /\ m >= 0
  <2>1. "modified" \in DOMAIN filestat /\ filestat["modified"] = m \div Second
    BY <1>1, <1>2, <1>4, FilestatFacts
  <2>2. Sent(k, "modified") = OnWire(m)
    BY <1>1, <1>4, <2>1 DEF Sent, OnWire
  <2> QED
    BY <1>4, <2>2 DEF Holds
<1>5. CASE k.proto = "sftp" /\ m < 0
  BY <1>5 DEF Holds
<1> QED
  BY <1>1, <1>2, <1>3, <1>4, <1>5

\* A good answer to a request that sets the time of modification: the file has it.
LEMMA TimeServed ==
  ASSUME TypeOK, ProbedInv, call # Idle, call.op = "setstat", NEW o \in Outcomes(Current),
         o.rc = "0", "modified" \in Current.on
  PROVE  /\ o.file # Nothing
         /\ "modified" \in DOMAIN call.ask
         /\ Holds(call.proto, call.ask["modified"], o.file[1], zone)
<1> DEFINE s == Current
<1>1. call \in Calls /\ call.step \in DOMAIN Steps(call) /\ zone \in Int
  BY ClockTypes DEF ProbedInv
<1>2. s.on \subseteq Undertaken(call.proto, call.ask)
      /\ Undertaken(call.proto, call.ask) \subseteq DOMAIN call.ask
  BY <1>1, OnFacts, Zenon DEF Current
<1>3. "modified" \in DOMAIN call.ask
  BY <1>2
<1>4. s.cmd \notin {"test -e", "ls -l", "stat"}
  <2>1. s.cmd \notin {"test -d", "ls -l", "stat"}
    BY <1>1, OnFacts, Zenon DEF Current
  <2>2. Probes(call) /\ call.step = 1 => s.on = {}
    <3>1. Probes(call) /\ call.step = 1 => s = Probe
      BY FirstIsProbe DEF Probes, Current
    <3> QED
      BY <3>1, RequestFields, Zenon
  <2>3. s \in Commands \/ s = SetStep(call.ask)
    BY <1>1, <2>2, StepForms DEF Current
  <2>4. s.cmd # "test -e"
    BY <2>3, RequestFields, StepFields, Zenon
  <2> QED
    BY <2>1, <2>4, Zenon
<1>5. \A x, y : /\ Refused(x).rc = "1" /\ Done(x, y).file = x
  BY DEF Refused, Done
<1>6. \/ o = Done(Some(With(NewFile, s.on)), Nothing)
      \/ o = Done(Some(With(file[1], Paired(s.on))), Nothing)
      \/ o = Done(Some(With(file[1], s.on)), Nothing)
  <2>1. ~\E x : o = Refused(x)
    BY <1>5
  <2> HIDE DEF s
  <2>2. s = Current
    BY DEF s
  <2> QED
    BY <1>4, <2>1, <2>2, OutcomeForms, Zenon
<1>7. "modified" \in s.on /\ "modified" \in Paired(s.on)
  BY DEF Paired
<1> HIDE DEF s
<1>8. PICK f, attrs : o.file = Some(With(f, attrs)) /\ "modified" \in attrs
  BY <1>5, <1>6, <1>7
<1>9. With(f, attrs)["modified"] = Sent(call, "modified")
  BY <1>8, WithFacts DEF Attrs
<1> DEFINE g == With(f, attrs)
<1>10. g.modified = Sent(call, "modified")
  BY <1>9
<1> HIDE DEF g
<1>11. Holds(call.proto, call.ask["modified"], g, zone)
  BY <1>1, <1>3, <1>10, SentTime
<1> QED
  BY <1>3, <1>8, <1>11, Options DEF g

\* Every step keeps what is known of the time that was set.
LEMMA KeptNext ==
  ASSUME TypeOK, ProbedInv, AppliedInv, KeptInv, [Next]_vars
  PROVE  KeptInv'
<1>1. NoAnswer.rc = "none" /\ Err.rc = "err"
  BY DEF NoAnswer, Err
<1>2. call # Idle => call \in Calls /\ call.step \in DOMAIN Steps(call)
                     /\ call.op \in {"setstat", "stat"} /\ call.proto \in {"scp", "sftp"}
  BY CallFacts DEF ProbedInv
<1>3. CASE setstat \/ stat
  <2>1. /\ call'.op \in {"setstat", "stat"} /\ answer' = NoAnswer
        /\ saw'.set = (IF call'.op = "setstat" THEN Nothing ELSE saw.set)
        /\ UNCHANGED <<file, zone>>
    BY <1>3, StartFacts DEF ProbedInv
  <2> QED
    BY <1>1, <2>1 DEF KeptInv
<1>4. CASE Serve
  <2>1. PICK o \in Outcomes(Current) :
           /\ file' = o.file /\ answer' = [rc |-> o.rc, out |-> o.out]
           /\ saw'.set = saw.set
           /\ call # Idle /\ UNCHANGED <<call, zone>>
    BY <1>4, SawSteps
  <2>2. Current' = Current
    BY <2>1 DEF Current
  <2>3. CASE call.op = "setstat"
    <3>1. answer'.rc = "0" /\ "modified" \in Current.on =>
             Holds(call.proto, call.ask["modified"], file'[1], zone)
      BY <2>1, <2>3, TimeServed
    <3> QED
      BY <2>1, <2>2, <2>3, <3>1 DEF KeptInv
  <2>4. CASE call.op = "stat"
    <3>1. file' = file
      BY <2>1, <2>4, StatServed
    <3> QED
      BY <2>1, <2>4, <3>1 DEF KeptInv
  <2> QED
    BY <1>2, <2>1, <2>3, <2>4
<1>5. CASE Fails \/ Cut
  <2>1. /\ answer'.rc \in {"err", "1"} /\ saw'.set = saw.set /\ call # Idle
        /\ UNCHANGED <<file, call, zone>>
    <3>1. CASE Fails
      BY <1>1, <3>1, SawSteps, Zenon
    <3>2. CASE Cut
      <4>1. answer' = [rc |-> "1", out |-> Nothing]
        BY <3>2, SawSteps, Zenon
      <4>2. answer'.rc = "1"
        BY <4>1
      <4> QED
        BY <3>2, <4>2, SawSteps, Zenon
    <3> QED
      BY <1>5, <3>1, <3>2
  <2> QED
    BY <2>1 DEF KeptInv
<1>6. CASE Removed
  <2>1. saw'.set = Nothing /\ file' = Nothing /\ UNCHANGED <<call, answer>>
    BY <1>6, SawSteps, Zenon
  <2> QED
    BY <2>1 DEF KeptInv
<1>7. CASE Tick \/ UNCHANGED vars
  <2>1. UNCHANGED <<file, call, answer, zone, saw>>
    BY <1>7 DEF Tick, vars, clock
  <2>2. Current' = Current
    BY <2>1 DEF Current
  <2> QED
    BY <2>1, <2>2 DEF KeptInv
<1>8. CASE Take
  <2>1. call # Idle /\ answer # NoAnswer /\ answer' = NoAnswer /\ UNCHANGED <<file, zone>>
    BY <1>8 DEF Take, clock
  <2>2. CASE call' = [call EXCEPT !.step = @ + 1] /\ saw' = saw
    <3>1. call'.op = call.op /\ call' # Idle
      BY <1>2, <2>1, <2>2, StepsOfNext, CallFacts DEF Calls
    <3> QED
      BY <1>1, <2>1, <2>2, <3>1 DEF KeptInv
  <2>3. CASE call' = Idle /\ saw' = saw
    BY <2>1, <2>3 DEF KeptInv
  <2>4. CASE /\ call' = Idle /\ saw' # saw /\ call.op = "setstat"
             /\ "modified" \in DOMAIN call.ask /\ file # Nothing
             /\ saw' = [saw EXCEPT !.set = Some([proto |-> call.proto,
                                                  time |-> call.ask["modified"]])]
             /\ Verdict = "Ok" \/ (Verdict = GoOn /\ ~More)
    <3> DEFINE m == call.ask["modified"]
    <3>1. saw'.set = Some([proto |-> call.proto, time |-> m])
      BY <2>4
    <3>2. saw'.set[1].proto = call.proto /\ saw'.set[1].time = m
      BY <3>1, Options
    <3>3. call.ask \in Asks /\ m \in Int
      <4>1. call.ask \in Asks
        BY <1>2, <2>1, <2>4 DEF Calls
      <4> QED
        BY <2>4, <4>1, AskTypes DEF Times
    <3>4. Holds(call.proto, m, file[1], zone)
      <4>1. CASE call.proto = "sftp"
        <5>1. answer.rc = "0"
          BY <2>1, <2>4, <4>1, SetstatVerdict
        <5>2. Current.on = Undertaken("sftp", call.ask)
          BY <1>2, <2>1, <2>4, <4>1, OnFacts, Zenon DEF Current
        <5>3. CASE m >= 0
          <6>1. "modified" \in Current.on
            BY <2>4, <3>3, <5>2, <5>3 DEF Undertaken
          <6> QED
            BY <2>1, <2>4, <5>1, <6>1 DEF KeptInv
        <5>4. CASE m < 0
          BY <4>1, <5>4 DEF Holds
        <5> QED
          BY <3>3, <5>3, <5>4
      <4>2. CASE call.proto = "scp"
        <5>1. Probes(call)
          BY <1>2, <2>1, <2>4, <4>2 DEF Probes
        <5>2. answer.rc = "0" /\ Verdict = GoOn /\ ~More
          BY <2>1, <2>4, <5>1, SetstatVerdict
        <5>3. call.step = Len(Steps(call))
          <6>1. call.step \in 1..Len(Steps(call)) /\ ~(call.step < Len(Steps(call)))
            BY <1>2, <2>1, <5>1, <5>2, UptoGrows DEF More
          <6>2. Len(Steps(call)) \in Nat
            BY <1>2, <2>1, <5>1, FirstIsProbe
          <6> QED
            BY <6>1, <6>2
        <5>4. Current.on = {"modified"}
          BY <1>2, <2>1, <2>4, <5>1, <5>3, LastSetsTheTime DEF Current
        <5> QED
          BY <2>1, <2>4, <5>2, <5>4 DEF KeptInv
      <4> QED
        BY <1>2, <2>1, <4>1, <4>2
    <3> QED
      BY <1>2, <2>1, <2>4, <3>2, <3>3, <3>4 DEF KeptInv
  <2>5. ASSUME NEW kind, Finish(kind)
        PROVE  /\ call' = Idle
               /\ saw' # saw =>
                    /\ call.op = "setstat" /\ kind = "Ok"
                    /\ "modified" \in DOMAIN call.ask /\ file # Nothing
                    /\ saw' = [saw EXCEPT !.set = Some([proto |-> call.proto,
                                                         time |-> call.ask["modified"]])]
    BY <2>5 DEF Finish
  <2> QED
    BY <1>8, <2>2, <2>3, <2>4, <2>5 DEF Take
<1> QED
  BY <1>3, <1>4, <1>5, <1>6, <1>7, <1>8 DEF Next

\* The result of a stat after a setstat that took the time.
LEMMA ReadResult ==
  ASSUME TypeOK, TypeOK', ProbedInv, AppliedInv, AnswerInv, KeptInv, Take, call.op = "stat",
         result'.kind # "none"
  PROVE  ReadsBack'
<1>1. /\ call # Idle /\ answer # NoAnswer /\ result.kind = "none"
      /\ UNCHANGED <<file, zone, start, now>>
  BY DEF Take, AppliedInv, clock
<1>2. Verdict # GoOn /\ Finish(Verdict)
  BY <1>1, StatVerdict DEF Take, GoOn
<1>3. /\ saw' = saw /\ result'.op = "stat" /\ result'.kind = Verdict
      /\ result'.proto = call.proto
      /\ Verdict = "Ok" => result'.value = Parsed /\ result'.at = now
  BY <1>2 DEF Finish
<1>4. SUFFICES ASSUME Verdict = "Ok", saw.set # Nothing, saw.set[1].proto = call.proto
               PROVE  ReadsBack'
  BY <1>3 DEF ReadsBack
<1> DEFINE m == saw.set[1].time
           f == file[1]
           v == result'.value.modified[1]
<1>5. /\ call.proto \in {"scp", "sftp"} /\ m \in Int /\ file # Nothing
      /\ Holds(call.proto, m, f, zone)
  BY <1>4 DEF KeptInv
<1>6. answer.rc = "0"
  BY <1>1, <1>4, StatVerdict DEF GoOn
<1>7. Shown(call.proto, f, answer.out, start..now, zone)
  BY <1>1, <1>5, <1>6 DEF AnswerInv
<1>8. zone \in Int /\ start \in Int /\ now \in Int /\ f.modified \in Int
  BY <1>5, ClockTypes DEF TypeOK, FileOK
<1>9. Recent \in Nat /\ WireMod \in Nat \ {0}
  BY AttributesAssumption
<1>10. CASE call.proto = "scp"
  <2>1. PICK t \in start..now : answer.out = Some(LineAt(f, t, zone))
    BY <1>7, <1>10 DEF Shown
  <2> DEFINE y == Civil(now).year
  <2>2. y \in Int
    BY <1>8, CivilInstant
  <2>3. result'.value = parse_ls_output(LineAt(f, t, zone), y)
    BY <1>3, <1>4, <1>10, <2>1, Options DEF Parsed
  <2> DEFINE n == Whole(m, Second)
  <2>4. f.modified = n - zone
    BY <1>5, <1>10 DEF Holds
  <2> HIDE DEF f, m
  <2>9. /\ n \in Int /\ n <= m /\ (m >= 0 <=> n >= 0)
        /\ Whole(n, Minute) = Whole(m, Minute)
    BY <1>5, Units, WholeFacts, WholeWhole
  <2> HIDE DEF n
  <2>10. Midnight(n) = Midnight(m) /\ Civil(n).year = Civil(m).year
    BY <1>5, <2>9, MinuteOfDay
  <2>5. t \in Int /\ f.modified + zone = n
    BY <1>8, <2>1, <2>4, <2>9
  <2> HIDE DEF y
  <2>6. \/ n >= 0 /\ v \in {Whole(n, Minute), Midnight(n)}
        \/ n < 0 /\ v = 0
        \/ f.modified > t - Recent /\ Civil(n).year # y
    BY <1>8, <2>2, <2>3, <2>5, ParsedTime
  <2>7. f.modified > t - Recent => m - zone > start - Recent
    BY <1>5, <1>8, <1>9, <2>1, <2>4, <2>9
  <2>11. n < 0 <=> m < 0
    BY <1>5, <2>9
  <2> HIDE DEF v
  <2>8. \/ m >= 0 /\ v \in {Whole(m, Minute), Midnight(m)}
        \/ m < 0 /\ v = 0
        \/ m - zone > start - Recent /\ Civil(m).year # Civil(now).year
    BY <2>6, <2>7, <2>9, <2>10, <2>11 DEF y
  <2> QED
    BY <1>1, <1>3, <1>4, <1>10, <2>8 DEF ReadsBack, v, m
<1>11. CASE call.proto = "sftp"
  <2>1. answer.out = Some(f)
    BY <1>7, <1>11 DEF Shown
  <2>2. result'.value = make_fsentry(f)
    BY <1>3, <1>4, <1>11, <2>1, Options DEF Parsed
  <2>5. make_fsentry(f).modified = Some(OnWire(f.modified))
    BY DEF make_fsentry
  <2>3. v = OnWire(f.modified)
    BY <2>2, <2>5, Options
  <2>4. m \in 0..WireMod * Second - 1 => v = Whole(m, Second)
    <3>1. SUFFICES ASSUME m \in 0..WireMod * Second - 1 PROVE v = Whole(m, Second)
      OBVIOUS
    <3>2. OnWire(m) = Whole(m, Second) /\ OnWire(OnWire(m)) = OnWire(m)
      BY <1>5, <3>1, WireFacts
    <3>3. ~(m < 0)
      BY <3>1
    <3>4. f.modified = OnWire(m)
      BY <1>5, <1>11, <3>3 DEF Holds
    <3> QED
      BY <2>3, <3>2, <3>4
  <2> QED
    BY <1>1, <1>3, <1>4, <1>11, <2>4 DEF ReadsBack
<1> QED
  BY <1>5, <1>10, <1>11

\* Every step keeps the result true to the time that was set.
LEMMA ReadsBackNext ==
  ASSUME TypeOK, TypeOK', ProbedInv, AppliedInv, AnswerInv, KeptInv, ReadsBack, [Next]_vars
  PROVE  ReadsBack'
<1>1. call # Idle => result.kind = "none"
  BY DEF AppliedInv
<1>2. CASE setstat \/ stat
  <2>1. result'.kind = "none"
    BY <1>2, StartFacts
  <2> QED
    BY <2>1 DEF ReadsBack
<1>3. CASE Serve \/ Fails \/ Cut
  <2>1. result'.kind = "none"
    BY <1>1, <1>3, SawSteps, Zenon
  <2> QED
    BY <2>1 DEF ReadsBack
<1>4. CASE Take
  <2>1. CASE result'.kind = "none"
    BY <2>1 DEF ReadsBack
  <2>2. CASE call.op = "stat" /\ result'.kind # "none"
    BY <1>4, <2>2, ReadResult
  <2>3. CASE call.op # "stat" /\ result'.kind # "none"
    <3>1. ASSUME NEW kind, Finish(kind) PROVE result'.op # "stat"
      BY <2>3, <3>1 DEF Finish
    <3>2. call # Idle
      BY <1>4 DEF Take
    <3>3. result'.op # "stat"
      BY <1>1, <1>4, <2>3, <3>1, <3>2 DEF Take
    <3> QED
      BY <3>3 DEF ReadsBack
  <2> QED
    BY <2>1, <2>2, <2>3
<1>5. CASE Tick \/ UNCHANGED vars
  <2>1. UNCHANGED <<result, saw, zone, start>>
    BY <1>5 DEF Tick, vars
  <2> QED
    BY <2>1 DEF ReadsBack
<1>6. CASE Removed
  <2>1. saw'.set = Nothing
    BY <1>6, SawSteps, Zenon
  <2> QED
    BY <2>1 DEF ReadsBack
<1> QED
  BY <1>2, <1>3, <1>4, <1>5, <1>6 DEF Next

-----------------------------------------------------------------------------

\* The invariant.
StatInv == SeenInv /\ AnswerInv /\ KeptInv /\ StatHonest /\ ReadsBack

\* The invariant holds at the start, and every step keeps it.
LEMMA StatInvariant == Spec => []StatInv
<1>1. Init => StatInv
  <2>1. SUFFICES ASSUME Init PROVE StatInv
    OBVIOUS
  <2>2. /\ call = Idle /\ result.op = "idle" /\ saw.set = Nothing /\ saw.files = {}
    BY <2>1 DEF Init
  <2> QED
    BY <2>2 DEF StatInv, SeenInv, AnswerInv, KeptInv, StatHonest, ReadsBack
<1>2. AttrInv /\ AttrInv' /\ StatInv /\ [Next]_vars => StatInv'
  <2>1. SUFFICES ASSUME AttrInv, AttrInv', StatInv, [Next]_vars PROVE StatInv'
    OBVIOUS
  <2>2. TypeOK /\ TypeOK' /\ ProbedInv /\ AppliedInv
    BY <2>1 DEF AttrInv
  <2>3. SeenInv /\ AnswerInv /\ KeptInv /\ StatHonest /\ ReadsBack
    BY <2>1 DEF StatInv
  <2>4. SeenInv' /\ AnswerInv' /\ KeptInv'
    BY <2>1, <2>2, <2>3, SeenNext, AnswerNext, KeptNext
  <2>5. StatHonest' /\ ReadsBack'
    BY <2>1, <2>2, <2>3, HonestNext, ReadsBackNext
  <2> QED
    BY <2>4, <2>5 DEF StatInv
<1> QED
  BY <1>1, <1>2, AttrInvariant, PTL DEF Spec

\* stat reports what the file had at some moment of the call, and a missing file
\* only where there was none or for the reasons that the property lists: a lookup
\* that was denied, a transport error, a line cut or of another form.
THEOREM HonestStat == Spec => []StatHonest
BY StatInvariant, PTL DEF StatInv

\* A client reads back the time that it set, in every time zone: the SFTP client
\* the second of it, the SCP client the minute or the midnight before.
THEOREM TimeReadBack == Spec => []ReadsBack
BY StatInvariant, PTL DEF StatInv

=============================================================================
