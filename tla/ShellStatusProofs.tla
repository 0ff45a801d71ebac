------------------------- MODULE ShellStatusProofs -------------------------
(***************************************************************************)
(* The exit status of a command that writes nothing is told from a success *)
(* wherever the answer is cut, and a neat output is returned as it is with *)
(* the status, for every output and every status.                          *)
(***************************************************************************)
EXTENDS ShellStatus, TLAPS

\* Trim leaves what is between the first and the last byte that is no white space.
LEMMA TrimIs ==
  ASSUME NEW s \in Seq(Bytes), NEW a \in Inked(s), NEW b \in Inked(s),
         \A i \in Inked(s) : a <= i /\ i <= b
  PROVE  Trim(s) = SubSeq(s, a, b)
<1>1. Inked(s) \subseteq Nat
  BY DEF Inked
<1> DEFINE first == CHOOSE i \in Inked(s) : \A j \in Inked(s) : i <= j
           last == CHOOSE i \in Inked(s) : \A j \in Inked(s) : j <= i
<1>2. first \in Inked(s) /\ \A j \in Inked(s) : first <= j
  OBVIOUS
<1>3. last \in Inked(s) /\ \A j \in Inked(s) : j <= last
  OBVIOUS
<1>4. Trim(s) = SubSeq(s, first, last)
  BY DEF Trim
<1> HIDE DEF first, last
<1>5. first = a
  <2>1. first <= a /\ a <= first
    BY <1>2
  <2> QED
    BY <1>1, <1>2, <2>1
<1>6. last = b
  <2>1. last <= b /\ b <= last
    BY <1>3
  <2> QED
    BY <1>1, <1>3, <2>1
<1> QED
  BY <1>4, <1>5, <1>6

\* Where the last line feed is.
LEMMA RFindIs ==
  ASSUME NEW s \in Seq(Bytes), NEW n \in DOMAIN s, s[n] = NL,
         \A i \in DOMAIN s : i > n => s[i] # NL
  PROVE  RFind(s) = n - 1
<1> DEFINE feeds == {i \in DOMAIN s : s[i] = NL}
           last == CHOOSE i \in feeds : \A j \in feeds : j <= i
<1>1. n \in feeds /\ feeds \subseteq Nat /\ \A j \in feeds : j <= n
  OBVIOUS
<1>2. RFind(s) = last - 1
  BY <1>1 DEF RFind
<1> HIDE DEF feeds
<1>3. last \in feeds /\ \A j \in feeds : j <= last
  BY <1>1
<1> HIDE DEF last
<1>4. last = n
  BY <1>1, <1>3
<1> QED
  BY <1>2, <1>4

\* It finds none where there is none.
LEMMA RFindNone ==
  ASSUME NEW s \in Seq(Bytes), \A i \in DOMAIN s : s[i] # NL
  PROVE  RFind(s) = -1
BY DEF RFind

\* Digits are no white space, no line feed and no part of a wider character.
LEMMA DigitsAreInk ==
  ASSUME NEW d \in Digits
  PROVE  d \in Bytes /\ d \notin White /\ d # NL /\ d # Cont
BY DEF Digits, Bytes, White, NL, Cont

\* Digits, alone or with the line feed after them, are read as they are.
LEMMA DigitsRead ==
  ASSUME NEW d \in Seq(Digits), NEW s \in {d, d \o <<NL>>}
  PROVE  perform_shell_cmd_with_rc(s) = Parsed(d, << >>)
<1>1. /\ Len(d) \in Nat /\ \A i \in 1..Len(d) : d[i] \in Digits
      /\ NL \in Bytes /\ NL \in White
  BY DEF Bytes, White
<1>2. s \in Seq(Bytes) /\ Len(s) \in {Len(d), Len(d) + 1}
      /\ (\A i \in 1..Len(d) : s[i] = d[i])
      /\ \A i \in 1..Len(s) : i \notin 1..Len(d) => s[i] = NL
  <2>1. d \in Seq(Bytes)
    BY <1>1, DigitsAreInk
  <2> QED
    BY <1>1, <2>1
<1>3. Inked(s) = 1..Len(d)
  BY <1>1, <1>2, DigitsAreInk DEF Inked
<1>4. Trim(s) = d
  <2>1. CASE Len(d) = 0
    <3>1. d = << >> /\ Inked(s) = {}
      BY <1>3, <2>1
    <3> QED
      BY <3>1 DEF Trim
  <2>2. CASE Len(d) # 0
    <3>1. 1 \in Inked(s) /\ Len(d) \in Inked(s)
      BY <1>1, <1>3, <2>2
    <3>2. \A i \in Inked(s) : 1 <= i /\ i <= Len(d)
      BY <1>1, <1>3
    <3>3. Trim(s) = SubSeq(s, 1, Len(d))
      BY <1>2, <3>1, <3>2, TrimIs
    <3> QED
      BY <1>1, <1>2, <3>3
  <2> QED
    BY <2>1, <2>2
<1>5. RFind(d) = -1
  <2>1. d \in Seq(Bytes)
    BY <1>1, DigitsAreInk
  <2> QED
    BY <1>1, <2>1, DigitsAreInk, RFindNone
<1> QED
  BY <1>4, <1>5 DEF perform_shell_cmd_with_rc

\* An output that ends in a line feed and starts with ink is told from the status.
LEMMA NeatRead ==
  ASSUME NEW out \in Seq(Bytes), NEW d \in Seq(Digits), Neat(out), out # << >>, d # << >>
  PROVE  perform_shell_cmd_with_rc(out \o d \o <<NL>>) = Parsed(d, out)
<1> DEFINE s == out \o d \o <<NL>>
           n == Len(out)
           m == Len(d)
<1>1. /\ n \in Nat \ {0} /\ m \in Nat \ {0} /\ d \in Seq(Bytes) /\ NL \in Bytes
      /\ out[1] \notin White /\ out[n] = NL
      /\ \A i \in 1..m : d[i] \in Digits
  <2>1. d \in Seq(Bytes)
    BY DigitsAreInk
  <2>2. Len(out) # 0 /\ Len(d) # 0 /\ Head(out) = out[1]
    OBVIOUS
  <2>3. out[1] \notin White /\ out[n] = NL
    BY <2>2 DEF Neat, Last
  <2>4. NL \in Bytes
    BY DEF Bytes, White
  <2> QED
    BY <2>1, <2>2, <2>3, <2>4
<1>2. /\ s \in Seq(Bytes) /\ Len(s) = n + m + 1
      /\ \A i \in 1..n : s[i] = out[i]
      /\ \A i \in 1..m : s[n + i] = d[i]
      /\ s[n + m + 1] = NL
  BY <1>1
<1> HIDE DEF s
<1>3. /\ 1 \in Inked(s) /\ n + m \in Inked(s)
      /\ \A i \in Inked(s) : 1 <= i /\ i <= n + m
  <2>1. s[n + m] \notin White /\ s[1] \notin White /\ NL \in White
    <3>1. m \in 1..m /\ 1 \in 1..n
      BY <1>1
    <3>2. s[n + m] = d[m] /\ s[1] = out[1]
      BY <1>2, <3>1
    <3> QED
      BY <1>1, <3>1, <3>2, DigitsAreInk DEF White
  <2>2. DOMAIN s = 1..n + m + 1 /\ n + m \in Nat /\ s[n + m + 1] \in White
    BY <1>1, <1>2, <2>1
  <2> HIDE DEF n, m
  <2> QED
    BY <1>1, <2>1, <2>2 DEF Inked
<1>4. Trim(s) = SubSeq(s, 1, n + m)
  BY <1>2, <1>3, TrimIs
<1> DEFINE t == SubSeq(s, 1, n + m)
<1>5. /\ t \in Seq(Bytes) /\ Len(t) = n + m
      /\ \A i \in 1..n + m : t[i] = s[i]
  BY <1>1, <1>2
<1> HIDE DEF t
<1>6. RFind(t) = n - 1
  <2>1. n \in DOMAIN t /\ t[n] = NL
    <3>1. n \in 1..n + m /\ n \in 1..n /\ n + m \in Nat
      BY <1>1
    <3>2. DOMAIN t = 1..n + m
      BY <1>5, <3>1
    <3>3. t[n] = s[n] /\ s[n] = out[n]
      BY <1>2, <1>5, <3>1
    <3> QED
      BY <1>1, <3>1, <3>2, <3>3
  <2>2. ASSUME NEW i \in DOMAIN t, i > n PROVE t[i] # NL
    <3>1. i - n \in 1..m /\ i = n + (i - n) /\ i \in 1..n + m
      BY <1>1, <1>5, <2>2
    <3>2. t[i] = d[i - n]
      BY <1>2, <1>5, <3>1
    <3> QED
      BY <1>1, <3>1, <3>2, DigitsAreInk
  <2> QED
    BY <1>5, <2>1, <2>2, RFindIs
<1>7. ~CutsCharacter(s, n - 1) /\ ~CutsCharacter(s, n)
  <2>1. s[(n - 1) + 1] = NL /\ s[n + 1] = d[1] /\ d[1] \in Digits
    BY <1>1, <1>2
  <2>2. NL # Cont
    BY DEF NL, Cont
  <2> QED
    BY <2>1, <2>2, DigitsAreInk DEF CutsCharacter
<1>8. Slice(s, 0, n) = out
  <2>1. SubSeq(s, 1, n) = out
    BY <1>1, <1>2
  <2> QED
    BY <2>1 DEF Slice
<1>9. Trim(Slice(s, n - 1, Len(s))) = d
  <2> DEFINE r == SubSeq(s, n, n + m + 1)
  <2>1. /\ r \in Seq(Bytes) /\ Len(r) = m + 2
        /\ r[1] = NL /\ r[m + 2] = NL
        /\ \A i \in 1..m : r[i + 1] = d[i]
    <3>1. r \in Seq(Bytes) /\ Len(r) = m + 2 /\ \A i \in 1..m + 2 : r[i] = s[n + i - 1]
      BY <1>1, <1>2
    <3> HIDE DEF r
    <3>2. \A i \in 1..m : i + 1 \in 1..m + 2 /\ n + (i + 1) - 1 = n + i
      BY <1>1
    <3>3. /\ 1 \in 1..m + 2 /\ n + 1 - 1 = n /\ n \in 1..n
          /\ m + 2 \in 1..m + 2 /\ n + (m + 2) - 1 = n + m + 1
      BY <1>1
    <3> QED
      BY <1>1, <1>2, <3>1, <3>2, <3>3, ZenonT(60)
  <2> HIDE DEF r
  <2>2. /\ 2 \in Inked(r) /\ m + 1 \in Inked(r)
        /\ \A i \in Inked(r) : 2 <= i /\ i <= m + 1
    <3>1. NL \in White
      BY DEF White
    <3>2. r[2] = d[1] /\ r[m + 1] = d[m]
      BY <1>1, <2>1
    <3> QED
      BY <1>1, <2>1, <3>1, <3>2, DigitsAreInk DEF Inked
  <2>3. Trim(r) = SubSeq(r, 2, m + 1)
    BY <2>1, <2>2, TrimIs
  <2>4. SubSeq(r, 2, m + 1) = d
    BY <1>1, <2>1
  <2>5. Slice(s, n - 1, Len(s)) = r
    BY <1>1, <1>2 DEF Slice, r
  <2> QED
    BY <2>3, <2>4, <2>5
<1>10. perform_shell_cmd_with_rc(s) = Parsed(d, out)
  <2>1. n - 1 # -1 /\ (n - 1) + 1 = n
    BY <1>1
  <2> QED
    BY <1>4, <1>6, <1>7, <1>8, <1>9, <2>1 DEF perform_shell_cmd_with_rc, t
<1> QED
  BY <1>10 DEF s

\* An output that is text is text with the digits and the line feed after it.
LEMMA WholeText ==
  ASSUME NEW out \in Seq(Bytes), NEW d \in Seq(Digits), ValidUtf8(out)
  PROVE  ValidUtf8(out \o d \o <<NL>>)
<1> DEFINE s == out \o d \o <<NL>>
           n == Len(out)
           m == Len(d)
<1>1. /\ n \in Nat /\ m \in Nat /\ Len(s) = n + m + 1
      /\ \A i \in 1..n : s[i] = out[i]
      /\ \A i \in 1..m : s[n + i] = d[i] /\ d[i] \in Digits
      /\ s[n + m + 1] = NL /\ DOMAIN out = 1..n /\ DOMAIN s = 1..n + m + 1
  OBVIOUS
<1> HIDE DEF s, n, m
<1>2. ASSUME NEW i \in 1..n + m + 1, i \notin 1..n
      PROVE  s[i] # Lead /\ s[i] # Cont
  <2>1. CASE i = n + m + 1
    BY <1>1, <2>1 DEF NL, Lead, Cont
  <2>2. CASE i # n + m + 1
    <3>1. i - n \in 1..m /\ i = n + (i - n)
      BY <1>1, <1>2, <2>2
    <3>2. s[i] \in Digits
      BY <1>1, <3>1
    <3> QED
      BY <3>2 DEF Digits, Lead, Cont
  <2> QED
    BY <2>1, <2>2
<1>3. ASSUME NEW i \in 1..n
      PROVE  /\ s[i] = Lead => i < n + m + 1 /\ s[i + 1] = Cont
             /\ s[i] = Cont => i > 1 /\ s[i - 1] = Lead
  <2>1. /\ out[i] = Lead => i < n /\ out[i + 1] = Cont
        /\ out[i] = Cont => i > 1 /\ out[i - 1] = Lead
    BY <1>1 DEF ValidUtf8, n
  <2>2. i < n => i + 1 \in 1..n
    BY <1>1
  <2>3. i > 1 => i - 1 \in 1..n
    BY <1>1
  <2> QED
    BY <1>1, <2>1, <2>2, <2>3
<1>4. ValidUtf8(s)
  BY <1>1, <1>2, <1>3 DEF ValidUtf8
<1> QED
  BY <1>4 DEF s

-----------------------------------------------------------------------------
(* The theorems.                                                           *)

\* The state has its type, and a reply to a silent command its status.
StatusInv ==
    /\ cmdout \in Outputs /\ status \in Statuses
    /\ sent \in 0..Len(Written)
    /\ SuccessIsSuccess

\* What the shell writes is a sequence of bytes.
LEMMA StatusFacts ==
  ASSUME StatusInv
  PROVE  /\ cmdout \in Seq(Bytes) /\ status \in Seq(Digits) /\ status # << >>
         /\ status[1] = "0" => Len(status) = 1
         /\ Len(Written) = Len(cmdout) + Len(status) + 1
BY ShellStatusAssumption, DigitsAreInk DEF StatusInv, Written

\* However much of the digits of a status is read, it is 0 only when they are.
LEMMA CutStatus ==
  ASSUME NEW d \in Seq(Digits), d # << >>, d[1] = "0" => Len(d) = 1,
         NEW k \in 0..Len(d), Parsed(SubSeq(d, 1, k), << >>).kind = "Ok"
  PROVE  Parsed(SubSeq(d, 1, k), << >>).rc = <<"0">> <=> d = <<"0">>
<1> DEFINE p == SubSeq(d, 1, k)
<1>1. p # << >> /\ Parsed(p, << >>).rc = p
  BY DEF Parsed, ProtocolError, IsNumber, Ok
<1>2. k # 0 /\ Len(p) = k /\ p[1] = d[1] /\ Len(d) \in Nat /\ Len(d) # 0
      /\ p \in Seq(Digits) /\ Len(p) # 0
  BY <1>1
<1>3. \A s \in Seq(Digits) : s = <<"0">> <=> Len(s) = 1 /\ s[1] = "0"
  OBVIOUS
<1> HIDE DEF p
<1>4. p = <<"0">> => d = <<"0">>
  BY <1>2, <1>3
<1>5. d = <<"0">> => p = <<"0">>
  <2> SUFFICES ASSUME Len(d) = 1, d[1] = "0" PROVE p = <<"0">>
    BY <1>3
  <2>1. Len(p) = 1
    BY <1>2
  <2> QED
    BY <1>2, <1>3, <2>1
<1> QED
  BY <1>1, <1>4, <1>5 DEF p

\* What a read that ends makes of the answer to a silent command.
LEMMA SilentReply ==
  ASSUME StatusInv, ReadEnds, cmdout = << >>, reply'.kind = "Ok"
  PROVE  reply'.rc = <<"0">> <=> status = <<"0">>
<1>1. /\ status \in Seq(Digits) /\ status # << >>
      /\ status[1] = "0" => Len(status) = 1
      /\ sent \in 0..Len(status) + 1 /\ Len(status) \in Nat
      /\ Written = status \o <<NL>>
  <2>1. status \in Seq(Digits)
    BY StatusFacts
  <2>2. << >> \o status \o <<NL>> = status \o <<NL>>
    BY <2>1
  <2>3. Len(status \o <<NL>>) = Len(status) + 1
    BY <2>1
  <2> QED
    BY <2>1, <2>2, <2>3, StatusFacts DEF StatusInv, Written
<1>2. PICK k \in 0..Len(status) : Slice(Written, 0, sent) \in
        {SubSeq(status, 1, k), SubSeq(status, 1, k) \o <<NL>>}
  <2>1. CASE sent <= Len(status)
    <3>1. SubSeq(status \o <<NL>>, 1, sent) = SubSeq(status, 1, sent)
      BY <1>1, <2>1
    <3> QED
      BY <1>1, <2>1, <3>1 DEF Slice
  <2>2. CASE sent = Len(status) + 1
    <3>1. SubSeq(status \o <<NL>>, 1, sent) = SubSeq(status, 1, Len(status)) \o <<NL>>
      BY <1>1, <2>2
    <3>2. Len(status) \in 0..Len(status)
      BY <1>1
    <3> QED
      BY <1>1, <3>1, <3>2 DEF Slice
  <2>3. sent <= Len(status) \/ sent = Len(status) + 1
    BY <1>1
  <2> QED
    BY <2>1, <2>2, <2>3
<1>3. SubSeq(status, 1, k) \in Seq(Digits)
  BY <1>1
<1>4. reply' = Parsed(SubSeq(status, 1, k), << >>)
  BY <1>2, <1>3, DigitsRead DEF ReadEnds
<1> QED
  BY <1>1, <1>4, CutStatus

\* It holds at the start.
LEMMA StatusInit == Init => StatusInv
<1> SUFFICES ASSUME Init PROVE StatusInv
  OBVIOUS
<1>1. cmdout \in Seq(Bytes) /\ status \in Seq(Bytes)
  BY ShellStatusAssumption, DigitsAreInk DEF Init
<1>2. Len(Written) \in Nat
  BY <1>1 DEF Written
<1> QED
  BY <1>2 DEF Init, StatusInv, SuccessIsSuccess, NoReply

\* Every step keeps it.
LEMMA StatusNext ==
  ASSUME StatusInv, [Next]_vars
  PROVE  StatusInv'
<1>1. cmdout' = cmdout /\ status' = status /\ Written' = Written
  BY DEF Next, Deliver, End, ReadFails, ReadEnds, vars, Written
<1>2. Len(Written) \in Nat
  BY StatusFacts
<1>3. sent' \in 0..Len(Written)
  BY <1>2 DEF Next, Deliver, End, ReadFails, ReadEnds, vars, StatusInv
<1>4. SuccessIsSuccess'
  <2>1. CASE ReadEnds
    BY <1>1, <2>1, SilentReply DEF SuccessIsSuccess
  <2>2. CASE ReadFails
    BY <2>2 DEF ReadFails, ProtocolError, SuccessIsSuccess
  <2>3. CASE Deliver \/ End \/ UNCHANGED vars
    BY <2>3 DEF Deliver, End, vars, SuccessIsSuccess, StatusInv
  <2> QED
    BY <2>1, <2>2, <2>3 DEF Next
<1> QED
  BY <1>1, <1>3, <1>4 DEF StatusInv

\* Wherever the answer to a silent command is cut, the client never takes a failure
\* for a success, nor a success for a failure.
THEOREM SilentStatus == Spec => []SuccessIsSuccess
<1>1. Spec => []StatusInv
  BY StatusInit, StatusNext, PTL DEF Spec
<1>2. StatusInv => SuccessIsSuccess
  BY DEF StatusInv
<1> QED
  BY <1>1, <1>2, PTL

\* An answer that arrived whole, to a command whose output is neat, gives that
\* output and the status, whatever their length.
THEOREM NeatOutput == Spec => NeatRoundTrip
<1> DEFINE Step == Neat(cmdout) /\ Complete /\ ended /\ reply = NoReply /\ reply' # NoReply
                     => reply' = Ok(status, cmdout)
<1>1. ASSUME StatusInv, [Next]_vars PROVE [Step]_vars
  <2> SUFFICES ASSUME Neat(cmdout), Complete, ended, reply = NoReply, reply' # NoReply,
                      Next
               PROVE  reply' = Ok(status, cmdout)
    BY <1>1
  <2>1. /\ cmdout \in Seq(Bytes) /\ status \in Seq(Digits) /\ status # << >>
        /\ Len(Written) \in Nat
    BY <1>1, StatusFacts
  <2>2. Slice(Written, 0, sent) = Written
    <3>1. Written \in Seq(Bytes)
      <4>1. status \in Seq(Bytes)
        BY <2>1, DigitsAreInk
      <4>2. <<NL>> \in Seq(Bytes)
        BY DEF Bytes, White
      <4>3. cmdout \o status \in Seq(Bytes)
        BY <2>1, <4>1
      <4> QED
        BY <4>2, <4>3 DEF Written
    <3> QED
      BY <2>1, <3>1 DEF Complete, Slice
  <2>3. IsNumber(status)
    BY <2>1 DEF IsNumber
  <2>4. perform_shell_cmd_with_rc(Written) = Ok(status, cmdout)
    <3>1. CASE cmdout = << >>
      <4>1. << >> \o status \o <<NL>> = status \o <<NL>>
        BY <2>1
      <4> QED
        BY <2>1, <2>3, <3>1, <4>1, DigitsRead DEF Written, Parsed
    <3>2. CASE cmdout # << >>
      BY <2>1, <2>3, <3>2, NeatRead DEF Written, Parsed
    <3> QED
      BY <3>1, <3>2
  <2>5. ValidUtf8(Written)
    BY <2>1, WholeText DEF Neat, Written
  <2>6. ReadEnds
    BY <2>2, <2>5 DEF Next, Deliver, End, ReadFails
  <2> QED
    BY <2>2, <2>4, <2>6 DEF ReadEnds
<1>2. Spec => []StatusInv
  BY StatusInit, StatusNext, PTL DEF Spec
<1> QED
  BY <1>1, <1>2, PTL DEF Spec, NeatRoundTrip
=============================================================================
