---------------------------- MODULE ShellStatus ----------------------------
(***************************************************************************)
(* How the client learns the exit status of a command (src/ssh/commons.rs): *)
(* perform_shell_cmd_with_rc runs "cmd; echo $?", reads one string until   *)
(* the channel ends, and takes the last line of it for the status and the  *)
(* rest for the output.                                                    *)
(*                                                                         *)
(* A string is the sequence of its bytes, of which the code tells apart    *)
(* digits, the line feed, other white space, the two bytes of a wider      *)
(* character, and the rest.                                                *)
(***************************************************************************)
EXTENDS Integers, Sequences, FiniteSets, SequencesExt

CONSTANTS
    Outputs,  \* what commands write to their standard output
    Statuses  \* their exit statuses, as the digits echo $? writes

NL == "\n"
Digits == {"0", "1", "2", "5"}
White == {NL, " "}
Lead == "lead"   \* first byte of a two-byte character
Cont == "cont"   \* its second byte

Bytes == Digits \cup White \cup {Lead, Cont, "x"}

ASSUME ShellStatusAssumption ==
    /\ Outputs \subseteq Seq(Bytes)
    /\ Statuses \subseteq Seq(Digits)
    \* decimal, without leading zeros
    /\ \A s \in Statuses : s # << >> /\ (s[1] = "0" => Len(s) = 1)

VARIABLES
    cmdout,  \* what the command in progress writes
    status,  \* what it exits with
    sent,    \* how many bytes the channel has delivered
    ended,   \* whether the channel ended
    reply    \* what perform_shell_cmd_with_rc returns

vars == <<cmdout, status, sent, ended, reply>>

\* What the shell writes: the output of cmd, then that of echo.
Written == cmdout \o status \o <<NL>>

-----------------------------------------------------------------------------
(* str and u32::from_str.                                                  *)

\* Bytes from..to, counted from 0, to excluded; a cut inside a character
\* panics.
CutsCharacter(s, i) == i < Len(s) /\ s[i + 1] = Cont
Slice(s, from, to) == SubSeq(s, from + 1, to)

Inked(s) == {i \in DOMAIN s : s[i] \notin White}

\* str::trim
Trim(s) ==
    IF Inked(s) = {} THEN << >>
    ELSE SubSeq(s, CHOOSE i \in Inked(s) : \A j \in Inked(s) : i <= j,
                   CHOOSE i \in Inked(s) : \A j \in Inked(s) : j <= i)

\* Variant of RFind: the first line feed.
Find(s) ==
    LET feeds == {i \in DOMAIN s : s[i] = NL}
    IN  IF feeds = {} THEN -1
        ELSE (CHOOSE i \in feeds : \A j \in feeds : i <= j) - 1

\* The byte index of the last line feed, -1 when there is none.
RFind(s) ==
    LET feeds == {i \in DOMAIN s : s[i] = NL}
    IN  IF feeds = {} THEN -1
        ELSE (CHOOSE i \in feeds : \A j \in feeds : j <= i) - 1

IsNumber(s) == s # << >> /\ \A i \in DOMAIN s : s[i] \in Digits

ValidUtf8(s) ==
    \A i \in DOMAIN s :
       /\ s[i] = Lead => i < Len(s) /\ s[i + 1] = Cont
       /\ s[i] = Cont => i > 1 /\ s[i - 1] = Lead

-----------------------------------------------------------------------------

Ok(rc, out) == [kind |-> "Ok", rc |-> rc, out |-> out]
ProtocolError == [kind |-> "ProtocolError"]
Panic == [kind |-> "panic"]
NoReply == [kind |-> "none"]

\* Variant of Parsed: what is no number counts as 0.
ParsedOrZero(digits, out) ==
    IF IsNumber(digits) THEN Ok(digits, out) ELSE Ok(<<"0">>, out)

Parsed(digits, out) == IF IsNumber(digits) THEN Ok(digits, out) ELSE ProtocolError

\* perform_shell_cmd_with_rc: the index is found in the trimmed string and used
\* in the string itself.
perform_shell_cmd_with_rc(output) ==
    LET index == RFind(Trim(output))
    IN  IF index = -1
          THEN Parsed(Trim(output), << >>)
          ELSE IF CutsCharacter(output, index) \/ CutsCharacter(output, index + 1)
            THEN Panic
            ELSE Parsed(Trim(Slice(output, index, Len(output))),
                        Slice(output, 0, index + 1))

Init ==
    /\ cmdout \in Outputs
    /\ status \in Statuses
    /\ sent = 0
    /\ ended = FALSE
    /\ reply = NoReply

Deliver ==
    /\ ~ended /\ sent < Len(Written)
    /\ sent' = sent + 1
    /\ UNCHANGED <<cmdout, status, ended, reply>>

\* The channel ends: with everything, or early, when the shell is killed or
\* exits before its echo.
End ==
    /\ ~ended
    /\ ended' = TRUE
    /\ UNCHANGED <<cmdout, status, sent, reply>>

\* read_to_string fails when the channel does, or on bytes that are no text.
ReadFails ==
    /\ reply = NoReply
    /\ ended => ~ValidUtf8(Slice(Written, 0, sent))
    /\ reply' = ProtocolError
    /\ UNCHANGED <<cmdout, status, sent, ended>>

ReadEnds ==
    /\ reply = NoReply /\ ended
    /\ ValidUtf8(Slice(Written, 0, sent))
    /\ reply' = perform_shell_cmd_with_rc(Slice(Written, 0, sent))
    /\ UNCHANGED <<cmdout, status, sent, ended>>

Next == Deliver \/ End \/ ReadFails \/ ReadEnds

Spec == Init /\ [][Next]_vars

-----------------------------------------------------------------------------
(* Correctness.                                                            *)

Complete == sent = Len(Written)

\* The commands of the SCP client write nothing.  For them the client never
\* takes a failure for a success: whatever part of the answer arrives, status 0
\* is reported only when the command exited with 0, and another status only
\* when it did not.
SuccessIsSuccess ==
    cmdout = << >> /\ reply.kind = "Ok" => (reply.rc = <<"0">> <=> status = <<"0">>)

\* An output that is text, starts with no white space and ends in a line feed.
Neat(s) == ValidUtf8(s) /\ (s = << >> \/ (Head(s) \notin White /\ Last(s) = NL))

\* For those, a read that ends after everything arrived gives the status and
\* the output as they are.
NeatRoundTrip ==
    [][Neat(cmdout) /\ Complete /\ ended /\ reply = NoReply /\ reply' # NoReply
         => reply' = Ok(status, cmdout)]_vars

\* What the doc comment of perform_shell_cmd_with_rc says: it collects the
\* return code and the output of the command.
CollectsStatus ==
    reply.kind = "Ok" /\ Complete => reply.rc = status

=============================================================================
