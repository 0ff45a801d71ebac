----------------------------- MODULE StreamCopy -----------------------------
(***************************************************************************)
(* What a whole-file transfer promises, without buffers, chunks or loops:  *)
(* bytes of the source reach the destination in order, each once, behind   *)
(* the bytes that were kept there; the transfer ends once, either failed   *)
(* or with the number of bytes delivered, which is at least the number     *)
(* wanted.                                                                 *)
(***************************************************************************)
EXTENDS Integers, Sequences

VARIABLES
    kept,    \* how many old bytes the destination keeps
    out,     \* the destination: 0 for an old byte, else a source position
    wanted,  \* how many bytes the transfer has to deliver
    verdict, \* "none", "Ok" or "failed"
    count    \* the number returned

vars == <<kept, out, wanted, verdict, count>>

Init ==
    /\ kept \in Nat
    /\ out = [i \in 1..kept |-> 0]
    /\ wanted = 0
    /\ verdict = "none"
    /\ count = 0

\* The next bytes of the source are appended, none is skipped or repeated.
Extends ==
    /\ kept' = kept
    /\ Len(out') >= Len(out)
    /\ out' = [i \in 1..Len(out') |->
                 IF i <= Len(out) THEN out[i] ELSE i - kept]

Truncates == kept' = 0 /\ out' = << >>

\* Nothing was delivered yet: the amount is agreed and the destination opened.
Open ==
    /\ verdict = "none" /\ Len(out) = kept
    /\ wanted' \in Nat
    /\ \/ Truncates
       \/ UNCHANGED <<kept, out>>
    /\ UNCHANGED <<verdict, count>>

Put ==
    /\ verdict = "none"
    /\ Extends
    /\ UNCHANGED <<wanted, verdict, count>>

Succeed ==
    /\ verdict = "none"
    /\ Len(out) - kept >= wanted
    /\ verdict' = "Ok"
    /\ count' = Len(out) - kept
    /\ UNCHANGED <<kept, out, wanted>>

Fail ==
    /\ verdict = "none"
    /\ verdict' = "failed"
    /\ \/ Extends
       \/ Len(out) = kept /\ Truncates
    /\ UNCHANGED <<wanted, count>>

Next == Open \/ Put \/ Succeed \/ Fail

Spec == Init /\ [][Next]_vars

=============================================================================
