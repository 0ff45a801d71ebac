------------------------------ MODULE Transfer ------------------------------
(***************************************************************************)
(* The three whole-file transfers the SFTP client overrides                *)
(* (src/ssh/sftp.rs): create_file, append_file and open_file.  Each opens a *)
(* stream and runs the same pair of nested loops,                          *)
(*                                                                         *)
(*   while bytes < transfer_size {                                         *)
(*       bytes_read = reader.read(buffer)?;                                *)
(*       while delta < bytes_read {                                        *)
(*           delta += writer.write(buffer[delta..bytes_read])?;            *)
(*       }                                                                 *)
(*       bytes += bytes_read;                                              *)
(*   }                                                                     *)
(*                                                                         *)
(* A byte of the source is the number of its position, an old byte of the  *)
(* destination is 0.  Both ends are outside the program: a read returns    *)
(* any non-empty part of what is left (nothing only at the end), a write   *)
(* takes any part of what it is given, and the source may change length    *)
(* between two steps (a file another client truncates or extends).         *)
(***************************************************************************)
EXTENDS Integers, Sequences

CONSTANTS
    Ops,        \* the overridden methods a behaviour may call
    BufLen,     \* length of the stack buffer, 65535 in the code
    UsizeMod,   \* 2^(width of usize): metadata.size is cast to usize
    Sizes,      \* the values of metadata.size a caller may pass
    Lengths,    \* the lengths the source may have
    OldLengths, \* the lengths the destination may have before the call
    MinWrite,   \* least number of bytes a write of the destination accepts
    MaxChanges  \* how often the source may change its length

AllOps == {"create_file", "append_file", "open_file"}

ASSUME TransferAssumption ==
    /\ Ops \subseteq AllOps
    /\ BufLen \in Nat \ {0}
    /\ UsizeMod \in Nat \ {0}
    /\ Sizes \subseteq Nat /\ Lengths \subseteq Nat /\ OldLengths \subseteq Nat
    /\ MinWrite \in {0, 1}
    /\ MaxChanges \in Nat

VARIABLES
    op,            \* the method called
    connected,     \* is_connected() at the call
    size,          \* metadata.size (create_file and append_file)
    source,        \* current length of what is read
    prior,         \* how many old bytes precede the first one written
    sink,          \* content of the destination
    transfer_size, \* the local of that name
    buffer,        \* buffer[0 .. bytes_read]
    delta,         \* the local of that name
    bytes,         \* the local of that name
    pc,            \* where the method is
    ret,           \* what it returned: "none" while it runs
    changes        \* how often the source changed its length

vars == <<op, connected, size, source, prior, sink, transfer_size, buffer,
          delta, bytes, pc, ret, changes>>

call == <<op, connected, size>>

ErrKinds == {"NotConnected", "NoSuchFileOrDirectory", "FileCreateDenied",
             "CouldNotOpenFile", "IoError"}

Old(n) == [i \in 1..n |-> 0]

\* The k source bytes that follow the first n.
Chunk(n, k) == [i \in 1..k |-> n + i]

Least(a, b) == IF a <= b THEN a ELSE b

Init ==
    /\ op \in Ops
    /\ connected \in BOOLEAN
    /\ size \in Sizes
    /\ source \in Lengths
    /\ prior \in OldLengths
    /\ sink = Old(prior)
    /\ transfer_size = 0
    /\ buffer = << >>
    /\ delta = 0
    /\ bytes = 0
    /\ pc = "call"
    /\ ret = "none"
    /\ changes = 0

Return(r) ==
    /\ ret' = r
    /\ pc' = "done"
    /\ UNCHANGED <<op, connected, size, source, transfer_size, buffer, delta,
                   bytes, changes>>

-----------------------------------------------------------------------------
(* Opening the two ends.                                                   *)

NotConnected ==
    /\ pc = "call" /\ ~connected
    /\ Return("NotConnected")
    /\ UNCHANGED <<prior, sink>>

\* Variant of OpenSink without the cast to usize.
OpenSinkUncast ==
    /\ pc = "call" /\ connected
    /\ op \in {"create_file", "append_file"}
    /\ prior' = IF op = "create_file" THEN 0 ELSE prior
    /\ sink' = IF op = "create_file" THEN << >> ELSE sink
    /\ transfer_size' = size
    /\ pc' = "loop"
    /\ UNCHANGED <<call, source, buffer, delta, bytes, ret, changes>>

\* create truncates the remote file, append keeps it and writes at its end.
OpenSink ==
    /\ pc = "call" /\ connected
    /\ op \in {"create_file", "append_file"}
    /\ prior' = IF op = "create_file" THEN 0 ELSE prior
    /\ sink' = IF op = "create_file" THEN << >> ELSE sink
    /\ transfer_size' = size % UsizeMod
    /\ pc' = "loop"
    /\ UNCHANGED <<call, source, buffer, delta, bytes, ret, changes>>

\* The open fails, or it took effect and only its answer was lost.
OpenSinkFails ==
    /\ pc = "call" /\ connected
    /\ \/ /\ op = "create_file"
          /\ Return("FileCreateDenied")
          /\ \/ prior' = 0 /\ sink' = << >>
             \/ UNCHANGED <<prior, sink>>
       \/ /\ op = "append_file"
          /\ Return("CouldNotOpenFile")
          /\ UNCHANGED <<prior, sink>>

\* open_file asks for the size first and opens the file later.
StatSource ==
    /\ pc = "call" /\ connected
    /\ op = "open_file"
    /\ transfer_size' = source % UsizeMod
    /\ pc' = "open"
    /\ UNCHANGED <<call, source, prior, sink, buffer, delta, bytes, ret, changes>>

StatSourceFails ==
    /\ pc = "call" /\ connected
    /\ op = "open_file"
    /\ Return("NoSuchFileOrDirectory")
    /\ UNCHANGED <<prior, sink>>

OpenSource ==
    /\ pc = "open"
    /\ pc' = "loop"
    /\ UNCHANGED <<call, source, prior, sink, transfer_size, buffer, delta, bytes,
                   ret, changes>>

OpenSourceFails ==
    /\ pc = "open"
    /\ \E e \in {"NoSuchFileOrDirectory", "CouldNotOpenFile"} : Return(e)
    /\ UNCHANGED <<prior, sink>>

-----------------------------------------------------------------------------
(* The loops.                                                              *)

\* Variant of More: the loops stop on equality only.
MoreUnlessEqual == bytes # transfer_size

\* The condition of the outer loop.
More == bytes < transfer_size

\* Variant of ReadLengths: the whole rest of the source in one read.
ReadLengthsUnbounded == IF bytes < source THEN 1..(source - bytes) ELSE {0}

\* What a read may return: nothing only at the end of the source.
ReadLengths == IF bytes < source THEN 1..Least(BufLen, source - bytes) ELSE {0}

\* Variant of ReadChunk: delta is declared outside the outer loop.
ReadChunkKeepsDelta ==
    /\ pc = "loop" /\ More
    /\ \E n \in ReadLengths : buffer' = Chunk(bytes, n)
    /\ pc' = "write"
    /\ UNCHANGED <<call, source, prior, sink, transfer_size, delta, bytes, ret,
                   changes>>

ReadChunk ==
    /\ pc = "loop" /\ More
    /\ \E n \in ReadLengths : buffer' = Chunk(bytes, n)
    /\ delta' = 0
    /\ pc' = "write"
    /\ UNCHANGED <<call, source, prior, sink, transfer_size, bytes, ret, changes>>

ReadFails ==
    /\ pc = "loop" /\ More
    /\ Return("IoError")
    /\ UNCHANGED <<prior, sink>>

\* Variant of WriteSlice: every write starts at the beginning of the buffer.
WriteFromStart ==
    /\ pc = "write" /\ delta < Len(buffer)
    /\ \E k \in MinWrite..(Len(buffer) - delta) :
          /\ sink' = sink \o SubSeq(buffer, 1, k)
          /\ delta' = delta + k
    /\ UNCHANGED <<call, source, prior, transfer_size, buffer, bytes, pc, ret,
                   changes>>

\* Variant of WriteSlice: one write is taken to accept all it is given.
WriteOnce ==
    /\ pc = "write" /\ delta < Len(buffer)
    /\ \E k \in MinWrite..(Len(buffer) - delta) :
          sink' = sink \o SubSeq(buffer, delta + 1, delta + k)
    /\ delta' = Len(buffer)
    /\ UNCHANGED <<call, source, prior, transfer_size, buffer, bytes, pc, ret,
                   changes>>

WriteSlice ==
    /\ pc = "write" /\ delta < Len(buffer)
    /\ \E k \in MinWrite..(Len(buffer) - delta) :
          /\ sink' = sink \o SubSeq(buffer, delta + 1, delta + k)
          /\ delta' = delta + k
    /\ UNCHANGED <<call, source, prior, transfer_size, buffer, bytes, pc, ret,
                   changes>>

\* A failed write may have reached the destination in part or as a whole.
WriteFails ==
    /\ pc = "write" /\ delta < Len(buffer)
    /\ \E k \in 0..(Len(buffer) - delta) :
          sink' = sink \o SubSeq(buffer, delta + 1, delta + k)
    /\ Return("IoError")
    /\ UNCHANGED prior

CountChunk ==
    /\ pc = "write" /\ delta >= Len(buffer)
    /\ bytes' = bytes + Len(buffer)
    /\ pc' = "loop"
    /\ UNCHANGED <<call, source, prior, sink, transfer_size, buffer, delta, ret,
                   changes>>

\* Variant of Finish: one chunk is taken for the whole transfer.
FinishAfterChunk ==
    /\ pc = "loop" /\ (bytes > 0 \/ ~More)
    /\ Return("Ok")
    /\ UNCHANGED <<prior, sink>>

Finish ==
    /\ pc = "loop" /\ ~More
    /\ Return("Ok")
    /\ UNCHANGED <<prior, sink>>

-----------------------------------------------------------------------------
(* The world around the call.                                              *)

SourceChanges ==
    /\ pc # "done" /\ changes < MaxChanges
    /\ source' \in Lengths \ {source}
    /\ changes' = changes + 1
    /\ UNCHANGED <<call, prior, sink, transfer_size, buffer, delta, bytes, pc, ret>>

Terminating == pc = "done" /\ UNCHANGED vars

Opening == NotConnected \/ OpenSink \/ StatSource \/ OpenSource
Copying == ReadChunk \/ WriteSlice \/ CountChunk \/ Finish
Failing == OpenSinkFails \/ StatSourceFails \/ OpenSourceFails \/ ReadFails
             \/ WriteFails

Step == Opening \/ Copying \/ Failing

Next == Step \/ SourceChanges \/ Terminating

Spec == Init /\ [][Next]_vars

\* The method is ordinary sequential code: it keeps running.
FairSpec == Spec /\ WF_vars(Step)

-----------------------------------------------------------------------------
(* Correctness.                                                            *)

TypeOK ==
    /\ op \in Ops
    /\ connected \in BOOLEAN
    /\ size \in Sizes
    /\ source \in Lengths
    /\ prior \in Nat
    /\ sink \in Seq(Nat)
    /\ transfer_size \in 0..(UsizeMod - 1)
    /\ buffer \in Seq(Nat)
    /\ delta \in Nat
    /\ bytes \in Nat
    /\ pc \in {"call", "open", "loop", "write", "done"}
    /\ ret \in {"none", "Ok"} \cup ErrKinds
    /\ changes \in Nat

\* How many bytes the destination has received.
Delivered == Len(sink) - prior

\* Whatever the chunking of reads and writes, and wherever an error stops the
\* call, the destination holds the old bytes (none after create) followed by a
\* gapless, unduplicated prefix of the source.
SinkIsPrefix ==
    \A i \in 1..Len(sink) : sink[i] = IF i <= prior THEN 0 ELSE i - prior

\* create_file and append_file report success only when the destination has
\* received exactly the number of bytes they return, and at least as many as
\* metadata.size announced (for a size that fits in usize).
OkCount ==
    ret = "Ok" => /\ bytes = Delivered
                  /\ bytes >= transfer_size
                  /\ op # "open_file" /\ size < UsizeMod => bytes >= size

\* The loop reads past metadata.size by less than one buffer: a destination is
\* never more than BufLen - 1 bytes longer than announced.
BoundedOvershoot ==
    Delivered > 0 => Delivered <= transfer_size + BufLen - 1

\* Why SinkIsPrefix holds, an inductive invariant: between two chunks the
\* destination has what bytes counts; within a chunk it has delta bytes of the
\* buffer more, and the buffer holds the source bytes that come next.
LoopInv ==
    /\ prior <= Len(sink)
    /\ pc \in {"call", "open"} => Delivered = 0 /\ bytes = 0
    /\ pc = "open" => op = "open_file"
    /\ pc = "loop" => Delivered = bytes
    /\ pc = "write" => /\ buffer = Chunk(bytes, Len(buffer))
                       /\ Len(buffer) <= BufLen
                       /\ delta <= Len(buffer)
                       /\ Delivered = bytes + delta
                       /\ bytes < transfer_size
    /\ ret = "none" <=> pc # "done"
    /\ pc \in {"loop", "write"} /\ op # "open_file" =>
          transfer_size = size % UsizeMod

\* A call that does not return is one whose source is shorter than announced and
\* stays so (given a destination that accepts at least one byte per write).
ReturnsUnlessShort ==
    \/ <>(pc = "done")
    \/ <>[](source < transfer_size)

\* What std::io::copy, which the overrides replace, promises: every call returns.
AlwaysReturns == <>(pc = "done")

\* A transfer implements the copy of StreamCopy.
Copy == INSTANCE StreamCopy WITH
            kept    <- prior,
            out     <- sink,
            wanted  <- transfer_size,
            verdict <- IF ret \in ErrKinds THEN "failed" ELSE ret,
            count   <- IF ret = "Ok" THEN bytes ELSE 0

ImplementsCopy == Copy!Spec

=============================================================================
