--------------------------- MODULE TransferProofs ---------------------------
(***************************************************************************)
(* Proofs about Transfer, for every buffer length, width of usize, source  *)
(* and destination length: the destination always holds a prefix of the    *)
(* source, and a success reports what was delivered.                       *)
(***************************************************************************)
EXTENDS Transfer, SequenceTheorems, TLAPS

\* The cast to usize: a remainder, and the identity on sizes that fit.
LEMMA CastRange ==
  ASSUME NEW a \in Nat
  PROVE  /\ a % UsizeMod \in 0..(UsizeMod - 1)
         /\ a < UsizeMod => a % UsizeMod = a
BY TransferAssumption

\* A chunk is a sequence of source positions.
LEMMA ChunkSeq ==
  ASSUME NEW n \in Nat, NEW k \in Nat
  PROVE  /\ Chunk(n, k) \in Seq(Nat)
         /\ Len(Chunk(n, k)) = k
         /\ \A i \in 1..k : Chunk(n, k)[i] = n + i
<1>1. Chunk(n, k) \in [1..k -> Nat]
  BY DEF Chunk
<1> QED
  BY <1>1 DEF Chunk

\* The old content of the destination is a sequence of zeros.
LEMMA OldSeq ==
  ASSUME NEW n \in Nat
  PROVE  /\ Old(n) \in Seq(Nat)
         /\ Len(Old(n)) = n
         /\ \A i \in 1..n : Old(n)[i] = 0
<1>1. Old(n) \in [1..n -> Nat]
  BY DEF Old
<1> QED
  BY <1>1 DEF Old

-----------------------------------------------------------------------------

\* The initial states have the types.
LEMMA InitType == Init => TypeOK
BY TransferAssumption, OldSeq DEF Init, TypeOK, ErrKinds

\* A part of the buffer appended to the destination, which is what every write
\* does, whether it is answered or not: the destination grows by that part and
\* goes on holding a prefix of the source.
LEMMA AppendSlice ==
  ASSUME TypeOK, SinkIsPrefix, LoopInv, pc = "write",
         NEW k \in 0..(Len(buffer) - delta)
  PROVE  LET after == sink \o SubSeq(buffer, delta + 1, delta + k)
         IN  /\ after \in Seq(Nat)
             /\ Len(after) = Len(sink) + k
             /\ \A i \in 1..Len(after) :
                   after[i] = IF i <= prior THEN 0 ELSE i - prior
<1> DEFINE slice == SubSeq(buffer, delta + 1, delta + k)
           after == sink \o slice
<1>1. /\ sink \in Seq(Nat) /\ Len(sink) \in Nat
      /\ buffer \in Seq(Nat) /\ Len(buffer) \in Nat
      /\ delta \in Nat /\ bytes \in Nat /\ prior \in Nat
      /\ k \in Nat /\ delta + k <= Len(buffer)
  BY DEF TypeOK, LoopInv
<1>2. \A i \in 1..Len(buffer) : buffer[i] = bytes + i
  <2>1. buffer = Chunk(bytes, Len(buffer))
    BY DEF LoopInv
  <2>2. \A i \in 1..Len(buffer) : Chunk(bytes, Len(buffer))[i] = bytes + i
    BY <1>1, ChunkSeq
  <2> QED
    BY <2>1, <2>2
<1>3. \A i \in (delta + 1)..(delta + k) : buffer[i] \in Nat
  BY <1>1, <1>2
<1>4. /\ slice \in Seq(Nat)
      /\ Len(slice) = k
      /\ \A i \in 1..k : slice[i] = buffer[delta + i]
  <2>1. delta + 1 \in Int /\ delta + k \in Int
    BY <1>1
  <2>2. /\ slice \in Seq(Nat)
        /\ Len(slice) = IF delta + 1 <= delta + k
                          THEN (delta + k) - (delta + 1) + 1 ELSE 0
        /\ \A i \in 1..((delta + k) - (delta + 1) + 1) :
              slice[i] = buffer[(delta + 1) + i - 1]
    BY <1>3, <2>1, SubSeqProperties
  <2>3. (delta + k) - (delta + 1) + 1 = k
    BY <1>1
  <2>4. Len(slice) = k
    BY <1>1, <2>2, <2>3
  <2>5. ASSUME NEW i \in 1..k
        PROVE  slice[i] = buffer[delta + i]
    <3>1. (delta + 1) + i - 1 = delta + i
      BY <1>1, <2>5
    <3> QED
      BY <2>2, <2>3, <3>1
  <2> QED
    BY <2>2, <2>4, <2>5
<1>5. \A i \in 1..k : slice[i] = bytes + delta + i
  BY <1>1, <1>2, <1>4
<1>6. /\ after \in Seq(Nat)
      /\ Len(after) = Len(sink) + k
      /\ \A i \in 1..(Len(sink) + k) :
            after[i] = IF i <= Len(sink) THEN sink[i] ELSE slice[i - Len(sink)]
  BY <1>1, <1>4, ConcatProperties, SMTT(60)
<1>7. Len(sink) = prior + bytes + delta
  BY <1>1 DEF LoopInv, Delivered
<1>8. ASSUME NEW i \in 1..Len(after)
      PROVE  after[i] = IF i <= prior THEN 0 ELSE i - prior
  <2>1. CASE i <= Len(sink)
    BY <1>1, <1>6, <1>8, <2>1 DEF SinkIsPrefix
  <2>2. CASE i > Len(sink)
    <3>0. i \in Nat /\ i <= Len(sink) + k
      BY <1>1, <1>6, <1>8
    <3>1. i - Len(sink) \in 1..k
      BY <1>1, <2>2, <3>0
    <3>2. after[i] = bytes + delta + (i - Len(sink))
      <4>1. after[i] = slice[i - Len(sink)]
        BY <1>1, <1>6, <2>2, <3>0
      <4> QED
        BY <1>5, <3>1, <4>1
    <3> QED
      BY <1>1, <1>7, <2>2, <3>0, <3>2
  <2> QED
    BY <1>1, <2>1, <2>2
<1> QED
  BY <1>6, <1>8

\* A returning step keeps the types of what it leaves alone.
LEMMA ReturnType ==
  ASSUME TypeOK, NEW r \in {"Ok"} \cup ErrKinds, Return(r),
         prior' \in Nat, sink' \in Seq(Nat)
  PROVE  TypeOK'
BY DEF TypeOK, Return

\* Every step keeps the types; those that write need the rest of the invariant.
LEMMA NextType ==
  ASSUME TypeOK, SinkIsPrefix, LoopInv, [Next]_vars
  PROVE  TypeOK'
<1>1. CASE NotConnected
  BY <1>1, ReturnType DEF NotConnected, TypeOK, ErrKinds
<1>2. CASE OpenSink
  BY <1>2, CastRange, EmptySeq, TransferAssumption
  DEF OpenSink, TypeOK, call
<1>3. CASE OpenSinkFails
  <2>1. prior' \in Nat /\ sink' \in Seq(Nat)
    <3>1. << >> \in Seq(Nat)
      BY EmptySeq
    <3>2. prior \in Nat /\ sink \in Seq(Nat)
      BY DEF TypeOK
    <3>3. prior' = 0 \/ prior' = prior
      BY <1>3 DEF OpenSinkFails, Return
    <3>4. sink' = << >> \/ sink' = sink
      BY <1>3 DEF OpenSinkFails, Return
    <3>5. prior' \in Nat
      BY <3>2, <3>3
    <3> QED
      BY <3>1, <3>2, <3>4, <3>5, Zenon
  <2>2. Return("FileCreateDenied") \/ Return("CouldNotOpenFile")
    BY <1>3 DEF OpenSinkFails
  <2> QED
    BY <2>1, <2>2, ReturnType DEF ErrKinds
<1>4. CASE StatSource
  BY <1>4, CastRange, TransferAssumption DEF StatSource, TypeOK, call
<1>5. CASE StatSourceFails
  BY <1>5, ReturnType DEF StatSourceFails, TypeOK, ErrKinds
<1>6. CASE OpenSource
  BY <1>6 DEF OpenSource, TypeOK, call
<1>7. CASE OpenSourceFails
  BY <1>7, ReturnType DEF OpenSourceFails, TypeOK, ErrKinds
<1>8. CASE ReadChunk
  <2>1. PICK n \in ReadLengths : buffer' = Chunk(bytes, n)
    BY <1>8 DEF ReadChunk
  <2>2. n \in Nat
    BY <2>1, TransferAssumption DEF ReadLengths, Least, TypeOK
  <2>3. buffer' \in Seq(Nat)
    BY <2>1, <2>2, ChunkSeq DEF TypeOK
  <2> QED
    BY <1>8, <2>3 DEF ReadChunk, More, TypeOK, call
<1>9. CASE ReadFails
  BY <1>9, ReturnType DEF ReadFails, TypeOK, ErrKinds
<1>10. CASE WriteSlice
  <2>1. PICK k \in MinWrite..(Len(buffer) - delta) :
              /\ sink' = sink \o SubSeq(buffer, delta + 1, delta + k)
              /\ delta' = delta + k
    BY <1>10 DEF WriteSlice
  <2>2. k \in 0..(Len(buffer) - delta)
    BY <2>1, TransferAssumption, LenProperties DEF TypeOK
  <2>3. sink' \in Seq(Nat)
    BY <1>10, <2>1, <2>2, AppendSlice DEF WriteSlice
  <2>4. delta' \in Nat
    BY <2>1, <2>2, LenProperties DEF TypeOK
  <2> QED
    BY <1>10, <2>3, <2>4 DEF WriteSlice, TypeOK, call
<1>11. CASE WriteFails
  <2>1. PICK k \in 0..(Len(buffer) - delta) :
              sink' = sink \o SubSeq(buffer, delta + 1, delta + k)
    BY <1>11 DEF WriteFails
  <2>2. sink' \in Seq(Nat)
    BY <1>11, <2>1, AppendSlice DEF WriteFails
  <2> QED
    BY <1>11, <2>2, ReturnType DEF WriteFails, TypeOK, ErrKinds
<1>12. CASE CountChunk
  BY <1>12, LenProperties DEF CountChunk, TypeOK, call
<1>13. CASE Finish
  BY <1>13, ReturnType DEF Finish, More, TypeOK
<1>14. CASE SourceChanges
  BY <1>14 DEF SourceChanges, TypeOK, call
<1>15. CASE UNCHANGED vars
  BY <1>15 DEF vars, TypeOK
<1> QED
  BY <1>1, <1>2, <1>3, <1>4, <1>5, <1>6, <1>7, <1>8, <1>9, <1>10, <1>11,
     <1>12, <1>13, <1>14, <1>15
  DEF Next, Step, Opening, Copying, Failing, Terminating

-----------------------------------------------------------------------------

\* The inductive invariant: the types; what holds at the destination, why, and
\* what a success claims.
DestinationInv == SinkIsPrefix /\ LoopInv /\ OkCount /\ BoundedOvershoot

TransferInv == TypeOK /\ DestinationInv

\* The invariant holds before the call.
LEMMA InitInv == Init => TransferInv
<1> SUFFICES ASSUME Init PROVE TransferInv
  OBVIOUS
<1>1. TypeOK
  BY InitType
<1>2. /\ prior \in Nat /\ sink = Old(prior) /\ pc = "call" /\ ret = "none"
      /\ bytes = 0
  BY TransferAssumption DEF Init
<1>3. Len(sink) = prior /\ \A i \in 1..prior : sink[i] = 0
  BY <1>2, OldSeq
<1>4. Delivered = 0
  BY <1>2, <1>3 DEF Delivered
<1>5. SinkIsPrefix
  BY <1>2, <1>3 DEF SinkIsPrefix
<1>6. LoopInv /\ OkCount /\ BoundedOvershoot
  BY <1>2, <1>3, <1>4 DEF LoopInv, OkCount, BoundedOvershoot
<1> QED
  BY <1>1, <1>5, <1>6 DEF TransferInv, DestinationInv

\* A step that writes nothing and opens nothing leaves the destination's
\* content, and what it says about it, as they were.
LEMMA SinkKept ==
  ASSUME SinkIsPrefix, UNCHANGED <<prior, sink>>
  PROVE  SinkIsPrefix' /\ Delivered' = Delivered
BY DEF SinkIsPrefix, Delivered

\* A call that gives up before or between two writes.
LEMMA GivesUp ==
  ASSUME TransferInv, NEW r \in ErrKinds, Return(r), UNCHANGED <<prior, sink>>
  PROVE  DestinationInv'
<1>1. SinkIsPrefix' /\ Delivered' = Delivered
  BY SinkKept DEF TransferInv, DestinationInv
<1>2. LoopInv'
  BY DEF TransferInv, DestinationInv, LoopInv, Return, ErrKinds
<1>3. OkCount'
  BY DEF OkCount, Return, ErrKinds
<1>4. BoundedOvershoot'
  BY <1>1 DEF TransferInv, DestinationInv, BoundedOvershoot, Return
<1> QED
  BY <1>1, <1>2, <1>3, <1>4 DEF DestinationInv

\* Opening the destination: an upload starts from no delivered byte.
LEMMA OpenSinkInv ==
  ASSUME TransferInv, OpenSink
  PROVE  DestinationInv'
<1>1. Delivered = 0 /\ bytes = 0 /\ prior \in Nat /\ Len(sink) \in Nat
  BY LenProperties DEF TransferInv, DestinationInv, LoopInv, OpenSink, TypeOK
<1>2. SinkIsPrefix' /\ Delivered' = 0 /\ prior' <= Len(sink')
  <2>1. CASE op = "create_file"
    <3>1. prior' = 0 /\ sink' = << >>
      BY <2>1 DEF OpenSink
    <3>2. Len(sink') = 0
      BY <3>1
    <3> QED
      BY <3>1, <3>2 DEF SinkIsPrefix, Delivered
  <2>2. CASE op # "create_file"
    <3>1. UNCHANGED <<prior, sink>>
      BY <2>2 DEF OpenSink
    <3> QED
      BY <1>1, <3>1, SinkKept DEF TransferInv, DestinationInv, LoopInv
  <2> QED
    BY <2>1, <2>2
<1>3. ret = "none"
  BY DEF TransferInv, DestinationInv, LoopInv, OpenSink
<1>4. bytes' = 0 /\ ret' = "none" /\ pc' = "loop"
      /\ transfer_size' = size' % UsizeMod
  BY <1>1, <1>3 DEF OpenSink, call
<1>5. LoopInv'
  BY <1>2, <1>4 DEF LoopInv
<1> QED
  BY <1>2, <1>4, <1>5 DEF DestinationInv, OkCount, BoundedOvershoot

\* A read fills the buffer with the source bytes that come next.
LEMMA ReadInv ==
  ASSUME TransferInv, ReadChunk
  PROVE  DestinationInv'
<1>1. PICK n \in ReadLengths : buffer' = Chunk(bytes, n)
  BY DEF ReadChunk
<1>2. bytes \in Nat /\ n \in Nat /\ n <= BufLen
  BY <1>1, TransferAssumption
  DEF ReadLengths, Least, TransferInv, DestinationInv, TypeOK
<1>3. Len(buffer') = n
  BY <1>1, <1>2, ChunkSeq
<1>4. SinkIsPrefix' /\ Delivered' = Delivered /\ Delivered = bytes
  BY SinkKept DEF TransferInv, DestinationInv, LoopInv, ReadChunk
<1>5. ret = "none" /\ ret' = "none"
  BY DEF TransferInv, DestinationInv, LoopInv, ReadChunk
<1>6. LoopInv'
  BY <1>1, <1>2, <1>3, <1>4, <1>5 DEF LoopInv, ReadChunk, More, TransferInv, DestinationInv, call
<1>7. BoundedOvershoot'
  BY <1>4 DEF BoundedOvershoot, TransferInv, DestinationInv, ReadChunk
<1> QED
  BY <1>4, <1>5, <1>6, <1>7 DEF DestinationInv, OkCount

\* A write, answered or not, adds k bytes of the chunk being copied: what
\* AppendSlice says of the new content keeps the counts right.
LEMMA WriteGrows ==
  ASSUME TransferInv, pc = "write", NEW k \in 0..(Len(buffer) - delta),
         UNCHANGED <<prior, transfer_size>>,
         Len(sink') = Len(sink) + k,
         \A i \in 1..Len(sink') : sink'[i] = IF i <= prior THEN 0 ELSE i - prior
  PROVE  /\ SinkIsPrefix'
         /\ Delivered' = bytes + delta + k
         /\ prior' <= Len(sink')
         /\ BoundedOvershoot'
<1>1. prior' = prior /\ transfer_size' = transfer_size
  OBVIOUS
<1>2. /\ Delivered = bytes + delta /\ bytes < transfer_size
      /\ Len(buffer) <= BufLen /\ prior <= Len(sink)
  BY DEF TransferInv, DestinationInv, LoopInv
<1>3. /\ bytes \in Nat /\ delta \in Nat /\ prior \in Nat /\ k \in Nat
      /\ Len(sink) \in Nat /\ Len(buffer) \in Nat
      /\ transfer_size \in Int /\ delta + k <= Len(buffer)
  BY LenProperties, TransferAssumption DEF TransferInv, TypeOK
<1>4. SinkIsPrefix'
  BY <1>1 DEF SinkIsPrefix
<1>5. Delivered' = bytes + delta + k /\ prior' <= Len(sink')
  BY <1>1, <1>2, <1>3 DEF Delivered
<1>6. bytes + delta + k <= transfer_size + BufLen - 1
  BY <1>2, <1>3, TransferAssumption
<1>7. BoundedOvershoot'
  BY <1>1, <1>5, <1>6 DEF BoundedOvershoot
<1> QED
  BY <1>4, <1>5, <1>7

\* Every step preserves the invariant.
LEMMA NextInv == TransferInv /\ [Next]_vars => TransferInv'
<1> SUFFICES ASSUME TransferInv, [Next]_vars PROVE TransferInv'
  OBVIOUS
<1>0. TypeOK'
  BY NextType DEF TransferInv, DestinationInv
<1> SUFFICES DestinationInv'
  BY <1>0 DEF TransferInv
<1>1. CASE NotConnected
  BY <1>1, GivesUp DEF NotConnected, ErrKinds
<1>2. CASE OpenSink
  BY <1>2, OpenSinkInv
<1>3. CASE OpenSinkFails
  <2>1. ASSUME Return("FileCreateDenied"), prior' = 0, sink' = << >>
        PROVE  DestinationInv'
    <3>1. Len(sink') = 0 /\ Delivered' = 0
      BY <2>1 DEF Delivered
    <3>2. ret' = "FileCreateDenied" /\ pc' = "done"
      BY <2>1 DEF Return
    <3>3. SinkIsPrefix' /\ BoundedOvershoot'
      BY <3>1 DEF SinkIsPrefix, BoundedOvershoot
    <3> QED
      BY <2>1, <3>1, <3>2, <3>3 DEF DestinationInv, LoopInv, OkCount
  <2>2. ASSUME NEW r \in {"FileCreateDenied", "CouldNotOpenFile"}, Return(r),
               UNCHANGED <<prior, sink>>
        PROVE  DestinationInv'
    BY <2>2, GivesUp DEF ErrKinds
  <2> QED
    BY <1>3, <2>1, <2>2 DEF OpenSinkFails
<1>4. CASE StatSource
  <2>1. SinkIsPrefix' /\ Delivered' = Delivered
    BY <1>4, SinkKept DEF TransferInv, DestinationInv, StatSource
  <2>2. Delivered = 0 /\ ret = "none" /\ bytes = 0
    BY <1>4 DEF TransferInv, DestinationInv, LoopInv, StatSource
  <2>3. LoopInv'
    BY <1>4, <2>1, <2>2 DEF TransferInv, DestinationInv, LoopInv, StatSource, call
  <2>4. OkCount' /\ BoundedOvershoot'
    BY <1>4, <2>1, <2>2 DEF OkCount, BoundedOvershoot, StatSource
  <2> QED
    BY <2>1, <2>3, <2>4 DEF DestinationInv
<1>5. CASE StatSourceFails
  BY <1>5, GivesUp DEF StatSourceFails, ErrKinds
<1>6. CASE OpenSource
  <2>1. SinkIsPrefix' /\ Delivered' = Delivered
    BY <1>6, SinkKept DEF TransferInv, DestinationInv, OpenSource
  <2>2. Delivered = 0 /\ ret = "none" /\ bytes = 0 /\ op = "open_file"
    BY <1>6 DEF TransferInv, DestinationInv, LoopInv, OpenSource
  <2>3. LoopInv'
    BY <1>6, <2>1, <2>2 DEF TransferInv, DestinationInv, LoopInv, OpenSource, call
  <2>4. OkCount' /\ BoundedOvershoot'
    BY <1>6, <2>1, <2>2 DEF OkCount, BoundedOvershoot, OpenSource
  <2> QED
    BY <2>1, <2>3, <2>4 DEF DestinationInv
<1>7. CASE OpenSourceFails
  BY <1>7, GivesUp DEF OpenSourceFails, ErrKinds
<1>8. CASE ReadChunk
  BY <1>8, ReadInv
<1>9. CASE ReadFails
  BY <1>9, GivesUp DEF ReadFails, ErrKinds
<1>10. CASE WriteSlice
  <2>1. PICK k \in MinWrite..(Len(buffer) - delta) :
              /\ sink' = sink \o SubSeq(buffer, delta + 1, delta + k)
              /\ delta' = delta + k
    BY <1>10 DEF WriteSlice
  <2>2. k \in 0..(Len(buffer) - delta) /\ delta \in Nat /\ Len(buffer) \in Nat
        /\ bytes \in Nat
    BY <2>1, TransferAssumption, LenProperties DEF TransferInv, DestinationInv, TypeOK
  <2>3. /\ Len(sink') = Len(sink) + k
        /\ \A i \in 1..Len(sink') :
              sink'[i] = IF i <= prior THEN 0 ELSE i - prior
    BY <1>10, <2>1, <2>2, AppendSlice
    DEF TransferInv, DestinationInv, WriteSlice
  <2>4. /\ SinkIsPrefix'
        /\ Delivered' = bytes + delta + k
        /\ prior' <= Len(sink')
        /\ BoundedOvershoot'
    BY <1>10, <2>2, <2>3, WriteGrows DEF WriteSlice
  <2>5. ret' = "none" /\ ret = "none"
    BY <1>10 DEF TransferInv, DestinationInv, LoopInv, WriteSlice
  <2>6. Delivered' = bytes' + delta' /\ delta' <= Len(buffer')
    BY <1>10, <2>1, <2>2, <2>4 DEF WriteSlice
  <2>7. LoopInv'
    BY <1>10, <2>4, <2>5, <2>6 DEF TransferInv, DestinationInv, LoopInv, WriteSlice, call
  <2> QED
    BY <2>4, <2>5, <2>7 DEF DestinationInv, OkCount
<1>11. CASE WriteFails
  <2>1. PICK k \in 0..(Len(buffer) - delta) :
              sink' = sink \o SubSeq(buffer, delta + 1, delta + k)
    BY <1>11 DEF WriteFails
  <2>2. /\ ret' = "IoError" /\ pc' = "done"
        /\ UNCHANGED <<prior, transfer_size>>
    BY <1>11 DEF WriteFails, Return
  <2>3. /\ Len(sink') = Len(sink) + k
        /\ \A i \in 1..Len(sink') :
              sink'[i] = IF i <= prior THEN 0 ELSE i - prior
    BY <1>11, <2>1, AppendSlice DEF TransferInv, DestinationInv, WriteFails
  <2>4. SinkIsPrefix' /\ prior' <= Len(sink') /\ BoundedOvershoot'
    BY <1>11, <2>2, <2>3, WriteGrows DEF WriteFails
  <2>5. LoopInv'
    BY <2>2, <2>4 DEF LoopInv
  <2> QED
    BY <2>2, <2>4, <2>5 DEF DestinationInv, OkCount
<1>12. CASE CountChunk
  <2>1. SinkIsPrefix' /\ Delivered' = Delivered
    BY <1>12, SinkKept DEF TransferInv, DestinationInv, CountChunk
  <2>2. ret = "none" /\ ret' = "none" /\ pc' = "loop"
    BY <1>12 DEF TransferInv, DestinationInv, LoopInv, CountChunk
  <2>3. Delivered = bytes + delta /\ delta = Len(buffer)
    BY <1>12, LenProperties DEF TransferInv, DestinationInv, TypeOK, LoopInv, CountChunk
  <2>4. Delivered' = bytes'
    BY <1>12, <2>1, <2>3 DEF CountChunk
  <2>5. LoopInv'
    BY <1>12, <2>2, <2>4 DEF TransferInv, DestinationInv, LoopInv, CountChunk, call
  <2>6. BoundedOvershoot'
    BY <1>12, <2>1 DEF TransferInv, DestinationInv, BoundedOvershoot, CountChunk
  <2> QED
    BY <2>1, <2>2, <2>5, <2>6 DEF DestinationInv, OkCount
<1>13. CASE Finish
  <2>1. SinkIsPrefix' /\ Delivered' = Delivered
    BY <1>13, SinkKept DEF TransferInv, DestinationInv, Finish
  <2>2. /\ Delivered = bytes /\ bytes >= transfer_size
        /\ op # "open_file" => transfer_size = size % UsizeMod
    BY <1>13 DEF TransferInv, DestinationInv, LoopInv, Finish, More, TypeOK
  <2>3. op \in Ops /\ size \in Nat
    BY TransferAssumption DEF TransferInv, DestinationInv, TypeOK
  <2>4. /\ ret' = "Ok" /\ pc' = "done"
        /\ UNCHANGED <<op, size, bytes, transfer_size, prior, sink>>
    BY <1>13 DEF Finish, More, Return
  <2>5. LoopInv'
    BY <2>4 DEF TransferInv, DestinationInv, LoopInv
  <2>6. OkCount'
    BY <2>1, <2>2, <2>3, <2>4, CastRange DEF OkCount
  <2>7. BoundedOvershoot'
    BY <2>1, <2>4 DEF TransferInv, DestinationInv, BoundedOvershoot
  <2> QED
    BY <2>1, <2>5, <2>6, <2>7 DEF DestinationInv
<1>14. CASE SourceChanges
  <2>1. UNCHANGED <<call, prior, sink, transfer_size, buffer, delta, bytes, pc, ret>>
    BY <1>14 DEF SourceChanges
  <2> QED
    BY <2>1 DEF TransferInv, DestinationInv, SinkIsPrefix, LoopInv, OkCount, BoundedOvershoot,
                Delivered, call
<1>15. CASE UNCHANGED vars
  BY <1>15 DEF vars, TransferInv, DestinationInv, SinkIsPrefix, LoopInv, OkCount,
               BoundedOvershoot, Delivered
<1> QED
  BY <1>1, <1>2, <1>3, <1>4, <1>5, <1>6, <1>7, <1>8, <1>9, <1>10, <1>11,
     <1>12, <1>13, <1>14, <1>15
  DEF Next, Step, Opening, Copying, Failing, Terminating

\* Every reachable state satisfies the inductive invariant.
THEOREM TransferInvariant == Spec => []TransferInv
BY InitInv, NextInv, PTL DEF Spec

\* The types of the state, for every value of the constants.
THEOREM TypeCorrect == Spec => []TypeOK
<1>1. TransferInv => TypeOK
  BY DEF TransferInv, DestinationInv
<1> QED
  BY <1>1, TransferInvariant, PTL

\* Whatever the chunking and the errors, create_file, append_file and open_file
\* leave at the destination the old bytes and a gapless prefix of the source.
THEOREM SinkIntegrity == Spec => []SinkIsPrefix
<1>1. TransferInv => SinkIsPrefix
  BY DEF TransferInv, DestinationInv
<1> QED
  BY <1>1, TransferInvariant, PTL

\* The counters of the loops agree with the bytes moved, in every state.
THEOREM LoopCounters == Spec => []LoopInv
<1>1. TransferInv => LoopInv
  BY DEF TransferInv, DestinationInv
<1> QED
  BY <1>1, TransferInvariant, PTL

\* A success returns the number of bytes delivered, at least those announced.
THEOREM SuccessAccounting == Spec => []OkCount
<1>1. TransferInv => OkCount
  BY DEF TransferInv, DestinationInv
<1> QED
  BY <1>1, TransferInvariant, PTL

\* No transfer delivers a whole buffer more than announced.
THEOREM OvershootBounded == Spec => []BoundedOvershoot
<1>1. TransferInv => BoundedOvershoot
  BY DEF TransferInv, DestinationInv
<1> QED
  BY <1>1, TransferInvariant, PTL

-----------------------------------------------------------------------------
(* A transfer implements StreamCopy.                                       *)

\* A destination that grew by bytes in place extends the old one in the sense
\* of the abstract copy.
LEMMA GrowthExtends ==
  ASSUME TypeOK, SinkIsPrefix, prior <= Len(sink), prior' = prior,
         sink' \in Seq(Nat), Len(sink') >= Len(sink), SinkIsPrefix'
  PROVE  Copy!Extends
<1>1. /\ sink \in Seq(Nat) /\ Len(sink) \in Nat /\ Len(sink') \in Nat
      /\ prior \in Nat
  BY LenProperties DEF TypeOK
<1>2. \A i \in 1..Len(sink') :
         sink'[i] = IF i <= Len(sink) THEN sink[i] ELSE i - prior
  BY <1>1 DEF SinkIsPrefix
<1>3. sink' = [i \in 1..Len(sink') |->
                 IF i <= Len(sink) THEN sink[i] ELSE i - prior]
  BY <1>2, LenProperties
<1> QED
  BY <1>1, <1>3 DEF Copy!Extends

\* A call that gives up without touching the destination fails in the abstract.
LEMMA GiveUpFails ==
  ASSUME TransferInv, ret = "none", NEW r \in ErrKinds, Return(r),
         UNCHANGED <<prior, sink>>
  PROVE  Copy!Fail
<1>1. TypeOK /\ SinkIsPrefix /\ prior <= Len(sink) /\ SinkIsPrefix'
  BY SinkKept DEF TransferInv, DestinationInv, LoopInv
<1>2. sink' \in Seq(Nat) /\ Len(sink') >= Len(sink)
  BY <1>1, LenProperties DEF TypeOK
<1>3. Copy!Extends
  BY <1>1, <1>2, GrowthExtends
<1>4. ret' = r /\ transfer_size' = transfer_size
  BY DEF Return
<1> QED
  BY <1>3, <1>4 DEF Copy!Fail, ErrKinds

\* The initial states map to initial states.
LEMMA InitCopy == Init => Copy!Init
BY TransferAssumption DEF Init, Copy!Init, Old, ErrKinds

\* Every step of a transfer is a step of the abstract copy or a stutter.
LEMMA NextCopy ==
  ASSUME TransferInv, TransferInv', [Next]_vars
  PROVE  [Copy!Next]_(Copy!vars)
<1>0. /\ TypeOK /\ SinkIsPrefix /\ LoopInv /\ prior <= Len(sink)
      /\ TypeOK' /\ SinkIsPrefix' /\ LoopInv'
      /\ sink' \in Seq(Nat)
      /\ ret = "none" <=> pc # "done"
  BY DEF TransferInv, DestinationInv, LoopInv, TypeOK
<1>1. CASE NotConnected
  BY <1>0, <1>1, GiveUpFails DEF NotConnected, ErrKinds, Copy!Next
<1>2. CASE OpenSink
  <2>1. Len(sink) = prior
    BY <1>0, <1>2, LenProperties DEF OpenSink, LoopInv, Delivered, TypeOK
  <2>2. transfer_size' \in Nat
    BY <1>0, TransferAssumption DEF TypeOK
  <2>3. \/ prior' = 0 /\ sink' = << >>
        \/ prior' = prior /\ sink' = sink
    BY <1>2 DEF OpenSink
  <2>4. ret = "none" /\ ret' = "none" /\ pc # "done"
    BY <1>0, <1>2 DEF OpenSink
  <2>5. Copy!Open
    BY <2>1, <2>2, <2>3, <2>4 DEF Copy!Open, Copy!Truncates, ErrKinds
  <2> QED
    BY <2>5 DEF Copy!Next
<1>3. CASE OpenSinkFails
  <2>1. ret = "none" /\ Len(sink) = prior
    BY <1>0, <1>3, LenProperties DEF OpenSinkFails, LoopInv, Delivered, TypeOK
  <2>2. ASSUME Return("FileCreateDenied"), prior' = 0, sink' = << >>
        PROVE  Copy!Fail
    BY <2>1, <2>2 DEF Copy!Fail, Copy!Truncates, Return, ErrKinds
  <2>3. ASSUME NEW r \in {"FileCreateDenied", "CouldNotOpenFile"}, Return(r),
               UNCHANGED <<prior, sink>>
        PROVE  Copy!Fail
    BY <2>1, <2>3, GiveUpFails DEF ErrKinds
  <2> QED
    BY <1>3, <2>2, <2>3 DEF OpenSinkFails, Copy!Next
<1>4. CASE StatSource
  <2>1. Len(sink) = prior /\ ret = "none" /\ ret' = "none"
    BY <1>0, <1>4, LenProperties DEF StatSource, LoopInv, Delivered, TypeOK
  <2>2. transfer_size' \in Nat
    BY <1>0, TransferAssumption DEF TypeOK
  <2>3. Copy!Open
    BY <1>4, <2>1, <2>2 DEF StatSource, Copy!Open, ErrKinds
  <2> QED
    BY <2>3 DEF Copy!Next
<1>5. CASE StatSourceFails
  BY <1>0, <1>5, GiveUpFails DEF StatSourceFails, ErrKinds, Copy!Next
<1>6. CASE OpenSource
  BY <1>0, <1>6 DEF OpenSource, Copy!vars, ErrKinds
<1>7. CASE OpenSourceFails
  BY <1>0, <1>7, GiveUpFails DEF OpenSourceFails, ErrKinds, Copy!Next
<1>8. CASE ReadChunk
  BY <1>0, <1>8 DEF ReadChunk, More, Copy!vars, ErrKinds
<1>9. CASE ReadFails
  BY <1>0, <1>9, GiveUpFails DEF ReadFails, ErrKinds, Copy!Next
<1>10. CASE WriteSlice
  <2>1. PICK k \in MinWrite..(Len(buffer) - delta) :
              sink' = sink \o SubSeq(buffer, delta + 1, delta + k)
    BY <1>10 DEF WriteSlice
  <2>2. k \in 0..(Len(buffer) - delta)
    BY <1>0, <2>1, TransferAssumption, LenProperties, SMTT(60) DEF TypeOK
  <2>3. Len(sink') = Len(sink) + k
    BY <1>0, <1>10, <2>1, <2>2, AppendSlice DEF WriteSlice
  <2>4. Len(sink') >= Len(sink)
    BY <1>0, <2>2, <2>3, LenProperties DEF TypeOK
  <2>5. Copy!Extends
    BY <1>0, <1>10, <2>4, GrowthExtends DEF WriteSlice
  <2>6. Copy!Put
    BY <1>0, <1>10, <2>5 DEF WriteSlice, Copy!Put, ErrKinds
  <2> QED
    BY <2>6 DEF Copy!Next
<1>11. CASE WriteFails
  <2>1. PICK k \in 0..(Len(buffer) - delta) :
              sink' = sink \o SubSeq(buffer, delta + 1, delta + k)
    BY <1>11 DEF WriteFails
  <2>2. Len(sink') = Len(sink) + k
    BY <1>0, <1>11, <2>1, AppendSlice DEF WriteFails
  <2>3. Len(sink') >= Len(sink)
    BY <1>0, <2>1, <2>2, LenProperties DEF TypeOK
  <2>4. Copy!Extends
    BY <1>0, <1>11, <2>3, GrowthExtends DEF WriteFails
  <2>5. ret = "none" /\ ret' = "IoError" /\ transfer_size' = transfer_size
    BY <1>0, <1>11 DEF WriteFails, Return
  <2>6. Copy!Fail
    BY <2>4, <2>5 DEF Copy!Fail, ErrKinds
  <2> QED
    BY <2>6 DEF Copy!Next
<1>12. CASE CountChunk
  BY <1>0, <1>12 DEF CountChunk, Copy!vars, ErrKinds
<1>13. CASE Finish
  <2>1. ret = "none" /\ ret' = "Ok"
        /\ UNCHANGED <<bytes, transfer_size, prior, sink>>
    BY <1>0, <1>13 DEF Finish, More, Return
  <2>2. bytes = Len(sink) - prior /\ bytes >= transfer_size
    BY <1>0, <1>13 DEF Finish, More, LoopInv, Delivered, TypeOK
  <2>3. Copy!Succeed
    BY <2>1, <2>2 DEF Copy!Succeed, ErrKinds
  <2> QED
    BY <2>3 DEF Copy!Next
<1>14. CASE SourceChanges
  BY <1>14 DEF SourceChanges, Copy!vars
<1>15. CASE UNCHANGED vars
  BY <1>15 DEF vars, Copy!vars
<1> QED
  BY <1>1, <1>2, <1>3, <1>4, <1>5, <1>6, <1>7, <1>8, <1>9, <1>10, <1>11,
     <1>12, <1>13, <1>14, <1>15
  DEF Next, Step, Opening, Copying, Failing, Terminating

\* Every behaviour of a transfer, seen without its buffer and its loops, is a
\* behaviour of the abstract copy.
THEOREM TransferRefinesCopy == Spec => ImplementsCopy
<1>1. TransferInv /\ TransferInv' /\ [Next]_vars => [Copy!Next]_(Copy!vars)
  BY NextCopy
<1> QED
  BY <1>1, InitCopy, TransferInvariant, PTL DEF Spec, ImplementsCopy, Copy!Spec

=============================================================================
