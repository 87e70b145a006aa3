---------------------------- MODULE ChunkerProofs ----------------------------
(***************************************************************************)
(* Proofs about Chunker, for every alphabet, width of the hash, window,    *)
(* table, average size, stream and length of a read.                       *)
(***************************************************************************)
EXTENDS Chunker, SequenceTheorems, FiniteSetTheorems, TLAPS

(* What NothingLost needs to be inductive: the read is the part of the     *)
(* stream before pos, and where Split is in its loop tells what is left.   *)
DataIsRead ==
  /\ Len(data) <= pos
  /\ data = SubSeq(stream, pos - Len(data) + 1, pos)
  /\ offset <= pos - Len(data)

LoopState ==
  /\ err = "EOF" => pos = Len(stream)
  /\ pc \in {"read", "last", "done"} => data = <<>>
  /\ pc \in {"last", "done"} => err = "EOF"
  /\ pc = "done" => chunkBuf = <<>>

SplitInv == TypeOK /\ NothingLost /\ DataIsRead /\ LoopState
-----------------------------------------------------------------------------
(* Hashes stay within their bits. *)

LEMMA HashType ==
  ASSUME NEW x \in SUBSET Bits, NEW y \in SUBSET Bits
  PROVE  Xor(x, y) \in SUBSET Bits /\ RotateLeft(x, 1) \in SUBSET Bits
<1>1. ASSUME NEW i \in Bits PROVE (i + 1) % Width \in Bits
  BY <1>1, ChunkerAssumption DEF Bits
<1> QED
  BY <1>1 DEF Xor, RotateLeft

LEMMA RolledType == TypeOK /\ data # <<>> => Rolled \in SUBSET Bits /\ Idx \in 0 .. windowSize - 1
<1> SUFFICES ASSUME TypeOK, data # <<>>
             PROVE  Rolled \in SUBSET Bits /\ Idx \in 0 .. windowSize - 1
  OBVIOUS
<1>1. Idx \in 0 .. windowSize - 1
  BY ChunkerAssumption DEF TypeOK, Idx
<1>2. window[Idx] \in Byte /\ Head(data) \in Byte
  BY <1>1, HeadTailProperties DEF TypeOK
<1>3. buzTable[window[Idx]] \in SUBSET Bits /\ buzTable[Head(data)] \in SUBSET Bits
  BY <1>2, ChunkerAssumption
<1>4. RotateLeft(h, 1) \in SUBSET Bits
  BY HashType DEF TypeOK
<1>5. Xor(RotateLeft(h, 1), buzTable[window[Idx]]) \in SUBSET Bits
  BY <1>3, <1>4, HashType
<1> QED
  BY <1>1, <1>3, <1>5, HashType DEF Rolled

LEMMA TypeInit == Init => TypeOK
BY ChunkerAssumption DEF Init, TypeOK

LEMMA StreamType == TypeOK => stream \in Seq(Byte) /\ Len(stream) \in Nat
BY ChunkerAssumption, LenProperties DEF TypeOK

LEMMA FlushType == TypeOK /\ Flush => TypeOK'
<1> SUFFICES ASSUME TypeOK, Flush PROVE TypeOK'
  OBVIOUS
<1>1. Len(chunkBuf) \in Nat
  BY LenProperties DEF TypeOK
<1>2. [offset |-> offset, data |-> chunkBuf] \in [offset : Nat, data : Seq(Byte)]
  BY DEF TypeOK
<1>3. chunks' \in Seq([offset : Nat, data : Seq(Byte)])
  <2>1. CASE chunks' = Append(chunks, [offset |-> offset, data |-> chunkBuf])
    BY <2>1, <1>2, AppendProperties DEF TypeOK
  <2>2. CASE UNCHANGED chunks
    BY <2>2 DEF TypeOK
  <2> QED
    BY <2>1, <2>2 DEF Flush
<1>4. offset' \in Nat /\ chunkBuf' \in Seq(Byte) /\ pc' \in {"scan", "done", "failed"}
  <2>1. <<>> \in Seq(Byte)
    BY EmptySeq
  <2>2. CASE /\ offset' = offset + Len(chunkBuf) /\ chunkBuf' = <<>>
             /\ pc' = IF pc = "flush" THEN "scan" ELSE "done"
    BY <1>1, <2>1, <2>2 DEF TypeOK
  <2>3. CASE pc' = "failed" /\ UNCHANGED <<offset, chunkBuf>>
    BY <2>3 DEF TypeOK
  <2> QED
    BY <2>2, <2>3 DEF Flush
<1>5. UNCHANGED <<avg, h, window, filled, chunkSize, stream, pos, data, err>>
  BY DEF Flush, scanner, reader
<1> QED
  BY <1>3, <1>4, <1>5 DEF TypeOK

LEMMA ReadType == TypeOK /\ Read => TypeOK'
<1> SUFFICES ASSUME TypeOK, Read PROVE TypeOK'
  OBVIOUS
<1>1. Left \in Nat /\ pos + Left = Len(stream)
  BY StreamType DEF TypeOK, Left
<1>2. PICK n \in 0 .. (IF MaxRead < Left THEN MaxRead ELSE Left), e \in {"nil", "EOF", "error"} :
        data' = SubSeq(stream, pos + 1, pos + n) /\ pos' = pos + n /\ err' = e
  BY DEF Read
<1>3. n \in Nat /\ n <= Left
  BY <1>1, ChunkerAssumption
<1>4. pos' \in 0 .. Len(stream)
  BY <1>1, <1>2, <1>3, StreamType DEF TypeOK
<1>5. data' \in Seq(Byte)
  <2>1. \A i \in pos + 1 .. pos + n : stream[i] \in Byte
    BY <1>1, <1>3, StreamType, ElementOfSeq DEF TypeOK
  <2> QED
    BY <1>2, <1>3, <2>1, SubSeqProperties DEF TypeOK
<1> QED
  BY <1>2, <1>4, <1>5 DEF Read, TypeOK, scanner

(* What a byte does to the read and to chunkBuf.                           *)
LEMMA ByteType ==
  ASSUME TypeOK, data # <<>>
  PROVE  /\ Head(data) \in Byte /\ Tail(data) \in Seq(Byte)
         /\ Append(chunkBuf, Head(data)) \in Seq(Byte)
BY HeadTailProperties, AppendProperties DEF TypeOK

LEMMA TypeNext == TypeOK /\ [Next]_vars => TypeOK'
<1> SUFFICES ASSUME TypeOK, [Next]_vars PROVE TypeOK'
  OBVIOUS
<1>1. CASE Fill
  <2>1. filled \in 0 .. windowSize - 1 /\ filled + 1 \in 0 .. windowSize
    BY <1>1, ChunkerAssumption DEF Fill, TypeOK
  <2>2. buzTable[Head(data)] \in SUBSET Bits /\ RotateLeft(h, 1) \in SUBSET Bits
    BY <1>1, ByteType, HashType, ChunkerAssumption DEF Fill, Handle, TypeOK
  <2>3. h' \in SUBSET Bits
    BY <1>1, <2>2, HashType DEF Fill
  <2>4. window' \in [0 .. windowSize - 1 -> Byte]
    BY <1>1, <2>1, ByteType DEF Fill, Handle, TypeOK
  <2> QED
    BY <1>1, <2>1, <2>3, <2>4, ByteType DEF Fill, Handle, TypeOK
<1>2. CASE Roll
  <2>1. window' \in [0 .. windowSize - 1 -> Byte] /\ h' \in SUBSET Bits
    BY <1>2, RolledType, ByteType DEF Roll, Handle, TypeOK
  <2> QED
    BY <1>2, <2>1, ByteType DEF Roll, Handle, TypeOK
<1>3. CASE Boundary
  <2>1. window' \in [0 .. windowSize - 1 -> Byte]
    BY <1>3, RolledType, ByteType DEF Boundary, TypeOK
  <2> QED
    BY <1>3, <2>1, ByteType, ChunkerAssumption DEF Boundary, TypeOK
<1>4. CASE Flush
  BY <1>4, FlushType
<1>5. CASE FlushNothing
  BY <1>5 DEF FlushNothing, TypeOK, scanner, reader
<1>6. CASE Read
  BY <1>6, ReadType
<1>7. CASE ReadHandled
  BY <1>7 DEF ReadHandled, AfterRead, TypeOK, scanner, reader
<1>8. CASE UNCHANGED vars
  BY <1>8 DEF vars, TypeOK, scanner, reader
<1> QED
  BY <1>1, <1>2, <1>3, <1>4, <1>5, <1>6, <1>7, <1>8 DEF Next, Over

(* The window is always full of bytes where the code reads it and a hash   *)
(* has no bit beyond its width, whatever the table and the reads are.      *)
THEOREM TypeCorrect == Spec => []TypeOK
BY TypeInit, TypeNext, PTL DEF Spec
-----------------------------------------------------------------------------
(* Lengths and pieces of the stream. *)

LEMMA Lengths ==
  ASSUME TypeOK
  PROVE  /\ stream \in Seq(Byte) /\ Len(stream) \in Nat
         /\ Len(data) \in Nat /\ Len(chunkBuf) \in Nat /\ Len(chunks) \in Nat
         /\ pos \in Nat /\ pos <= Len(stream) /\ offset \in Nat
         /\ data # <<>> => Len(data) > 0
BY StreamType, LenProperties, EmptySeq DEF TypeOK

(* A piece has the length of its bounds.                                   *)
LEMMA PieceLength ==
  ASSUME NEW s \in Seq(Byte), NEW m \in Nat, NEW n \in Nat, m <= n, n <= Len(s)
  PROVE  SubSeq(s, m + 1, n) \in Seq(Byte) /\ Len(SubSeq(s, m + 1, n)) = n - m
<1>1. \A i \in m + 1 .. n : s[i] \in Byte
  BY ElementOfSeq, LenProperties
<1> QED
  BY <1>1, SubSeqProperties, LenProperties

(* A byte goes from the piece after it to the piece before it.             *)
LEMMA MoveByte ==
  ASSUME NEW s \in Seq(Byte), NEW m \in Nat, NEW k \in Nat, NEW n \in Nat,
         m <= k, k < n, n <= Len(s)
  PROVE  /\ Append(SubSeq(s, m + 1, k), Head(SubSeq(s, k + 1, n))) = SubSeq(s, m + 1, k + 1)
         /\ Tail(SubSeq(s, k + 1, n)) = SubSeq(s, k + 2, n)
<1>1. Len(s) \in Nat
  BY LenProperties
<1>2. /\ Head(SubSeq(s, k + 1, n)) = s[k + 1]
      /\ Tail(SubSeq(s, k + 1, n)) = SubSeq(s, k + 2, n)
  <2>1. k + 1 \in 1 .. Len(s) /\ n \in k + 1 .. Len(s) /\ (k + 1) + 1 = k + 2
    BY <1>1
  <2> QED
    BY <2>1, HeadTailOfSubSeq
<1>3. SubSeq(s, m + 1, k + 1) = SubSeq(s, m + 1, k) \o <<s[k + 1]>>
  <2>1. m + 1 \in 1 .. Len(s) /\ k + 1 \in m + 1 .. Len(s) /\ (k + 1) - 1 = k
    BY <1>1
  <2> QED
    BY <2>1, SubSeqRecursiveSecond
<1>4. SubSeq(s, m + 1, k) \in Seq(Byte) /\ s[k + 1] \in Byte
  <2>1. k + 1 \in 1 .. Len(s) /\ k <= Len(s)
    BY <1>1
  <2> QED
    BY <2>1, PieceLength, ElementOfSeq
<1> QED
  BY <1>2, <1>3, <1>4, AppendIsConcat

LEMMA SplitInit == Init => SplitInv
<1> SUFFICES ASSUME Init PROVE SplitInv
  OBVIOUS
<1>1. TypeOK
  BY TypeInit
<1>2. Len(data) = 0 /\ Len(chunks) = 0 /\ pos = 0 /\ offset = 0
  BY EmptySeq DEF Init
<1>3. SubSeq(stream, 1, 0) = <<>>
  BY SubSeqEmpty
<1>4. NothingLost /\ DataIsRead
  BY <1>2, <1>3 DEF Init, NothingLost, DataIsRead
<1> QED
  BY <1>1, <1>4 DEF Init, LoopState, SplitInv

(* One byte of the read goes to chunkBuf, and nothing else moves.          *)
LEMMA ByteMoves ==
  ASSUME SplitInv, TypeOK', pc = "scan", pc' \in {"scan", "flush"}, data # <<>>,
         data' = Tail(data), chunkBuf' = Append(chunkBuf, Head(data)),
         UNCHANGED <<stream, pos, err, offset, chunks>>
  PROVE  SplitInv'
<1>1. Len(data') = Len(data) - 1
  BY HeadTailProperties DEF SplitInv, TypeOK
<1> DEFINE at == pos - Len(data)
<1>2. /\ at \in Nat /\ at < pos /\ pos <= Len(stream) /\ offset <= at /\ pos \in Nat
      /\ offset \in Nat /\ stream \in Seq(Byte)
  BY Lengths DEF SplitInv, DataIsRead
<1>3. data = SubSeq(stream, at + 1, pos) /\ chunkBuf = SubSeq(stream, offset + 1, at)
  BY DEF SplitInv, DataIsRead, NothingLost
<1> HIDE DEF at
<1>4. chunkBuf' = SubSeq(stream, offset + 1, at + 1) /\ data' = SubSeq(stream, at + 2, pos)
  BY <1>2, <1>3, MoveByte
<1>5. pos' - Len(data') = at + 1 /\ Len(data) \in Nat
  BY <1>1, <1>2, Lengths DEF at, SplitInv
<1>6. NothingLost'
  BY <1>4, <1>5 DEF SplitInv, NothingLost
<1>7. DataIsRead'
  BY <1>1, <1>2, <1>4, <1>5 DEF DataIsRead, SplitInv
<1> QED
  BY <1>6, <1>7 DEF SplitInv, LoopState

LEMMA FlushLosesNothing == SplitInv /\ Flush => SplitInv'
<1> SUFFICES ASSUME SplitInv, Flush PROVE SplitInv'
  OBVIOUS
<1>1. TypeOK'
  BY FlushType DEF SplitInv
<1>2. UNCHANGED <<stream, pos, data, err>>
  BY DEF Flush, reader
<1>3. CASE pc' = "failed" /\ UNCHANGED <<chunks, offset, chunkBuf>>
  BY <1>1, <1>2, <1>3 DEF SplitInv, NothingLost, DataIsRead, LoopState
<1>4. CASE /\ chunks' = Append(chunks, [offset |-> offset, data |-> chunkBuf])
           /\ offset' = offset + Len(chunkBuf) /\ chunkBuf' = <<>>
           /\ pc' = IF pc = "flush" THEN "scan" ELSE "done"
  <2> DEFINE c == [offset |-> offset, data |-> chunkBuf]
             at == pos - Len(data)
  <2>1. /\ at \in Nat /\ at <= pos /\ pos <= Len(stream) /\ offset <= at /\ pos \in Nat
        /\ offset \in Nat /\ stream \in Seq(Byte)
        /\ chunkBuf = SubSeq(stream, offset + 1, at)
    <3>1. chunkBuf = SubSeq(stream, offset + 1, at)
      BY DEF SplitInv, NothingLost
    <3>2. offset <= at /\ Len(data) <= pos
      BY DEF SplitInv, DataIsRead
    <3> QED
      BY <3>1, <3>2, Lengths DEF SplitInv
  <2>2. Len(chunkBuf) = at - offset /\ offset' = at
    <3> HIDE DEF at
    <3>1. Len(chunkBuf) = at - offset
      BY <2>1, PieceLength
    <3> QED
      BY <1>4, <2>1, <3>1
  <2>3. c \in [offset : Nat, data : Seq(Byte)]
    BY DEF SplitInv, TypeOK
  <2>4. /\ Len(chunks') = Len(chunks) + 1 /\ chunks'[Len(chunks) + 1] = c /\ chunks' # <<>>
        /\ \A i \in 1 .. Len(chunks) : chunks'[i] = chunks[i]
        /\ DOMAIN chunks' = 1 .. Len(chunks) + 1 /\ DOMAIN chunks = 1 .. Len(chunks)
    <3>1. chunks \in Seq([offset : Nat, data : Seq(Byte)])
      BY DEF SplitInv, TypeOK
    <3>2. chunks' = Append(chunks, c) /\ chunks' \in Seq([offset : Nat, data : Seq(Byte)])
      BY <1>1, <1>4 DEF TypeOK
    <3> DEFINE Chunk == [offset : Nat, data : Seq(Byte)]
    <3>3. chunks \in Seq(Chunk) /\ c \in Chunk
      BY <2>3, <3>1
    <3> HIDE DEF c, Chunk
    <3>4. /\ Len(Append(chunks, c)) = Len(chunks) + 1 /\ Append(chunks, c) # <<>>
          /\ Append(chunks, c)[Len(chunks) + 1] = c
          /\ \A i \in 1 .. Len(chunks) : Append(chunks, c)[i] = chunks[i]
      BY <3>3, AppendProperties
    <3>5. /\ DOMAIN chunks = 1 .. Len(chunks) /\ DOMAIN chunks' = 1 .. Len(chunks')
      BY <3>1, <3>2, LenProperties
    <3> QED
      BY <3>2, <3>4, <3>5
  <2>5. SubSeq(stream', offset' + 1, pos' - Len(data')) = <<>>
    BY <1>2, <2>1, <2>2, SubSeqEmpty
  <2>6. ASSUME NEW i \in DOMAIN chunks'
        PROVE  /\ chunks'[i].data # <<>>
               /\ chunks'[i].data = SubSeq(stream, chunks'[i].offset + 1,
                                           chunks'[i].offset + Len(chunks'[i].data))
               /\ chunks'[i].offset =
                    IF i = 1 THEN 0 ELSE chunks'[i - 1].offset + Len(chunks'[i - 1].data)
    <3>1. CASE i \in 1 .. Len(chunks)
      <4>1. i \in Nat /\ (i # 1 => i - 1 \in 1 .. Len(chunks)) /\ chunks'[i] = chunks[i]
        BY <2>4, <3>1, Lengths DEF SplitInv
      <4>2. i # 1 => chunks'[i - 1] = chunks[i - 1]
        BY <4>1, <2>4
      <4> QED
        BY <2>4, <3>1, <4>1, <4>2 DEF SplitInv, NothingLost
    <3>2. CASE i = Len(chunks) + 1
      <4>1. chunks'[i] = c /\ c.data # <<>>
        BY <2>4, <3>2 DEF Flush
      <4>2. c.data = SubSeq(stream, c.offset + 1, c.offset + Len(c.data))
        BY <2>1, <2>2
      <4>3. c.offset = IF i = 1 THEN 0 ELSE chunks'[i - 1].offset + Len(chunks'[i - 1].data)
        <5>1. CASE chunks = <<>>
          BY <3>2, <5>1, EmptySeq DEF SplitInv, NothingLost
        <5>2. CASE chunks # <<>>
          <6>1. Len(chunks) \in Nat \ {0}
            BY <5>2, EmptySeq DEF SplitInv, TypeOK
          <6>2. i - 1 = Len(chunks) /\ i # 1 /\ chunks'[i - 1] = chunks[Len(chunks)]
            BY <2>4, <3>2, <6>1
          <6> QED
            BY <5>2, <6>2 DEF SplitInv, NothingLost
        <5> QED
          BY <5>1, <5>2
      <4> QED
        BY <4>1, <4>2, <4>3
    <3> QED
      BY <2>4, <3>1, <3>2, Lengths DEF SplitInv
  <2>7. offset' = chunks'[Len(chunks')].offset + Len(chunks'[Len(chunks')].data)
    BY <1>4, <2>4
  <2>8. pc' = "done" => offset' = Len(stream)
    <3>1. pc' = "done" => data = <<>> /\ pos = Len(stream)
      BY <1>4 DEF Flush, SplitInv, LoopState
    <3> QED
      BY <3>1, <2>1, <2>2, EmptySeq
  <2>9. NothingLost'
    BY <1>2, <1>4, <2>4, <2>5, <2>6, <2>7, <2>8 DEF NothingLost
  <2>10. DataIsRead'
    BY <1>2, <2>1, <2>2 DEF SplitInv, DataIsRead
  <2>11. LoopState'
    BY <1>2, <1>4 DEF Flush, SplitInv, LoopState
  <2> QED
    BY <1>1, <2>9, <2>10, <2>11 DEF SplitInv
<1> QED
  BY <1>3, <1>4 DEF Flush

LEMMA ReadLosesNothing == SplitInv /\ Read => SplitInv'
<1> SUFFICES ASSUME SplitInv, Read PROVE SplitInv'
  OBVIOUS
<1>1. TypeOK'
  BY ReadType DEF SplitInv
<1>2. Left \in Nat /\ pos + Left = Len(stream) /\ pos \in Nat /\ stream \in Seq(Byte)
  BY Lengths DEF Left, SplitInv, TypeOK
<1>3. PICK n \in 0 .. (IF MaxRead < Left THEN MaxRead ELSE Left), e \in {"nil", "EOF", "error"} :
        /\ data' = SubSeq(stream, pos + 1, pos + n) /\ pos' = pos + n /\ err' = e
        /\ e = "EOF" => n = Left
  BY DEF Read
<1>4. n \in Nat /\ n <= Left
  BY <1>2, ChunkerAssumption
<1>5. Len(data') = n
  <2>1. pos + n \in Nat /\ pos <= pos + n /\ pos + n <= Len(stream)
    BY <1>2, <1>4
  <2> QED
    BY <1>2, <1>3, <1>4, <2>1, PieceLength
<1>6. data = <<>> /\ Len(data) = 0
  BY EmptySeq DEF Read, SplitInv, LoopState
<1>7. UNCHANGED <<stream, chunkBuf, offset, chunks>> /\ pc' = "scan"
  BY DEF Read
<1>8. pos' - Len(data') = pos /\ pos - Len(data) = pos
  BY <1>2, <1>3, <1>4, <1>5, <1>6
<1>9. NothingLost'
  <2>1. chunkBuf' = SubSeq(stream', offset' + 1, pos' - Len(data'))
    BY <1>7, <1>8 DEF SplitInv, NothingLost
  <2> QED
    BY <1>7, <2>1 DEF SplitInv, NothingLost
<1>10. DataIsRead'
  BY <1>2, <1>3, <1>4, <1>5, <1>6, <1>7, <1>8 DEF SplitInv, DataIsRead
<1>11. LoopState'
  BY <1>2, <1>3, <1>7 DEF LoopState
<1> QED
  BY <1>1, <1>9, <1>10, <1>11 DEF SplitInv

LEMMA SplitNext == SplitInv /\ [Next]_vars => SplitInv'
<1> SUFFICES ASSUME SplitInv, [Next]_vars PROVE SplitInv'
  OBVIOUS
<1>1. TypeOK'
  BY TypeNext DEF SplitInv
<1>2. CASE Fill
  BY <1>1, <1>2, ByteMoves DEF Fill, Handle
<1>3. CASE Roll
  BY <1>1, <1>3, ByteMoves DEF Roll, Handle
<1>4. CASE Boundary
  BY <1>1, <1>4, ByteMoves DEF Boundary
<1>5. CASE Flush
  BY <1>5, FlushLosesNothing
<1>6. CASE FlushNothing
  <2>1. UNCHANGED <<stream, pos, data, err, chunkBuf, offset, chunks>>
    BY <1>6 DEF FlushNothing, reader
  <2>2. pos = Len(stream) /\ data = <<>> /\ chunkBuf = <<>> /\ pc' = "done" /\ err = "EOF"
    BY <1>6 DEF FlushNothing, SplitInv, LoopState
  <2>3. offset = Len(stream)
    <3>1. /\ Len(data) = 0 /\ offset \in Nat /\ offset <= pos /\ pos \in Nat
          /\ stream \in Seq(Byte)
      BY <2>2, Lengths, EmptySeq DEF SplitInv, DataIsRead
    <3>2. chunkBuf = SubSeq(stream, offset + 1, pos - Len(data)) /\ pos - Len(data) = pos
      BY <3>1 DEF SplitInv, NothingLost
    <3>3. Len(SubSeq(stream, offset + 1, pos)) = pos - offset
      BY <2>2, <3>1, PieceLength
    <3>4. Len(chunkBuf) = pos - offset
      BY <3>2, <3>3
    <3> QED
      BY <2>2, <3>1, <3>4, EmptySeq
  <2> QED
    BY <1>1, <2>1, <2>2, <2>3 DEF SplitInv, NothingLost, DataIsRead, LoopState
<1>7. CASE Read
  BY <1>7, ReadLosesNothing
<1>8. CASE ReadHandled
  <2>1. UNCHANGED <<stream, pos, data, err, chunkBuf, offset, chunks>> /\ data = <<>>
    BY <1>8 DEF ReadHandled, reader
  <2>2. pc' = AfterRead
    BY <1>8 DEF ReadHandled
  <2> QED
    BY <1>1, <2>1, <2>2 DEF AfterRead, SplitInv, NothingLost, DataIsRead, LoopState, TypeOK
<1>9. CASE UNCHANGED vars
  BY <1>1, <1>9 DEF vars, reader, SplitInv, NothingLost, DataIsRead, LoopState
<1> QED
  BY <1>2, <1>3, <1>4, <1>5, <1>6, <1>7, <1>8, <1>9 DEF Next, Over

(* The chunks that Split hands to its callback lie end to end and are the  *)
(* stream, all of it once Split has succeeded, whatever the table says and *)
(* however the reader cuts the stream, ends it or fails.                   *)
THEOREM NothingIsLost == Spec => []NothingLost
<1>1. SplitInv => NothingLost
  BY DEF SplitInv
<1> QED
  BY <1>1, SplitInit, SplitNext, PTL DEF Spec
-----------------------------------------------------------------------------
(* Remainders. *)

(* A remainder is the only one there is.                                   *)
LEMMA DivisionResult ==
  ASSUME NEW q \in Int, NEW w \in Nat \ {0}, NEW r \in 0 .. w - 1
  PROVE  (w * q + r) % w = r
OBVIOUS

LEMMA Division ==
  ASSUME NEW x \in Int, NEW w \in Nat, w > 0
  PROVE  x = w * (x \div w) + (x % w)
OBVIOUS

LEMMA Divided ==
  ASSUME NEW x \in Int, NEW w \in Nat \ {0}
  PROVE  \E q \in Int, r \in 0 .. w - 1 : x = w * q + r
<1>1. x \div w \in Int
  OBVIOUS
<1>2. x % w \in 0 .. w - 1
  OBVIOUS
<1>3. x = w * (x \div w) + (x % w)
  BY Division
<1> QED
  BY <1>1, <1>2, <1>3

LEMMA TimesSubtracted ==
  ASSUME NEW x \in Int, NEW k \in Int, NEW w \in Nat \ {0}
  PROVE  (x - w * k) % w = x % w
<1>1. PICK q \in Int, r \in 0 .. w - 1 : x = w * q + r
  BY Divided
<1>2. x - w * k = w * (q - k) + r
  BY <1>1
<1>3. q - k \in Int
  OBVIOUS
<1>4. (w * (q - k) + r) % w = r
  BY <1>3, DivisionResult
<1>5. x % w = r
  BY <1>1, DivisionResult
<1> QED
  BY <1>2, <1>4, <1>5

(* A multiple does not count, and of a difference only the remainders do.  *)
LEMMA MultipleSubtracted ==
  ASSUME NEW x \in Int, NEW k \in Int, NEW w \in Nat \ {0}, k % w = 0
  PROVE  (x - k) % w = x % w
<1>1. PICK q \in Int, r \in 0 .. w - 1 : k = w * q + r
  BY Divided
<1>2. r = 0
  BY <1>1, DivisionResult
<1>3. k = w * q
  BY <1>1, <1>2
<1> QED
  BY <1>3, TimesSubtracted

(* Places less than a window apart are different places of it.             *)
LEMMA NearAreApart ==
  ASSUME NEW a \in Int, NEW b \in Int, NEW w \in Nat \ {0}, a > b, a - b < w
  PROVE  a % w # b % w
<1>1. PICK q \in Int, r \in 0 .. w - 1 : b = w * q + r
  BY Divided
<1>2. b % w = r
  BY <1>1, DivisionResult
<1>3. CASE r + (a - b) < w
  <2>1. a = w * q + (r + (a - b)) /\ r + (a - b) \in 0 .. w - 1
    BY <1>1, <1>3
  <2>2. a % w = r + (a - b)
    BY <2>1, DivisionResult
  <2> QED
    BY <1>2, <2>2
<1>4. CASE ~(r + (a - b) < w)
  <2> DEFINE s == r + (a - b) - w
  <2>1. s \in 0 .. w - 1 /\ q + 1 \in Int /\ s < r
    BY <1>4
  <2>2. a = w * (q + 1) + s
    BY <1>1
  <2> HIDE DEF s
  <2>3. (w * (q + 1) + s) % w = s
    BY <2>1, DivisionResult
  <2> QED
    BY <1>2, <2>1, <2>2, <2>3
<1> QED
  BY <1>3, <1>4

LEMMA LessSubtracted ==
  ASSUME NEW x \in Int, NEW d \in Int, NEW w \in Nat \ {0}
  PROVE  ((x % w) - d) % w = (x - d) % w
<1>1. PICK q \in Int, r \in 0 .. w - 1 : x = w * q + r
  BY Divided
<1>2. x % w = r
  BY <1>1, DivisionResult
<1>3. (x - d) - w * q = r - d /\ x - d \in Int
  BY <1>1
<1>4. ((x - d) - w * q) % w = (x - d) % w
  BY <1>3, TimesSubtracted
<1> QED
  BY <1>2, <1>3, <1>4
-----------------------------------------------------------------------------
(* The hash of a sequence of bytes, one byte later. *)

(* The bytes whose table entry, rotated by their distance from the last    *)
(* byte, has bit i: the hash has the bits for which they are odd in        *)
(* number.                                                                 *)
Contributes(s, i) == {j \in DOMAIN s : (i - (Len(s) - j)) % Width \in buzTable[s[j]]}

LEMMA OneAway ==
  ASSUME NEW x \in Int, NEW w \in Nat \ {0}
  PROVE  ((x % w) - 1) % w = (x - 1) % w /\ ((x % w) + 1) % w = (x + 1) % w
<1>1. ASSUME NEW d \in Int PROVE ((x % w) - d) % w = (x - d) % w
  BY LessSubtracted
<1>2. ASSUME NEW d \in Int, d = 1 PROVE ((x % w) - 1) % w = (x - 1) % w
  BY <1>1, <1>2
<1>3. ASSUME NEW d \in Int, d = -1 PROVE ((x % w) + 1) % w = (x + 1) % w
  <2>1. ((x % w) - d) % w = (x - d) % w
    BY <1>1
  <2>2. (x % w) - d = (x % w) + 1 /\ x - d = x + 1
    BY <1>3
  <2> QED
    BY <2>1, <2>2
<1>4. 1 \in Int /\ -1 \in Int
  OBVIOUS
<1> QED
  BY <1>2, <1>3, <1>4

LEMMA HashBit ==
  ASSUME NEW s, NEW i \in Bits
  PROVE  i \in HashOf(s) <=> Cardinality(Contributes(s, i)) % 2 = 1
BY DEF HashOf, Contributes

LEMMA HashIsBits == ASSUME NEW s PROVE HashOf(s) \in SUBSET Bits
BY DEF HashOf

(* A bit and the one below it, round the width.                            *)
LEMMA BelowBit ==
  ASSUME NEW i \in Bits
  PROVE  /\ i \in Int /\ i % Width = i /\ Width \in Nat \ {0}
         /\ (i - 1) % Width \in Bits
         /\ (((i - 1) % Width) + 1) % Width = i
<1>1. Width \in Nat \ {0} /\ i \in Int /\ i - 1 \in Int /\ i \in 0 .. Width - 1
  BY ChunkerAssumption DEF Bits
<1>2. i % Width = i /\ (i - 1) % Width \in 0 .. Width - 1
  BY <1>1
<1>3. (((i - 1) % Width) + 1) % Width = i
  <2> DEFINE y == i - 1
  <2>1. y \in Int /\ y + 1 = i
    BY <1>1
  <2> HIDE DEF y
  <2>2. ((y % Width) + 1) % Width = i
    BY <1>1, <1>2, <2>1, OneAway
  <2> QED
    BY <2>2 DEF y
<1> QED
  BY <1>1, <1>2, <1>3 DEF Bits

(* A rotation brings the bit below.                                        *)
LEMMA RotatedBit ==
  ASSUME NEW x \in SUBSET Bits, NEW i \in Bits
  PROVE  i \in RotateLeft(x, 1) <=> (i - 1) % Width \in x
<1>1. ASSUME (i - 1) % Width \in x PROVE i \in RotateLeft(x, 1)
  BY <1>1, BelowBit DEF RotateLeft
<1>2. ASSUME NEW m \in x, i = (m + 1) % Width PROVE (i - 1) % Width = m
  <2>1. m \in Bits
    OBVIOUS
  <2>2. Width \in Nat \ {0} /\ m \in Int /\ m + 1 \in Int /\ m % Width = m
    BY <2>1, BelowBit
  <2> DEFINE y == m + 1
  <2>3. y \in Int /\ y - 1 = m
    BY <2>2
  <2> HIDE DEF y
  <2>4. ((y % Width) - 1) % Width = m
    BY <2>2, <2>3, OneAway
  <2> QED
    BY <1>2, <2>4 DEF y
<1> QED
  BY <1>1, <1>2 DEF RotateLeft

LEMMA Parity ==
  ASSUME NEW n \in Nat
  PROVE  (n + 1) % 2 = 1 <=> ~(n % 2 = 1)
OBVIOUS

LEMMA ContributesFinite ==
  ASSUME NEW s \in Seq(Byte), NEW i
  PROVE  IsFiniteSet(Contributes(s, i)) /\ Cardinality(Contributes(s, i)) \in Nat
<1>1. Len(s) \in Nat /\ DOMAIN s = 1 .. Len(s)
  BY LenProperties
<1>2. IsFiniteSet(1 .. Len(s))
  BY <1>1, FS_Interval
<1>3. IsFiniteSet(Contributes(s, i))
  BY <1>1, <1>2, FS_Subset DEF Contributes
<1> QED
  BY <1>3, FS_CardinalityType

(* A byte at the end: the hash is rotated once and takes the entry of the  *)
(* byte in.                                                                *)
LEMMA HashOfOneMore ==
  ASSUME NEW s \in Seq(Byte), NEW b \in Byte
  PROVE  HashOf(Append(s, b)) = Xor(RotateLeft(HashOf(s), 1), buzTable[b])
<1> DEFINE t == Append(s, b)
           n == Len(s)
<1>1. /\ t \in Seq(Byte) /\ n \in Nat /\ Len(t) = n + 1
      /\ DOMAIN t = 1 .. n + 1 /\ DOMAIN s = 1 .. n
      /\ t[n + 1] = b /\ \A j \in 1 .. n : t[j] = s[j]
  BY AppendProperties, LenProperties
<1> HIDE DEF t, n
<1>2. ASSUME NEW i \in Bits
      PROVE  i \in HashOf(t) <=> i \in Xor(RotateLeft(HashOf(s), 1), buzTable[b])
  <2> DEFINE k == (i - 1) % Width
  <2>1. /\ i \in Int /\ i % Width = i /\ Width \in Nat \ {0} /\ k \in Bits
    BY BelowBit
  <2> HIDE DEF k
  <2>2. ASSUME NEW j \in 1 .. n
        PROVE  (i - (Len(t) - j)) % Width = (k - (n - j)) % Width
    <3>1. PICK x \in Int, d \in Int : x = i - 1 /\ d = n - j
      BY <1>1, <2>1
    <3>2. i - (Len(t) - j) = x - d
      BY <1>1, <2>1, <3>1
    <3>3. ((x % Width) - d) % Width = (x - d) % Width
      BY <2>1, LessSubtracted
    <3>4. k = x % Width
      BY <3>1 DEF k
    <3> QED
      BY <3>1, <3>2, <3>3, <3>4
  <2>3. (i - (Len(t) - (n + 1))) % Width = i
    <3>1. i - (Len(t) - (n + 1)) = i
      BY <1>1, <2>1
    <3> QED
      BY <2>1, <3>1
  <2>4. \A j \in 1 .. n : j \in Contributes(t, i) <=> j \in Contributes(s, k)
    <3>1. \A j \in 1 .. n : j \in DOMAIN t /\ j \in DOMAIN s
      BY <1>1
    <3> QED
      BY <1>1, <2>2, <3>1 DEF Contributes, n
  <2>5. n + 1 \in Contributes(t, i) <=> i \in buzTable[b]
    <3>1. n + 1 \in DOMAIN t
      BY <1>1
    <3> QED
      BY <1>1, <2>3, <3>1 DEF Contributes
  <2>6. Contributes(s, k) \subseteq 1 .. n /\ Contributes(t, i) \subseteq 1 .. n + 1
    BY <1>1 DEF Contributes
  <2>7. n + 1 \notin 1 .. n /\ \A j \in 1 .. n + 1 : j \in 1 .. n \/ j = n + 1
    BY <1>1
  <2>8. i \in buzTable[b] => Contributes(t, i) = Contributes(s, k) \union {n + 1}
    BY <2>4, <2>5, <2>6, <2>7, <1>1
  <2>9. i \notin buzTable[b] => Contributes(t, i) = Contributes(s, k)
    BY <2>4, <2>5, <2>6, <2>7, <1>1
  <2>10. i \in buzTable[b] => (i \in HashOf(t) <=> k \notin HashOf(s))
    <3>1. /\ IsFiniteSet(Contributes(s, k)) /\ Cardinality(Contributes(s, k)) \in Nat
          /\ n + 1 \notin Contributes(s, k)
      BY <2>6, <2>7, ContributesFinite
    <3>2. Cardinality(Contributes(s, k) \union {n + 1}) = Cardinality(Contributes(s, k)) + 1
      BY <3>1, FS_AddElement
    <3>3. i \in HashOf(t) <=> Cardinality(Contributes(t, i)) % 2 = 1
      BY HashBit
    <3>4. k \in HashOf(s) <=> Cardinality(Contributes(s, k)) % 2 = 1
      BY <2>1, HashBit
    <3> QED
      BY <2>8, <3>1, <3>2, <3>3, <3>4, Parity
  <2>11. i \notin buzTable[b] => (i \in HashOf(t) <=> k \in HashOf(s))
    BY <2>1, <2>9, HashBit
  <2>12. i \in RotateLeft(HashOf(s), 1) <=> k \in HashOf(s)
    BY RotatedBit, HashIsBits DEF k
  <2> QED
    BY <2>10, <2>11, <2>12 DEF Xor
<1>3. HashOf(t) \in SUBSET Bits /\ Xor(RotateLeft(HashOf(s), 1), buzTable[b]) \in SUBSET Bits
  BY HashIsBits, HashType, ChunkerAssumption
<1> QED
  BY <1>2, <1>3 DEF t

(* The first byte of a window of windowSize bytes: its entry, rotated      *)
(* windowSize times, is the entry itself, for windowSize is a multiple of  *)
(* Width.                                                                  *)
LEMMA HashWithoutTheFirst ==
  ASSUME NEW s \in Seq(Byte), Len(s) = windowSize
  PROVE  Xor(RotateLeft(HashOf(s), 1), buzTable[s[1]]) = RotateLeft(HashOf(Tail(s)), 1)
<1> DEFINE t == Tail(s)
           n == Len(s)
<1>1. n \in Nat \ {0} /\ n % Width = 0
  BY ChunkerAssumption DEF n
<1>2. /\ t \in Seq(Byte) /\ Len(t) = n - 1 /\ DOMAIN t = 1 .. n - 1 /\ DOMAIN s = 1 .. n
      /\ s[1] \in Byte /\ \A j \in 1 .. n - 1 : t[j] = s[j + 1]
  <2>1. s # <<>>
    BY <1>1, EmptySeq
  <2>2. /\ t \in Seq(Byte) /\ Len(t) = n - 1 /\ \A j \in 1 .. Len(t) : t[j] = s[j + 1]
    BY <2>1, HeadTailProperties
  <2>3. s[1] \in Byte
    BY <1>1, ElementOfSeq
  <2> QED
    BY <2>2, <2>3, LenProperties
<1> HIDE DEF t, n
<1>3. ASSUME NEW i \in Bits
      PROVE  (i \in Xor(RotateLeft(HashOf(s), 1), buzTable[s[1]])) <=> (i \in RotateLeft(HashOf(t), 1))
  <2> DEFINE k == (i - 1) % Width
  <2>1. i \in Int /\ i % Width = i /\ Width \in Nat \ {0} /\ k \in Bits /\ (k + 1) % Width = i
    BY BelowBit
  <2> HIDE DEF k
  <2>2. k \in Int
    BY <2>1, BelowBit
  <2>3. (k - (n - 1)) % Width = i
    <3>1. k - (n - 1) = (k + 1) - n /\ n \in Int
      BY <1>1, <2>2
    <3>2. PICK x \in Int : x = k + 1
      BY <2>2
    <3>3. (x - n) % Width = x % Width
      BY <1>1, <2>1, <3>1, MultipleSubtracted
    <3> QED
      BY <2>1, <3>1, <3>2, <3>3
  <2>4. 1 \in Contributes(s, k) <=> i \in buzTable[s[1]]
    <3>1. 1 \in DOMAIN s
      BY <1>1, <1>2
    <3> QED
      BY <2>3, <3>1 DEF Contributes, n
  <2>5. ASSUME NEW j \in 1 .. n - 1
        PROVE  j \in Contributes(t, k) <=> j + 1 \in Contributes(s, k)
    <3>1. j \in DOMAIN t /\ j + 1 \in DOMAIN s /\ k - (n - (j + 1)) = k - (Len(t) - j)
      BY <1>1, <1>2, <2>2
    <3> QED
      BY <1>2, <3>1 DEF Contributes, n
  <2> DEFINE Rest == Contributes(s, k) \ {1}
             f == [j \in Contributes(t, k) |-> j + 1]
  <2>6. Contributes(t, k) \subseteq 1 .. n - 1 /\ Contributes(s, k) \subseteq 1 .. n
    BY <1>2 DEF Contributes
  <2>7. f \in Bijection(Contributes(t, k), Rest)
    <3>1. \A j \in Contributes(t, k) : j \in Int /\ j + 1 \in Rest /\ f[j] = j + 1
      BY <1>1, <2>5, <2>6
    <3>2. \A j \in Rest : j - 1 \in Contributes(t, k) /\ j = (j - 1) + 1
      BY <1>1, <2>5, <2>6
    <3>3. f \in [Contributes(t, k) -> Rest]
      BY <3>1
    <3>4. \A a, b \in Contributes(t, k) : f[a] = f[b] => a = b
      BY <3>1
    <3>5. \A j \in Rest : \E a \in Contributes(t, k) : f[a] = j
      BY <3>1, <3>2
    <3> HIDE DEF f, Rest
    <3> QED
      BY <3>3, <3>4, <3>5 DEF Bijection, Injection, Surjection, IsInjective
  <2>8. /\ Cardinality(Rest) = Cardinality(Contributes(t, k)) /\ IsFiniteSet(Rest)
        /\ Cardinality(Contributes(t, k)) \in Nat
    <3>1. IsFiniteSet(Contributes(t, k)) /\ Cardinality(Contributes(t, k)) \in Nat
      BY <1>2, ContributesFinite
    <3>2. ExistsBijection(Contributes(t, k), Rest)
      BY <2>7 DEF ExistsBijection
    <3> HIDE DEF Rest, f
    <3> QED
      BY <3>1, <3>2, FS_Bijection
  <2>9. i \in buzTable[s[1]] => (k \in HashOf(s) <=> k \notin HashOf(t))
    <3>1. i \in buzTable[s[1]] => Contributes(s, k) = Rest \union {1}
      BY <2>4
    <3>2. Cardinality(Rest \union {1}) = Cardinality(Contributes(t, k)) + 1
      <4>1. 1 \notin Rest
        OBVIOUS
      <4> HIDE DEF Rest
      <4> QED
        BY <2>8, <4>1, FS_AddElement
    <3> HIDE DEF Rest
    <3> QED
      BY <2>1, <2>8, <3>1, <3>2, HashBit, Parity
  <2>10. i \notin buzTable[s[1]] => (k \in HashOf(s) <=> k \in HashOf(t))
    <3>1. i \notin buzTable[s[1]] => Contributes(s, k) = Rest
      BY <2>4
    <3> HIDE DEF Rest
    <3> QED
      BY <2>1, <2>8, <3>1, HashBit
  <2>11. /\ i \in RotateLeft(HashOf(s), 1) <=> k \in HashOf(s)
         /\ i \in RotateLeft(HashOf(t), 1) <=> k \in HashOf(t)
    BY RotatedBit, HashIsBits DEF k
  <2> QED
    BY <2>9, <2>10, <2>11 DEF Xor
<1>4. /\ RotateLeft(HashOf(t), 1) \in SUBSET Bits
      /\ Xor(RotateLeft(HashOf(s), 1), buzTable[s[1]]) \in SUBSET Bits
  BY <1>2, HashIsBits, HashType, ChunkerAssumption
<1> QED
  BY <1>3, <1>4 DEF t
-----------------------------------------------------------------------------
(* The window. *)

(* MayEnd for the average size a, which no step changes.                   *)
EndsAfter(a, s) ==
  /\ Len(s) > windowSize
  /\ \/ Len(s) >= a * 4
     \/ /\ Len(s) >= a \div 4
        /\ LET x == HashOf(LastOf(s, windowSize))
           IN (\E i \in {0, 1} : i \in x) /\ \A i \in Bits \ {0, 1} : 2^i < 2 * a => i \in x

(* The window holds the last bytes of s, each at its number in the chunk   *)
(* modulo windowSize.                                                      *)
WindowHolds(w, s) ==
  \A p \in 0 .. Len(s) - 1 : p >= Len(s) - windowSize => w[p % windowSize] = s[p + 1]

(* How many of the last bytes of s are in the window.                      *)
Filled(s) == IF Len(s) < windowSize THEN Len(s) ELSE windowSize

(* A chunk that began with s has not been cut too late.                    *)
NoEndIn(a, s) == \A m \in 1 .. Len(s) : ~EndsAfter(a, SubSeq(s, 1, m))

(* The whole of s ends a chunk, and no shorter beginning of it does.       *)
EndsOnlyHere(a, s) == \A m \in 1 .. Len(s) : EndsAfter(a, SubSeq(s, 1, m)) <=> m = Len(s)

(* What scan keeps of the chunk it is in. HashIsOfWindow alone is not      *)
(* inductive: the byte that a roll takes out of the hash is read from the  *)
(* window, which therefore has to hold what the chunk says.                *)
Scanned ==
  /\ chunkSize = Len(chunkBuf) /\ filled = Filled(chunkBuf)
  /\ h = HashOf(LastOf(chunkBuf, filled))
  /\ WindowHolds(window, chunkBuf)
  /\ NoEndIn(avg, chunkBuf)

WindowInv ==
  /\ TypeOK
  /\ pc \in {"read", "scan", "last"} => Scanned
  /\ pc = "flush" => chunkSize = 0 /\ filled = 0 /\ h = {} /\ EndsOnlyHere(avg, chunkBuf)

LEMMA MayEndIs == ASSUME NEW s PROVE MayEnd(s) <=> EndsAfter(avg, s)
BY DEF MayEnd, EndsAfter, chunkSizeMax, chunkSizeMin, BreakTest

(* The last n bytes.                                                       *)
LEMMA Ends ==
  ASSUME NEW s \in Seq(Byte), NEW n \in 0 .. Len(s)
  PROVE  /\ LastOf(s, n) \in Seq(Byte) /\ Len(LastOf(s, n)) = n
         /\ \A i \in 1 .. n : LastOf(s, n)[i] = s[Len(s) - n + i]
<1> DEFINE k == Len(s) - n
<1>1. Len(s) \in Nat /\ n \in Nat /\ k \in Nat /\ k <= Len(s) /\ Len(s) - k = n
  BY LenProperties
<1>2. LastOf(s, n) = SubSeq(s, k + 1, Len(s))
  BY DEF LastOf
<1> HIDE DEF k
<1>3. /\ SubSeq(s, k + 1, Len(s)) \in Seq(Byte) /\ Len(SubSeq(s, k + 1, Len(s))) = n
  BY <1>1, PieceLength
<1>4. \A i \in 1 .. n : SubSeq(s, k + 1, Len(s))[i] = s[k + i]
  <2>1. \A i \in k + 1 .. Len(s) : s[i] \in Byte
    BY <1>1, ElementOfSeq
  <2>2. \A i \in 1 .. Len(SubSeq(s, k + 1, Len(s))) : SubSeq(s, k + 1, Len(s))[i] = s[(k + 1) + i - 1]
    BY <1>1, <2>1, SubSeqProperties
  <2>3. \A i \in 1 .. n : (k + 1) + i - 1 = k + i
    BY <1>1
  <2> QED
    BY <1>3, <2>2, <2>3
<1> QED
  BY <1>2, <1>3, <1>4 DEF k

LEMMA Appended ==
  ASSUME NEW s \in Seq(Byte), NEW b \in Byte
  PROVE  /\ Append(s, b) \in Seq(Byte) /\ Len(Append(s, b)) = Len(s) + 1
         /\ Len(s) \in Nat
         /\ Append(s, b)[Len(s) + 1] = b
         /\ \A i \in 1 .. Len(s) : Append(s, b)[i] = s[i]
BY AppendProperties, LenProperties

(* While the window fills it grows by the byte; once full it slides.       *)
LEMMA LastGrows ==
  ASSUME NEW s \in Seq(Byte), NEW b \in Byte, NEW n \in 0 .. Len(s)
  PROVE  LastOf(Append(s, b), n + 1) = Append(LastOf(s, n), b)
<1> DEFINE t == Append(s, b)
           x == LastOf(t, n + 1)
           l == LastOf(s, n)
           y == Append(l, b)
<1>1. /\ t \in Seq(Byte) /\ Len(t) = Len(s) + 1 /\ Len(s) \in Nat
      /\ t[Len(s) + 1] = b /\ \A i \in 1 .. Len(s) : t[i] = s[i]
  BY Appended
<1> HIDE DEF t
<1>2. n \in Nat /\ n + 1 \in 0 .. Len(t)
  BY <1>1
<1>3. /\ x \in Seq(Byte) /\ Len(x) = n + 1
      /\ \A i \in 1 .. n + 1 : x[i] = t[Len(t) - (n + 1) + i]
  BY <1>1, <1>2, Ends
<1>4. /\ l \in Seq(Byte) /\ Len(l) = n /\ \A i \in 1 .. n : l[i] = s[Len(s) - n + i]
  BY Ends
<1> HIDE DEF x, l
<1>5. /\ y \in Seq(Byte) /\ Len(y) = n + 1 /\ y[n + 1] = b /\ \A i \in 1 .. n : y[i] = l[i]
  BY <1>4, Appended
<1> HIDE DEF y
<1>6. ASSUME NEW i \in 1 .. n + 1 PROVE x[i] = y[i]
  <2>1. x[i] = t[Len(s) - n + i] /\ Len(s) - n + i \in 1 .. Len(s) + 1
    <3>1. Len(t) - (n + 1) + i = Len(s) - n + i
      BY <1>1, <1>2
    <3>2. x[i] = t[Len(t) - (n + 1) + i]
      BY <1>3
    <3> QED
      BY <1>1, <1>2, <3>1, <3>2
  <2>2. CASE i = n + 1
    <3>1. Len(s) - n + i = Len(s) + 1
      BY <1>1, <1>2, <2>2
    <3> QED
      BY <1>1, <1>5, <2>1, <2>2, <3>1
  <2>3. CASE i \in 1 .. n
    <3>1. Len(s) - n + i \in 1 .. Len(s)
      BY <1>1, <1>2, <2>3
    <3> QED
      BY <1>1, <1>4, <1>5, <2>1, <2>3, <3>1
  <2> QED
    BY <1>2, <2>2, <2>3
<1>7. x = y
  BY <1>3, <1>5, <1>6, SeqEqual
<1> QED
  BY <1>7 DEF x, y, l, t

LEMMA LastSlides ==
  ASSUME NEW s \in Seq(Byte), NEW b \in Byte, NEW n \in 1 .. Len(s)
  PROVE  LastOf(Append(s, b), n) = Append(Tail(LastOf(s, n)), b)
<1> DEFINE k == n - 1
<1>1. k \in 0 .. Len(s) /\ k + 1 = n /\ n \in 0 .. Len(s) /\ Len(s) \in Nat /\ n \in Nat
  BY LenProperties
<1> HIDE DEF k
<1>2. LastOf(Append(s, b), n) = Append(LastOf(s, k), b)
  BY <1>1, LastGrows
<1> DEFINE x == LastOf(s, n)
           y == LastOf(s, k)
<1>3. /\ x \in Seq(Byte) /\ Len(x) = n /\ \A i \in 1 .. n : x[i] = s[Len(s) - n + i]
  BY <1>1, Ends
<1>4. /\ y \in Seq(Byte) /\ Len(y) = k /\ \A i \in 1 .. k : y[i] = s[Len(s) - k + i]
  BY <1>1, Ends
<1> HIDE DEF x, y
<1>5. /\ Tail(x) \in Seq(Byte) /\ Len(Tail(x)) = k /\ \A i \in 1 .. k : Tail(x)[i] = x[i + 1]
  <2>1. x # <<>>
    BY <1>1, <1>3, EmptySeq
  <2>2. /\ Tail(x) \in Seq(Byte) /\ Len(Tail(x)) = Len(x) - 1
        /\ \A i \in 1 .. Len(Tail(x)) : Tail(x)[i] = x[i + 1]
    BY <1>3, <2>1, HeadTailProperties
  <2>3. Len(x) - 1 = k
    BY <1>1, <1>3
  <2> QED
    BY <2>2, <2>3
<1>6. ASSUME NEW i \in 1 .. k PROVE Tail(x)[i] = y[i]
  <2>1. i + 1 \in 1 .. n /\ Len(s) - n + (i + 1) = Len(s) - k + i
    BY <1>1
  <2> QED
    BY <1>3, <1>4, <1>5, <2>1
<1>7. Tail(x) = y
  BY <1>4, <1>5, <1>6, SeqEqual
<1> QED
  BY <1>2, <1>7 DEF x, y

(* A byte more leaves the beginnings as they were.                         *)
LEMMA Prefixes ==
  ASSUME NEW s \in Seq(Byte), NEW b \in Byte
  PROVE  /\ \A m \in 1 .. Len(s) : SubSeq(Append(s, b), 1, m) = SubSeq(s, 1, m)
         /\ SubSeq(Append(s, b), 1, Len(s) + 1) = Append(s, b)
<1> DEFINE t == Append(s, b)
<1>1. /\ t \in Seq(Byte) /\ Len(t) = Len(s) + 1 /\ Len(s) \in Nat
      /\ \A i \in 1 .. Len(s) : t[i] = s[i]
  BY Appended
<1> HIDE DEF t
<1>2. ASSUME NEW u \in Seq(Byte), NEW m \in 0 .. Len(u)
      PROVE  /\ SubSeq(u, 1, m) \in Seq(Byte) /\ Len(SubSeq(u, 1, m)) = m
             /\ \A i \in 1 .. m : SubSeq(u, 1, m)[i] = u[i]
  <2>1. Len(u) \in Nat /\ m \in Nat /\ 0 <= m /\ m <= Len(u) /\ m - 0 = m /\ 0 + 1 = 1
    BY LenProperties
  <2>2. SubSeq(u, 1, m) \in Seq(Byte) /\ Len(SubSeq(u, 1, m)) = m
    BY <2>1, PieceLength
  <2>3. \A i \in 1 .. m : u[i] \in Byte
    BY <2>1, ElementOfSeq
  <2>4. \A i \in 1 .. Len(SubSeq(u, 1, m)) : SubSeq(u, 1, m)[i] = u[1 + i - 1]
    BY <2>1, <2>3, SubSeqProperties
  <2>5. \A i \in 1 .. m : 1 + i - 1 = i
    BY <2>1
  <2> QED
    BY <2>2, <2>4, <2>5
<1>3. ASSUME NEW m \in 1 .. Len(s) PROVE SubSeq(t, 1, m) = SubSeq(s, 1, m)
  <2> DEFINE x == SubSeq(t, 1, m)
             y == SubSeq(s, 1, m)
  <2>1. m \in 0 .. Len(t) /\ m \in 0 .. Len(s) /\ \A i \in 1 .. m : i \in 1 .. Len(s)
    BY <1>1
  <2>2. x \in Seq(Byte) /\ Len(x) = m /\ \A i \in 1 .. m : x[i] = t[i]
    BY <1>1, <1>2, <2>1
  <2>3. y \in Seq(Byte) /\ Len(y) = m /\ \A i \in 1 .. m : y[i] = s[i]
    BY <1>2, <2>1
  <2>4. \A i \in 1 .. m : x[i] = y[i]
    BY <1>1, <2>1, <2>2, <2>3
  <2> HIDE DEF x, y
  <2>5. x = y
    BY <2>2, <2>3, <2>4, SeqEqual
  <2> QED
    BY <2>5 DEF x, y
<1>4. SubSeq(t, 1, Len(s) + 1) = t
  <2> DEFINE x == SubSeq(t, 1, Len(t))
  <2>1. x \in Seq(Byte) /\ Len(x) = Len(t) /\ \A i \in 1 .. Len(t) : x[i] = t[i]
    BY <1>1, <1>2
  <2> HIDE DEF x
  <2>2. x = t
    BY <1>1, <2>1, SeqEqual
  <2> QED
    BY <1>1, <2>2 DEF x
<1> QED
  BY <1>3, <1>4 DEF t

(* The place that a byte is written to is that of the oldest, if the       *)
(* window is full, and of none, if it is not.                              *)
LEMMA WindowMoves ==
  ASSUME NEW s \in Seq(Byte), NEW b \in Byte, NEW w \in [0 .. windowSize - 1 -> Byte],
         WindowHolds(w, s)
  PROVE  WindowHolds([w EXCEPT ![Len(s) % windowSize] = b], Append(s, b))
<1> DEFINE t == Append(s, b)
           n == Len(s)
           v == [w EXCEPT ![n % windowSize] = b]
<1>1. /\ Len(t) = n + 1 /\ n \in Nat /\ t[n + 1] = b /\ \A i \in 1 .. n : t[i] = s[i]
      /\ windowSize \in Nat \ {0} /\ n % windowSize \in 0 .. windowSize - 1
  BY Appended, ChunkerAssumption
<1>2. /\ v[n % windowSize] = b
      /\ \A k \in 0 .. windowSize - 1 : k # n % windowSize => v[k] = w[k]
  BY <1>1
<1>3. \A p \in 0 .. n - 1 : p >= n - windowSize => w[p % windowSize] = s[p + 1]
  BY DEF WindowHolds
<1> HIDE DEF t, n, v
<1>4. ASSUME NEW p \in 0 .. Len(t) - 1, p >= Len(t) - windowSize
      PROVE  v[p % windowSize] = t[p + 1]
  <2>1. p \in Int /\ p \in 0 .. n /\ p >= n + 1 - windowSize
    BY <1>1, <1>4
  <2>2. CASE p = n
    BY <1>1, <1>2, <2>2
  <2>3. CASE p # n
    <3>1. p \in 0 .. n - 1 /\ p >= n - windowSize /\ n > p /\ n - p < windowSize /\ n \in Int
      BY <1>1, <2>1, <2>3
    <3>2. p % windowSize # n % windowSize
      BY <1>1, <2>1, <3>1, NearAreApart
    <3>3. p % windowSize \in 0 .. windowSize - 1
      BY <1>1, <2>1
    <3>4. v[p % windowSize] = s[p + 1]
      BY <1>2, <1>3, <3>1, <3>2, <3>3
    <3>5. p + 1 \in 1 .. n
      BY <1>1, <3>1
    <3> QED
      BY <1>1, <3>4, <3>5
  <2> QED
    BY <2>2, <2>3
<1>5. WindowHolds(v, t)
  BY <1>4 DEF WindowHolds
<1> QED
  BY <1>5 DEF v, t, n

(* The byte that a roll takes out is the first of the window.              *)
LEMMA OldestByte ==
  ASSUME NEW s \in Seq(Byte), Len(s) >= windowSize, NEW w, WindowHolds(w, s)
  PROVE  w[Len(s) % windowSize] = LastOf(s, windowSize)[1]
<1> DEFINE n == Len(s)
           p == n - windowSize
<1>1. n \in Nat /\ windowSize \in Nat \ {0} /\ windowSize \in Int /\ windowSize % windowSize = 0
  BY LenProperties, ChunkerAssumption
<1>2. p \in 0 .. n - 1 /\ p >= n - windowSize /\ p + 1 = n - windowSize + 1
  BY <1>1
<1>3. w[p % windowSize] = s[p + 1]
  BY <1>2 DEF WindowHolds
<1>4. p % windowSize = n % windowSize
  <2>1. n \in Int /\ windowSize \in Int /\ windowSize \in Nat \ {0} /\ windowSize % windowSize = 0
    BY <1>1
  <2>2. (n - windowSize) % windowSize = n % windowSize
    <3> HIDE DEF n
    <3> QED
      BY <2>1, MultipleSubtracted
  <2> QED
    BY <2>2
<1>5. LastOf(s, windowSize)[1] = s[n - windowSize + 1]
  BY <1>1, Ends
<1> QED
  BY <1>2, <1>3, <1>4, <1>5

(* A roll: the hash of the window one byte later.                          *)
LEMMA HashMoves ==
  ASSUME NEW s \in Seq(Byte), NEW b \in Byte, Len(s) >= windowSize
  PROVE  HashOf(LastOf(Append(s, b), windowSize)) =
           Xor(Xor(RotateLeft(HashOf(LastOf(s, windowSize)), 1), buzTable[LastOf(s, windowSize)[1]]),
               buzTable[b])
<1> DEFINE l == LastOf(s, windowSize)
<1>1. windowSize \in 1 .. Len(s) /\ windowSize \in 0 .. Len(s) /\ windowSize \in Nat \ {0}
  BY LenProperties, ChunkerAssumption
<1>2. l \in Seq(Byte) /\ Len(l) = windowSize
  BY <1>1, Ends
<1>3. LastOf(Append(s, b), windowSize) = Append(Tail(l), b)
  BY <1>1, LastSlides
<1> HIDE DEF l
<1>4. Tail(l) \in Seq(Byte)
  BY <1>1, <1>2, EmptySeq, HeadTailProperties
<1>5. HashOf(Append(Tail(l), b)) = Xor(RotateLeft(HashOf(Tail(l)), 1), buzTable[b])
  BY <1>4, HashOfOneMore
<1>6. Xor(RotateLeft(HashOf(l), 1), buzTable[l[1]]) = RotateLeft(HashOf(Tail(l)), 1)
  BY <1>2, HashWithoutTheFirst
<1> QED
  BY <1>3, <1>5, <1>6 DEF l

LEMMA HashGrows ==
  ASSUME NEW s \in Seq(Byte), NEW b \in Byte, NEW n \in 0 .. Len(s)
  PROVE  HashOf(LastOf(Append(s, b), n + 1)) = Xor(RotateLeft(HashOf(LastOf(s, n)), 1), buzTable[b])
<1>1. LastOf(s, n) \in Seq(Byte)
  BY Ends
<1> QED
  BY <1>1, LastGrows, HashOfOneMore

(* At the start of a chunk.                                                *)
LEMMA NoByteYet ==
  /\ HashOf(LastOf(<<>>, 0)) = {}
  /\ \A w : WindowHolds(w, <<>>)
  /\ \A a : NoEndIn(a, <<>>)
  /\ Filled(<<>>) = 0 /\ Len(<<>>) = 0
<1>1. Len(<<>>) = 0
  BY EmptySeq
<1>2. LastOf(<<>>, 0) = <<>>
  <2>1. LastOf(<<>>, 0) = SubSeq(<<>>, 1, 0)
    BY <1>1 DEF LastOf
  <2> QED
    BY <2>1, SubSeqEmpty
<1>3. HashOf(<<>>) = {}
  <2>1. ASSUME NEW i \in Bits PROVE i \notin HashOf(<<>>)
    <3>1. Contributes(<<>>, i) = {}
      BY DEF Contributes
    <3>2. Cardinality(Contributes(<<>>, i)) = 0
      BY <3>1, FS_EmptySet
    <3> QED
      BY <3>2, HashBit
  <2> QED
    BY <2>1, HashIsBits
<1>4. Filled(<<>>) = 0
  BY <1>1, ChunkerAssumption DEF Filled
<1>5. (\A w : WindowHolds(w, <<>>)) /\ \A a : NoEndIn(a, <<>>)
  BY <1>1 DEF WindowHolds, NoEndIn
<1> QED
  BY <1>1, <1>2, <1>3, <1>4, <1>5

(* A byte more: what ends and what does not.                               *)
LEMMA OneMorePrefix ==
  ASSUME NEW a, NEW s \in Seq(Byte), NEW b \in Byte, NoEndIn(a, s)
  PROVE  /\ EndsAfter(a, Append(s, b)) => EndsOnlyHere(a, Append(s, b))
         /\ ~EndsAfter(a, Append(s, b)) => NoEndIn(a, Append(s, b))
<1> DEFINE t == Append(s, b)
<1>1. Len(t) = Len(s) + 1 /\ Len(s) \in Nat
  BY Appended
<1>2. /\ \A m \in 1 .. Len(s) : SubSeq(t, 1, m) = SubSeq(s, 1, m)
      /\ SubSeq(t, 1, Len(s) + 1) = t
  BY Prefixes
<1> HIDE DEF t
<1>3. \A m \in 1 .. Len(s) : ~EndsAfter(a, SubSeq(t, 1, m))
  BY <1>2 DEF NoEndIn
<1>4. \A m \in 1 .. Len(t) : m = Len(t) \/ m \in 1 .. Len(s)
  BY <1>1
<1>5. Len(t) \notin 1 .. Len(s)
  BY <1>1
<1>6. EndsAfter(a, t) => EndsOnlyHere(a, t)
  BY <1>1, <1>2, <1>3, <1>4, <1>5 DEF EndsOnlyHere
<1>7. ~EndsAfter(a, t) => NoEndIn(a, t)
  BY <1>1, <1>2, <1>3, <1>4 DEF NoEndIn
<1> QED
  BY <1>6, <1>7 DEF t

LEMMA WindowInit == Init => WindowInv
<1> SUFFICES ASSUME Init PROVE WindowInv
  OBVIOUS
<1>1. TypeOK
  BY TypeInit
<1>2. chunkBuf = <<>> /\ h = {} /\ filled = 0 /\ chunkSize = 0 /\ pc = "read"
  BY DEF Init
<1>3. Scanned
  BY <1>2, NoByteYet DEF Scanned
<1> QED
  BY <1>1, <1>2, <1>3 DEF WindowInv

LEMMA FillScans == WindowInv /\ Fill => Scanned'
<1> SUFFICES ASSUME WindowInv, Fill PROVE Scanned'
  OBVIOUS
<1> DEFINE s == chunkBuf
           b == Head(data)
<1>1. /\ s \in Seq(Byte) /\ b \in Byte /\ window \in [0 .. windowSize - 1 -> Byte]
      /\ pc = "scan"
  BY ByteType DEF WindowInv, TypeOK, Fill, Handle
<1>2. Scanned
  BY <1>1 DEF WindowInv
<1>3. /\ chunkBuf' = Append(s, b) /\ chunkSize' = chunkSize + 1 /\ filled' = filled + 1
      /\ window' = [window EXCEPT ![filled] = b] /\ avg' = avg
      /\ h' = Xor(RotateLeft(h, 1), buzTable[b]) /\ filled < windowSize
  BY DEF Fill, Handle
<1> HIDE DEF s, b
<1>4. /\ chunkSize = Len(s) /\ filled = Filled(s) /\ h = HashOf(LastOf(s, filled))
      /\ WindowHolds(window, s) /\ NoEndIn(avg, s)
  BY <1>2 DEF Scanned, s
<1>5. Len(s) \in Nat /\ Len(Append(s, b)) = Len(s) + 1 /\ windowSize \in Nat \ {0}
  BY <1>1, Appended, ChunkerAssumption
<1>6. filled = Len(s) /\ Len(s) < windowSize /\ Len(s) % windowSize = Len(s) /\ filled \in 0 .. Len(s)
  BY <1>3, <1>4, <1>5 DEF Filled
<1>7. filled' = Filled(Append(s, b)) /\ chunkSize' = Len(Append(s, b))
  BY <1>3, <1>4, <1>5, <1>6 DEF Filled
<1>8. h' = HashOf(LastOf(Append(s, b), filled'))
  BY <1>1, <1>3, <1>4, <1>6, HashGrows
<1>9. WindowHolds(window', Append(s, b))
  BY <1>1, <1>3, <1>4, <1>6, WindowMoves
<1>10. NoEndIn(avg', Append(s, b))
  <2>1. ~EndsAfter(avg, Append(s, b))
    BY <1>5, <1>6 DEF EndsAfter
  <2> QED
    BY <1>1, <1>3, <1>4, <2>1, OneMorePrefix
<1> QED
  BY <1>3, <1>7, <1>8, <1>9, <1>10 DEF Scanned

(* What a roll computes, whether or not it finds a boundary.               *)
LEMMA RolledHash ==
  ASSUME WindowInv, pc = "scan", data # <<>>, filled = windowSize
  PROVE  LET s == Append(chunkBuf, Head(data))
         IN /\ Len(s) = chunkSize + 1 /\ Filled(s) = windowSize
            /\ Rolled = HashOf(LastOf(s, windowSize))
            /\ WindowHolds([window EXCEPT ![Idx] = Head(data)], s)
            /\ ShallBreak(Rolled, chunkSize + 1) <=> EndsAfter(avg, s)
            /\ EndsAfter(avg, s) => EndsOnlyHere(avg, s)
            /\ ~EndsAfter(avg, s) => NoEndIn(avg, s)
<1> DEFINE s == chunkBuf
           b == Head(data)
           t == Append(s, b)
<1>1. s \in Seq(Byte) /\ b \in Byte /\ window \in [0 .. windowSize - 1 -> Byte]
  BY ByteType DEF WindowInv, TypeOK
<1>2. Scanned
  BY DEF WindowInv
<1>3. /\ chunkSize = Len(s) /\ filled = Filled(s) /\ h = HashOf(LastOf(s, filled))
      /\ WindowHolds(window, s) /\ NoEndIn(avg, s)
  BY <1>2 DEF Scanned
<1>4. Idx = Len(s) % windowSize
  BY <1>3 DEF Idx
<1>5. Rolled = Xor(Xor(RotateLeft(HashOf(LastOf(s, windowSize)), 1), buzTable[window[Len(s) % windowSize]]),
                   buzTable[b])
  BY <1>3, <1>4 DEF Rolled
<1> HIDE DEF s, b
<1>6. Len(s) \in Nat /\ Len(t) = Len(s) + 1 /\ windowSize \in Nat \ {0}
  BY <1>1, Appended, ChunkerAssumption
<1>7. Len(s) >= windowSize
  BY <1>3, <1>6 DEF Filled
<1>8. window[Len(s) % windowSize] = LastOf(s, windowSize)[1]
  BY <1>1, <1>3, <1>7, OldestByte
<1>9. Rolled = HashOf(LastOf(t, windowSize))
  BY <1>1, <1>5, <1>7, <1>8, HashMoves
<1>10. Len(t) = chunkSize + 1 /\ Filled(t) = windowSize /\ Len(t) > windowSize
  BY <1>3, <1>6, <1>7 DEF Filled
<1>11. WindowHolds([window EXCEPT ![Idx] = b], t)
  BY <1>1, <1>3, <1>4, WindowMoves
<1>12. /\ EndsAfter(avg, t) => EndsOnlyHere(avg, t)
       /\ ~EndsAfter(avg, t) => NoEndIn(avg, t)
  BY <1>1, <1>3, OneMorePrefix
<1> HIDE DEF t
<1>13. ShallBreak(Rolled, chunkSize + 1) <=> EndsAfter(avg, t)
  BY <1>9, <1>10 DEF ShallBreak, EndsAfter, BreakTest, chunkSizeMin, chunkSizeMax
<1> QED
  BY <1>9, <1>10, <1>11, <1>12, <1>13 DEF t, s, b

LEMMA RollScans == WindowInv /\ Roll => Scanned'
<1> SUFFICES ASSUME WindowInv, Roll PROVE Scanned'
  OBVIOUS
<1> DEFINE t == Append(chunkBuf, Head(data))
<1>1. /\ chunkBuf' = t /\ chunkSize' = chunkSize + 1 /\ filled' = windowSize
      /\ window' = [window EXCEPT ![Idx] = Head(data)] /\ avg' = avg /\ h' = Rolled
      /\ ~ShallBreak(Rolled, chunkSize + 1)
      /\ filled = windowSize /\ pc = "scan" /\ data # <<>>
  BY DEF Roll, Handle
<1>2. /\ Len(t) = chunkSize + 1 /\ Filled(t) = windowSize /\ Rolled = HashOf(LastOf(t, windowSize))
      /\ WindowHolds([window EXCEPT ![Idx] = Head(data)], t)
      /\ ShallBreak(Rolled, chunkSize + 1) <=> EndsAfter(avg, t)
      /\ ~EndsAfter(avg, t) => NoEndIn(avg, t)
  BY <1>1, RolledHash
<1> HIDE DEF t
<1> QED
  BY <1>1, <1>2 DEF Scanned

LEMMA BoundaryEnds == WindowInv /\ Boundary => EndsOnlyHere(avg, chunkBuf)'
<1> SUFFICES ASSUME WindowInv, Boundary PROVE EndsOnlyHere(avg, chunkBuf)'
  OBVIOUS
<1> DEFINE t == Append(chunkBuf, Head(data))
<1>1. /\ chunkBuf' = t /\ avg' = avg /\ ShallBreak(Rolled, chunkSize + 1)
      /\ filled = windowSize /\ pc = "scan" /\ data # <<>>
  BY DEF Boundary
<1>2. /\ ShallBreak(Rolled, chunkSize + 1) <=> EndsAfter(avg, t)
      /\ EndsAfter(avg, t) => EndsOnlyHere(avg, t)
  BY <1>1, RolledHash
<1> HIDE DEF t
<1> QED
  BY <1>1, <1>2

LEMMA WindowNext == WindowInv /\ [Next]_vars => WindowInv'
<1> SUFFICES ASSUME WindowInv, [Next]_vars PROVE WindowInv'
  OBVIOUS
<1>1. TypeOK'
  BY TypeNext DEF WindowInv
<1>2. ASSUME UNCHANGED <<avg, h, window, filled, chunkSize, chunkBuf>>, Scanned PROVE Scanned'
  BY <1>2 DEF Scanned
<1>3. CASE Fill
  BY <1>1, <1>3, FillScans DEF WindowInv, Fill, Handle
<1>4. CASE Roll
  BY <1>1, <1>4, RollScans DEF WindowInv, Roll, Handle
<1>5. CASE Boundary
  <2>1. EndsOnlyHere(avg', chunkBuf')
    BY <1>5, BoundaryEnds
  <2>2. chunkSize' = 0 /\ filled' = 0 /\ h' = {} /\ pc' = "flush"
    BY <1>5 DEF Boundary
  <2> QED
    BY <1>1, <2>1, <2>2 DEF WindowInv
<1>6. CASE Flush
  <2>1. UNCHANGED <<avg, h, window, filled, chunkSize>>
    BY <1>6 DEF Flush, scanner
  <2>2. CASE pc' \in {"done", "failed"}
    BY <1>1, <2>2 DEF WindowInv
  <2>3. CASE pc' \notin {"done", "failed"}
    <3>1. pc = "flush" /\ pc' = "scan" /\ chunkBuf' = <<>>
      BY <1>6, <2>3 DEF Flush
    <3>2. chunkSize = 0 /\ filled = 0 /\ h = {}
      BY <3>1 DEF WindowInv
    <3>3. Scanned'
      BY <2>1, <3>1, <3>2, NoByteYet DEF Scanned
    <3> QED
      BY <1>1, <3>1, <3>3 DEF WindowInv
  <2> QED
    BY <2>2, <2>3
<1>7. CASE FlushNothing
  BY <1>1, <1>7 DEF WindowInv, FlushNothing
<1>8. CASE Read
  <2>1. UNCHANGED <<avg, h, window, filled, chunkSize, chunkBuf>> /\ pc = "read" /\ pc' = "scan"
    BY <1>8 DEF Read, scanner
  <2> QED
    BY <1>1, <1>2, <2>1 DEF WindowInv
<1>9. CASE ReadHandled
  <2>1. /\ UNCHANGED <<avg, h, window, filled, chunkSize, chunkBuf>> /\ pc = "scan"
        /\ pc' \in {"read", "last", "failed", "done"}
    BY <1>9 DEF ReadHandled, AfterRead, scanner
  <2> QED
    BY <1>1, <1>2, <2>1 DEF WindowInv
<1>10. CASE UNCHANGED vars
  <2>1. UNCHANGED <<avg, h, window, filled, chunkSize, chunkBuf, pc>>
    BY <1>10 DEF vars, scanner
  <2> QED
    BY <1>1, <1>2, <2>1 DEF WindowInv
<1> QED
  BY <1>3, <1>4, <1>5, <1>6, <1>7, <1>8, <1>9, <1>10 DEF Next, Over

(* The rolling hash is the hash of the last windowSize bytes of the chunk, *)
(* computed from scratch: for every table, every width that divides the    *)
(* window, every cut of the stream into reads, and whatever the window     *)
(* held when the chunk began.                                              *)
THEOREM HashesTheWindow == Spec => []HashIsOfWindow
<1>1. WindowInv => HashIsOfWindow
  BY DEF WindowInv, Scanned, HashIsOfWindow
<1> QED
  BY <1>1, WindowInit, WindowNext, PTL DEF Spec

(* A chunk is cut at the first place where its own bytes say that it may   *)
(* be, and nowhere else: neither the reads, nor the chunks before it, nor  *)
(* what it left in the window, nor the end of the stream move a boundary.  *)
THEOREM ContentDecides == Spec => []BoundariesAreContent
<1>1. WindowInv => BoundariesAreContent
  <2> SUFFICES ASSUME WindowInv, pc \in {"flush", "last"}, NEW n \in DOMAIN chunkBuf
               PROVE  MayEnd(SubSeq(chunkBuf, 1, n)) <=> pc = "flush" /\ n = Len(chunkBuf)
    BY DEF BoundariesAreContent
  <2>1. n \in 1 .. Len(chunkBuf)
    BY LenProperties DEF WindowInv, TypeOK
  <2>2. MayEnd(SubSeq(chunkBuf, 1, n)) <=> EndsAfter(avg, SubSeq(chunkBuf, 1, n))
    BY MayEndIs
  <2> QED
    BY <2>1, <2>2 DEF WindowInv, Scanned, NoEndIn, EndsOnlyHere
<1> QED
  BY <1>1, WindowInit, WindowNext, PTL DEF Spec
=============================================================================
