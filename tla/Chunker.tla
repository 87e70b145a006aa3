------------------------------- MODULE Chunker -------------------------------
(***************************************************************************)
(* Chunker.Split: a stream, in reads of any size, is cut where the rolling *)
(* hash of its last bytes says so.                                         *)
(*                                                                         *)
(* A hash is the set of its bits that are 1: rotation shifts the set, and  *)
(* xor is the symmetric difference.  `avg` is a power of two, as it is for *)
(* every caller, so the mask 2 * avg - 1 is all ones.  One step handles    *)
(* one byte of a call of scan, and what Split appends after the call is    *)
(* appended with it.                                                       *)
(***************************************************************************)
EXTENDS Integers, Sequences, FiniteSets

CONSTANTS Byte,
          Width,       \* the bits of a hash: 32
          windowSize,  \* the bytes of the window: 64
          buzTable,    \* a hash for each byte
          Avgs,        \* the average sizes
          Streams,     \* what may be read
          MaxRead      \* the length of readBuf

Bits == 0 .. Width - 1

ASSUME ChunkerAssumption ==
  /\ Width \in Nat \ {0}
  /\ windowSize \in Nat \ {0} /\ windowSize % Width = 0
  /\ buzTable \in [Byte -> SUBSET Bits]
  /\ Avgs \subseteq Nat \ {0, 1}
  /\ Streams \subseteq Seq(Byte)
  /\ MaxRead \in Nat \ {0}

VARIABLES
  avg,        \* the argument of NewWithAvg
  h,          \* the rolling hash
  window,     \* its bytes, the oldest at chunkSize % windowSize
  filled,     \* how many are of this chunk: c.windowSize
  chunkSize,
  stream,     \* all that r will read
  pos,        \* how much of it has been read
  data,       \* what is left of the last read
  err,        \* the error that came with it
  chunkBuf,
  offset,
  chunks,     \* what fn was called with
  pc

scanner == <<h, window, filled, chunkSize>>
reader == <<pos, data, err>>
vars == <<avg, scanner, stream, reader, chunkBuf, offset, chunks, pc>>

(* NewWithAvg. *)
chunkSizeMin == avg \div 4
chunkSizeMax == avg * 4

(* The window is all zeros, a byte like any other.                         *)
Init ==
  /\ avg \in Avgs /\ stream \in Streams
  /\ h = {} /\ filled = 0 /\ chunkSize = 0
  /\ \E b \in Byte : window = [i \in 0 .. windowSize - 1 |-> b]
  /\ pos = 0 /\ data = <<>> /\ err = "nil"
  /\ chunkBuf = <<>> /\ offset = 0 /\ chunks = <<>>
  /\ pc = "read"
-----------------------------------------------------------------------------
Xor(x, y) == (x \ y) \union (y \ x)
(* Mutant: the bits that leave at the top are not brought in below.        *)
Shift(x, n) == {i + n : i \in x}
RotateLeft(x, n) == {(i + n) % Width : i \in x}

(* (x & breakTestMask) >= breakTestMask - 2.                               *)
BreakTest(x) == (\E i \in {0, 1} : i \in x) /\ \A i \in Bits \ {0, 1} : 2^i < 2 * avg => i \in x

(* shallBreak for a chunk of n bytes.                                      *)
(* Mutant: the minimum is not looked at.                                   *)
BreaksSmall(x, n) == n >= chunkSizeMax \/ BreakTest(x)
ShallBreak(x, n) == n >= chunkSizeMax \/ (n >= chunkSizeMin /\ BreakTest(x))

Handle == /\ pc = "scan" /\ data # <<>>
          /\ data' = Tail(data) /\ chunkBuf' = Append(chunkBuf, Head(data))
          /\ chunkSize' = chunkSize + 1
          /\ UNCHANGED <<avg, stream, pos, err, offset, chunks>>

(* The window fills: no test for a boundary.                               *)
Fill ==
  /\ filled < windowSize /\ Handle
  /\ window' = [window EXCEPT ![filled] = Head(data)]
  /\ h' = Xor(RotateLeft(h, 1), buzTable[Head(data)])
  /\ filled' = filled + 1
  /\ UNCHANGED pc

(* The place of the oldest byte.                                           *)
(* Mutant: counted from the start of the stream, not of the chunk.         *)
StreamIdx == (pos - Len(data)) % windowSize
Idx == chunkSize % windowSize

Rolled == Xor(Xor(RotateLeft(h, 1), buzTable[window[Idx]]), buzTable[Head(data)])

Roll ==
  /\ filled = windowSize /\ Handle
  /\ window' = [window EXCEPT ![Idx] = Head(data)]
  /\ h' = Rolled
  /\ ~ShallBreak(Rolled, chunkSize + 1)
  /\ UNCHANGED <<filled, pc>>

(* Of its state scan leaves only the window's old bytes at a boundary.     *)
Boundary ==
  /\ filled = windowSize /\ pc = "scan" /\ data # <<>>
  /\ ShallBreak(Rolled, chunkSize + 1)
  /\ window' = [window EXCEPT ![Idx] = Head(data)]
  /\ h' = {} /\ chunkSize' = 0 /\ filled' = 0
  /\ data' = Tail(data) /\ chunkBuf' = Append(chunkBuf, Head(data))
  /\ pc' = "flush"
  /\ UNCHANGED <<avg, stream, pos, err, offset, chunks>>

(* flush, and fn with it; fn may fail.                                     *)
Flush ==
  /\ pc \in {"flush", "last"} /\ chunkBuf # <<>>
  /\ \/ /\ chunks' = Append(chunks, [offset |-> offset, data |-> chunkBuf])
        /\ offset' = offset + Len(chunkBuf)
        /\ chunkBuf' = <<>>
        /\ pc' = IF pc = "flush" THEN "scan" ELSE "done"
     \/ pc' = "failed" /\ UNCHANGED <<chunks, offset, chunkBuf>>
  /\ UNCHANGED <<avg, scanner, stream, reader>>

FlushNothing ==
  /\ pc = "last" /\ chunkBuf = <<>>
  /\ pc' = "done"
  /\ UNCHANGED <<avg, scanner, stream, reader, chunkBuf, offset, chunks>>

(* r.Read: some bytes, the end, an error, or bytes with one of these.  A   *)
(* read of no bytes and no error changes nothing.                          *)
Left == Len(stream) - pos
Read ==
  /\ pc = "read"
  /\ \E n \in 0 .. (IF MaxRead < Left THEN MaxRead ELSE Left), e \in {"nil", "EOF", "error"} :
       /\ e = "nil" => n > 0
       /\ e = "EOF" => n = Left
       /\ data' = SubSeq(stream, pos + 1, pos + n)
       /\ pos' = pos + n
       /\ err' = e
  /\ pc' = "scan"
  /\ UNCHANGED <<avg, scanner, stream, chunkBuf, offset, chunks>>

(* A read is used up, and its error counts.                                *)
(* Mutants: the end of the stream is not a reason to flush; a read without *)
(* an error is taken for the end.                                          *)
EndUnflushed == IF err = "nil" THEN "read" ELSE IF err = "EOF" THEN "done" ELSE "failed"
EndIgnored == IF err = "error" THEN "failed" ELSE "read"
AfterRead == IF err = "nil" THEN "read" ELSE IF err = "EOF" THEN "last" ELSE "failed"
ReadHandled ==
  /\ pc = "scan" /\ data = <<>>
  /\ pc' = AfterRead
  /\ UNCHANGED <<avg, scanner, stream, reader, chunkBuf, offset, chunks>>

Over == pc \in {"done", "failed"} /\ UNCHANGED vars

Next == Fill \/ Roll \/ Boundary \/ Flush \/ FlushNothing \/ Read \/ ReadHandled \/ Over

Spec == Init /\ [][Next]_vars
FairSpec == Spec /\ WF_vars(Next)
-----------------------------------------------------------------------------
(* Properties. *)

TypeOK ==
  /\ avg \in Avgs /\ stream \in Streams
  /\ h \subseteq Bits /\ window \in [0 .. windowSize - 1 -> Byte]
  /\ filled \in 0 .. windowSize /\ chunkSize \in Nat
  /\ pos \in 0 .. Len(stream) /\ data \in Seq(Byte) /\ err \in {"nil", "EOF", "error"}
  /\ chunkBuf \in Seq(Byte) /\ offset \in Nat
  /\ chunks \in Seq([offset : Nat, data : Seq(Byte)])
  /\ pc \in {"read", "scan", "flush", "last", "done", "failed"}

(* The hash of a sequence of bytes, by its definition: byte j counts with  *)
(* its table entry, rotated by its distance from the last one.             *)
HashOf(s) ==
  {i \in Bits :
     Cardinality({j \in DOMAIN s : (i - (Len(s) - j)) % Width \in buzTable[s[j]]}) % 2 = 1}
LastOf(s, n) == SubSeq(s, Len(s) - n + 1, Len(s))

(* The rolling hash is the hash of the last bytes of the chunk, however    *)
(* the stream is cut into reads and whatever the window held before.       *)
HashIsOfWindow ==
  pc \in {"read", "scan"} => h = HashOf(LastOf(chunkBuf, filled))

(* A chunk may end after s: its bytes alone decide.                        *)
MayEnd(s) ==
  /\ Len(s) > windowSize
  /\ \/ Len(s) >= chunkSizeMax
     \/ Len(s) >= chunkSizeMin /\ BreakTest(HashOf(LastOf(s, windowSize)))

(* A chunk ends at the first place where it may, or with the stream: the   *)
(* boundaries depend on the bytes and on nothing else, which is what makes *)
(* chunks of two backups equal.                                            *)
BoundariesAreContent ==
  pc \in {"flush", "last"} =>
    \A n \in DOMAIN chunkBuf :
      MayEnd(SubSeq(chunkBuf, 1, n)) <=> pc = "flush" /\ n = Len(chunkBuf)

(* The chunks lie end to end at their offsets, chunkBuf goes on where they *)
(* end, and after a success they are the whole stream.                     *)
NothingLost ==
  /\ \A i \in DOMAIN chunks :
       LET c == chunks[i]
       IN /\ c.data # <<>>
          /\ c.data = SubSeq(stream, c.offset + 1, c.offset + Len(c.data))
          /\ c.offset = IF i = 1 THEN 0 ELSE chunks[i - 1].offset + Len(chunks[i - 1].data)
  /\ offset = IF chunks = <<>> THEN 0
              ELSE chunks[Len(chunks)].offset + Len(chunks[Len(chunks)].data)
  /\ chunkBuf = SubSeq(stream, offset + 1, pos - Len(data))
  /\ pc = "done" => offset = Len(stream)

(* Split returns.                                                          *)
SplitEnds == <>(pc \in {"done", "failed"})
=============================================================================
