---------------------------- MODULE UploadProofs ----------------------------
(***************************************************************************)
(* Proofs about Upload, for every set of runs, archives, keys and times    *)
(* and every batch size: its types; what it leaves in the datastore, where *)
(* every snapshot can be restored, and a success is durable; and that it   *)
(* implements SnapshotStore.                                               *)
(***************************************************************************)
EXTENDS Upload, SequenceTheorems, TLAPS

(* The requests and answers have the types TypeOK gives them.              *)
LEMMA MessageType ==
  ASSUME NEW op \in Ops \union {"none"}, NEW refs \in Seq(Ref), NEW csum \in Seq(Entry),
         NEW key \in AllKeys
  PROVE  /\ Message(op, refs, csum, key) \in Requests
         /\ Message(op, refs, csum, key).op = op
         /\ Message(op, refs, csum, key).refs = refs
BY DEF Message, Requests

LEMMA RequestType ==
  /\ NoRequest \in Requests /\ NoRequest.op = "none"
  /\ \A op \in Ops : Request(op) \in Requests /\ Request(op).op = op
BY DEF NoRequest, Request, Message, Requests, AllKeys

LEMMA ResponseType ==
  /\ NoResponse \in Responses /\ NoResponse.status = "none"
  /\ \A st \in {"ok", "error", "refused"} :
       Answer(st) \in Responses /\ Answer(st).status = st
BY DEF NoResponse, Answer, Responses

(* Adding a chunk to an index keeps it an index and makes it one longer.   *)
LEMMA AddChunkType ==
  ASSUME NEW entries \in Seq(Entry), NEW g \in Digests
  PROVE  /\ AddChunk(entries, g) \in Seq(Entry)
         /\ Len(AddChunk(entries, g)) = Len(entries) + 1
<1>1. Size[g.data] \in Nat
  BY UploadAssumption DEF Digests
<1>2. EndOf(entries) \in Nat
  <2>1. CASE Len(entries) = 0
    BY <2>1 DEF EndOf
  <2>2. CASE Len(entries) # 0
    <3>1. entries[Len(entries)] \in Entry
      BY <2>2, LenProperties, ElementOfSeq
    <3> QED
      BY <2>2, <3>1 DEF EndOf, Entry
  <2> QED
    BY <2>1, <2>2
<1>3. [end |-> EndOf(entries) + Size[g.data], digest |-> g] \in Entry
  BY <1>1, <1>2 DEF Entry
<1> QED
  BY <1>3 DEF AddChunk

LEMMA TypeInit == Init => TypeInv
<1> SUFFICES ASSUME Init PROVE TypeInv
  OBVIOUS
<1>1. TypeOK
  BY RequestType, ResponseType DEF Init, TypeOK, Digests
<1>2. JobKnown /\ OneChunkPerPut
  BY RequestType DEF Init, JobKnown, OneChunkPerPut
<1>3. SentWithinIndex
  BY DEF Init, SentWithinIndex
<1> QED
  BY <1>1, <1>2, <1>3 DEF TypeInv

(* Sending a request, or going on without one, keeps the call's state typed. *)
LEMMA CallStep ==
  ASSUME TypeInv, NEW b \in Backups, NEW op \in Live, NEW r \in Requests, Call(b, op, r)
  PROVE  /\ pc' \in [Backups -> {"idle"} \union Live \union Ended]
         /\ req' \in [Backups -> Requests]
         /\ resp' \in [Backups -> Responses]
         /\ pc'[b] = op /\ req'[b] = r
         /\ \A c \in Backups \ {b} : pc'[c] = pc[c] /\ req'[c] = req[c]
BY ResponseType DEF TypeInv, TypeOK, Call

(* A call whose request names no chunk keeps every run's job and its place *)
(* in index and archive, when nothing else of the client changes.          *)
LEMMA PlainCall ==
  ASSUME TypeInv, NEW b \in Backups, NEW op \in Live, NEW r \in Requests, Call(b, op, r),
         pc[b] \in Live, r.op # "put",
         UNCHANGED <<clock, job, idx, stats, link, server>>,
         known' \in [Backups -> SUBSET Digests],
         sent' \in [Backups -> Nat],
         \A c \in Backups : sent'[c] <= Len(idx[c])
  PROVE  TypeInv'
<1>1. TypeOK'
  BY CallStep DEF TypeInv, TypeOK, server
<1>2. JobKnown'
  <2>1. pc[b] # "idle"
    BY DEF Live, Ops
  <2>2. job[b] \in Job /\ job' = job
    BY <2>1 DEF TypeInv, JobKnown
  <2>3. \A c \in Backups \ {b} : pc'[c] = pc[c] /\ req'[c] = req[c]
    BY CallStep
  <2> QED
    BY <2>2, <2>3 DEF TypeInv, JobKnown
<1>3. OneChunkPerPut'
  BY CallStep DEF TypeInv, OneChunkPerPut
<1>4. SentWithinIndex'
  BY DEF SentWithinIndex
<1> QED
  BY <1>1, <1>2, <1>3, <1>4 DEF TypeInv

(* The client's steps. *)
LEMMA BeginType ==
  ASSUME TypeInv, NEW b \in Backups, BeginBackup(b)
  PROVE  TypeInv'
<1>1. PICK src \in Sources, k \in AllKeys :
        job' = [job EXCEPT ![b] = [src |-> src, key |-> k, time |-> clock]]
  BY DEF BeginBackup
<1>2. [src |-> src, key |-> k, time |-> clock] \in Job
  BY DEF TypeInv, TypeOK, Job
<1>3. /\ job' \in [Backups -> Job \union {Nothing}]
      /\ job'[b] \in Job
      /\ \A c \in Backups \ {b} : job'[c] = job[c]
  BY <1>1, <1>2 DEF TypeInv, TypeOK
<1>4. /\ pc[b] = "idle"
      /\ Call(b, "begin", Request("begin"))
      /\ link' = [link EXCEPT ![b] = TRUE]
      /\ UNCHANGED <<clock, known, idx, sent, stats, session, chunks, snaps>>
  BY DEF BeginBackup, server
<1>5. Request("begin") \in Requests /\ Request("begin").op = "begin" /\ "begin" \in Live
  BY RequestType DEF Ops, Live
<1>6. /\ pc' \in [Backups -> {"idle"} \union Live \union Ended]
      /\ req' \in [Backups -> Requests]
      /\ resp' \in [Backups -> Responses]
      /\ req'[b].op = "begin"
      /\ \A c \in Backups \ {b} : pc'[c] = pc[c] /\ req'[c] = req[c]
  BY <1>4, <1>5, CallStep
<1>7. TypeOK'
  BY <1>3, <1>4, <1>6 DEF TypeInv, TypeOK
<1>8. JobKnown' /\ OneChunkPerPut' /\ SentWithinIndex'
  BY <1>3, <1>4, <1>6 DEF TypeInv, JobKnown, OneChunkPerPut, SentWithinIndex
<1> QED
  BY <1>7, <1>8 DEF TypeInv

LEMMA DownloadType ==
  ASSUME TypeInv, NEW b \in Backups, DownloadPrevious(b)
  PROVE  TypeInv'
<1>1. pc[b] \in Live /\ "previous" \in Live
  BY DEF DownloadPrevious, Answered, Live, Ops
<1> QED
  BY <1>1, PlainCall, RequestType DEF DownloadPrevious, TypeInv, TypeOK, SentWithinIndex, Ops

LEMMA CreateType ==
  ASSUME TypeInv, NEW b \in Backups, CreateDynamicIndex(b)
  PROVE  TypeInv'
<1>1. pc[b] \in Live /\ "create" \in Live
  BY DEF CreateDynamicIndex, Live, Ops
<1>2. known' \in [Backups -> SUBSET Digests]
  BY DEF CreateDynamicIndex, TypeInv, TypeOK, Responses
<1> QED
  BY <1>1, <1>2, PlainCall, RequestType
     DEF CreateDynamicIndex, TypeInv, TypeOK, SentWithinIndex, Ops

LEMMA AppendType ==
  ASSUME TypeInv, NEW b \in Backups, AppendChunks(b)
  PROVE  TypeInv'
<1> DEFINE more == NextBatch(b) - sent[b]
           refs == [j \in 1 .. more |->
                      [start |-> StartOffset(idx[b], sent[b] + j),
                       digest |-> idx[b][sent[b] + j].digest]]
<1>1. /\ idx[b] \in Seq(Entry) /\ Len(idx[b]) \in Nat
      /\ sent[b] \in Nat /\ sent[b] <= Len(idx[b])
      /\ Batch \in Nat
  BY UploadAssumption DEF TypeInv, TypeOK, SentWithinIndex
<1>2. NextBatch(b) \in Nat /\ NextBatch(b) <= Len(idx[b]) /\ more \in Nat
  BY <1>1 DEF NextBatch, Min2
<1>3. ASSUME NEW j \in 1 .. more
      PROVE  [start |-> StartOffset(idx[b], sent[b] + j),
              digest |-> idx[b][sent[b] + j].digest] \in Ref
  <2>1. sent[b] + j \in 1 .. Len(idx[b])
    BY <1>1, <1>2
  <2>2. idx[b][sent[b] + j] \in Entry
    BY <1>1, <2>1, ElementOfSeq
  <2>3. StartOffset(idx[b], sent[b] + j) \in Nat
    <3>1. CASE sent[b] + j = 1
      BY <3>1 DEF StartOffset
    <3>2. CASE sent[b] + j # 1
      <4>1. (sent[b] + j) - 1 \in 1 .. Len(idx[b])
        BY <1>1, <2>1, <3>2
      <4>2. idx[b][(sent[b] + j) - 1] \in Entry
        BY <1>1, <4>1, ElementOfSeq
      <4> QED
        BY <3>2, <4>2 DEF StartOffset, Entry
    <3> QED
      BY <3>1, <3>2
  <2> QED
    BY <2>2, <2>3 DEF Entry, Ref
<1>4. refs \in Seq(Ref)
  BY <1>2, <1>3, IsASeq
<1>5. /\ pc[b] \in Live /\ "append" \in Live /\ "append" \in Ops
      /\ NoKey \in AllKeys /\ <<>> \in Seq(Entry)
  BY DEF AppendChunks, Streaming, Answered, Live, Ops, AllKeys
<1> HIDE DEF refs
<1>6. /\ Message("append", refs, <<>>, NoKey) \in Requests
      /\ Message("append", refs, <<>>, NoKey).op = "append"
  BY <1>4, <1>5 DEF Message, Requests
<1>7. Call(b, "append", Message("append", refs, <<>>, NoKey))
  BY DEF AppendChunks, refs
<1>8. /\ sent' \in [Backups -> Nat]
      /\ \A c \in Backups : sent'[c] <= Len(idx[c])
  BY <1>2 DEF AppendChunks, TypeInv, TypeOK, SentWithinIndex
<1> QED
  BY <1>5, <1>6, <1>7, <1>8, PlainCall DEF AppendChunks, TypeInv, TypeOK

LEMMA CloseType ==
  ASSUME TypeInv, NEW b \in Backups, CloseDynamicIndex(b)
  PROVE  TypeInv'
<1>1. /\ pc[b] \in Live /\ "close" \in Live /\ "close" \in Ops
      /\ NoKey \in AllKeys /\ <<>> \in Seq(Ref)
  BY DEF CloseDynamicIndex, Answered, Live, Ops, AllKeys
<1>2. idx[b] \in Seq(Entry)
  BY DEF TypeInv, TypeOK
<1>3. /\ Message("close", <<>>, idx[b], NoKey) \in Requests
      /\ Message("close", <<>>, idx[b], NoKey).op = "close"
  BY <1>1, <1>2 DEF Message, Requests
<1> QED
  BY <1>1, <1>3, PlainCall DEF CloseDynamicIndex, TypeInv, TypeOK, SentWithinIndex

LEMMA ManifestType ==
  ASSUME TypeInv, NEW b \in Backups, UploadManifest(b)
  PROVE  TypeInv'
<1>1. /\ pc[b] \in Live /\ pc[b] # "idle" /\ "blob" \in Live /\ "blob" \in Ops
      /\ <<>> \in Seq(Ref)
  BY DEF UploadManifest, Answered, Live, Ops
<1>2. idx[b] \in Seq(Entry) /\ job[b].key \in AllKeys
  BY <1>1 DEF TypeInv, TypeOK, JobKnown, Job
<1>3. /\ Message("blob", <<>>, idx[b], job[b].key) \in Requests
      /\ Message("blob", <<>>, idx[b], job[b].key).op = "blob"
  BY <1>1, <1>2 DEF Message, Requests
<1> QED
  BY <1>1, <1>3, PlainCall DEF UploadManifest, TypeInv, TypeOK, SentWithinIndex

LEMMA FinishType ==
  ASSUME TypeInv, NEW b \in Backups, Finish(b)
  PROVE  TypeInv'
<1>1. pc[b] \in Live /\ "finish" \in Live
  BY DEF Finish, Answered, Live, Ops
<1> QED
  BY <1>1, PlainCall, RequestType DEF Finish, TypeInv, TypeOK, SentWithinIndex, Ops

LEMMA StreamType ==
  ASSUME TypeInv, NEW b \in Backups, StreamChunk(b)
  PROVE  TypeInv'
<1> DEFINE d == job[b].src[Len(idx[b]) + 1]
           g == ChunkDigest(b, d)
           put == Message("put", <<[start |-> 0, digest |-> g]>>, <<>>, job[b].key)
<1>1. /\ pc[b] \in Live /\ pc[b] # "idle"
      /\ "stream" \in Live /\ "put" \in Live /\ "put" \in Ops
  BY DEF StreamChunk, Streaming, Answered, Live, Ops
<1>2. /\ job[b] \in Job /\ job[b].src \in Seq(Data) /\ job[b].key \in AllKeys
      /\ job' = job
  BY <1>1, UploadAssumption DEF StreamChunk, TypeInv, JobKnown, Job, Archives
<1>3. idx[b] \in Seq(Entry) /\ Len(idx[b]) \in Nat /\ sent[b] \in Nat /\ sent[b] <= Len(idx[b])
  BY DEF TypeInv, TypeOK, SentWithinIndex
<1>4. Len(idx[b]) + 1 \in 1 .. Len(job[b].src)
  BY <1>2, <1>3, LenProperties DEF StreamChunk, Drained
<1>5. d \in Data
  BY <1>2, <1>4, ElementOfSeq
<1>6. g \in Digests
  BY <1>2, <1>5 DEF ChunkDigest, Digest, Digests
<1> HIDE DEF d, g
<1>7. put \in Requests /\ put.op = "put" /\ Len(put.refs) = 1
  <2>1. [start |-> 0, digest |-> g] \in Ref
    BY <1>6 DEF Ref
  <2>2. <<[start |-> 0, digest |-> g]>> \in Seq(Ref)
    BY <2>1
  <2>3. <<>> \in Seq(Entry)
    OBVIOUS
  <2> QED
    BY <1>1, <1>2, <2>2, <2>3 DEF Message, Requests
<1>8. NoRequest \in Requests /\ NoRequest.op = "none"
  BY RequestType
<1> HIDE DEF put
<1>9. idx' = [idx EXCEPT ![b] = AddChunk(@, g)]
  BY DEF StreamChunk, d, g
<1>10. /\ idx' \in [Backups -> Seq(Entry)]
       /\ \A c \in Backups : sent[c] <= Len(idx'[c])
  BY <1>3, <1>6, <1>9, AddChunkType DEF TypeInv, TypeOK, SentWithinIndex
<1>11. stats' \in [Backups -> [unique : Nat, reused : Nat]]
  <2>1. \/ stats' = stats
        \/ stats' = [stats EXCEPT ![b].reused = @ + 1]
        \/ stats' = [stats EXCEPT ![b].unique = @ + 1]
    BY DEF StreamChunk
  <2>2. stats \in [Backups -> [unique : Nat, reused : Nat]]
    BY DEF TypeInv, TypeOK
  <2> QED
    BY <2>1, <2>2
<1>12. Call(b, "stream", NoRequest) \/ Call(b, "put", put)
  BY DEF StreamChunk, put, g, d
<1>13. /\ pc' \in [Backups -> {"idle"} \union Live \union Ended]
       /\ req' \in [Backups -> Requests]
       /\ resp' \in [Backups -> Responses]
       /\ req'[b].op = "put" => Len(req'[b].refs) = 1
       /\ \A c \in Backups \ {b} : pc'[c] = pc[c] /\ req'[c] = req[c]
  <2>1. CASE Call(b, "stream", NoRequest)
    BY <1>1, <1>8, <2>1, CallStep
  <2>2. CASE Call(b, "put", put)
    BY <1>1, <1>7, <2>2, CallStep
  <2> QED
    BY <1>12, <2>1, <2>2
<1>14. UNCHANGED <<clock, job, known, sent, link, session, chunks, snaps>>
  BY DEF StreamChunk, server
<1>15. TypeOK'
  BY <1>10, <1>11, <1>13, <1>14 DEF TypeInv, TypeOK
<1>16. JobKnown' /\ OneChunkPerPut' /\ SentWithinIndex'
  BY <1>2, <1>10, <1>13, <1>14 DEF TypeInv, JobKnown, OneChunkPerPut, SentWithinIndex
<1> QED
  BY <1>15, <1>16 DEF TypeInv

(* However a run ends. *)
LEMMA EndType ==
  ASSUME TypeInv, NEW b \in Backups, NEW how \in Ended, pc[b] \in Live, End(b, how)
  PROVE  TypeInv'
<1>1. pc[b] # "idle"
  BY DEF Live, Ops
<1>2. TypeOK'
  BY ResponseType DEF End, TypeInv, TypeOK, server
<1>3. JobKnown' /\ OneChunkPerPut'
  BY <1>1 DEF End, TypeInv, TypeOK, JobKnown, OneChunkPerPut
<1>4. SentWithinIndex'
  BY DEF End, TypeInv, TypeOK, SentWithinIndex
<1> QED
  BY <1>2, <1>3, <1>4 DEF TypeInv

LEMMA EndsType ==
  ASSUME TypeInv, NEW b \in Backups,
         ReturnSuccess(b) \/ ReturnError(b) \/ PipelineFails(b) \/ Kill(b)
  PROVE  TypeInv'
<1>1. pc[b] \in Live
  BY DEF ReturnSuccess, ReturnError, PipelineFails, Kill, Answered, CallFails, Streaming, Live, Ops
<1>2. End(b, "ok") \/ End(b, "failed") \/ End(b, "killed")
  BY DEF ReturnSuccess, ReturnError, PipelineFails, Kill
<1>3. {"ok", "failed", "killed"} = Ended
  BY DEF Ended
<1> QED
  BY <1>1, <1>2, <1>3, EndType

(* The network's and the server's steps. *)
LEMMA NetworkType ==
  ASSUME TypeInv, NEW b \in Backups, Tick \/ Break(b) \/ DropConnection(b)
  PROVE  TypeInv'
<1>1. CASE Tick
  BY <1>1 DEF Tick, client, server, TypeInv, TypeOK, JobKnown, OneChunkPerPut, SentWithinIndex
<1>2. CASE Break(b)
  BY <1>2 DEF Break, client, server, TypeInv, TypeOK, JobKnown, OneChunkPerPut, SentWithinIndex
<1>3. CASE DropConnection(b)
  <2>1. /\ req' = [req EXCEPT ![b] = NoRequest]
        /\ session' \in Sessions \union {Nothing}
        /\ UNCHANGED <<clock, pc, job, known, idx, sent, stats, link, resp, chunks, snaps>>
    BY <1>3 DEF DropConnection, client, TypeInv, TypeOK
  <2>2. TypeOK'
    BY <2>1, RequestType DEF TypeInv, TypeOK
  <2>3. JobKnown' /\ OneChunkPerPut' /\ SentWithinIndex'
    BY <2>1, RequestType DEF TypeInv, TypeOK, JobKnown, OneChunkPerPut, SentWithinIndex
  <2> QED
    BY <2>2, <2>3 DEF TypeInv
<1> QED
  BY <1>1, <1>2, <1>3

(* An answer keeps the types when the server's own state keeps its types.  *)
LEMMA ReplyType ==
  ASSUME TypeInv, NEW b \in Backups, NEW r \in Responses, Reply(b, r),
         UNCHANGED <<clock, client, link>>,
         session' \in Sessions \union {Nothing},
         chunks' \in [Digests -> Blobs \union {Nothing}],
         snaps' \in [Times -> Snapshot \union {Nothing}]
  PROVE  TypeInv'
<1>1. /\ req' \in [Backups -> Requests]
      /\ resp' \in [Backups -> Responses]
      /\ req'[b].op = "none"
      /\ \A c \in Backups \ {b} : req'[c] = req[c]
  BY RequestType, ResponseType DEF Reply, TypeInv, TypeOK
<1>2. TypeOK'
  BY <1>1 DEF client, TypeInv, TypeOK
<1>3. JobKnown' /\ OneChunkPerPut' /\ SentWithinIndex'
  BY <1>1 DEF client, TypeInv, JobKnown, OneChunkPerPut, SentWithinIndex
<1> QED
  BY <1>2, <1>3 DEF TypeInv

LEMMA SessionHeld ==
  ASSUME TypeInv, NEW b \in Backups, Holds(b)
  PROVE  session \in Sessions
BY DEF TypeInv, TypeOK, Holds

LEMMA ServeBeginType ==
  ASSUME TypeInv, NEW b \in Backups, ServeBegin(b)
  PROVE  TypeInv'
<1>1. NewSession(b) \in Sessions
  BY DEF NewSession, Sessions
<1>2. session' \in Sessions \union {Nothing}
  BY <1>1 DEF ServeBegin, TypeInv, TypeOK
<1>3. \E st \in {"ok", "error"} : Reply(b, Answer(st))
  BY DEF ServeBegin
<1> QED
  BY <1>2, <1>3, ResponseType, ReplyType DEF ServeBegin, TypeInv, TypeOK

LEMMA ServePreviousType ==
  ASSUME TypeInv, NEW b \in Backups, ServePrevious(b)
  PROVE  TypeInv'
<1>1. CASE Reply(b, Answer("error")) /\ UNCHANGED session
  BY <1>1, ResponseType, ReplyType DEF ServePrevious, TypeInv, TypeOK
<1>2. ASSUME NEW t \in Times, Newest(t),
             session' = [session EXCEPT !.registered = @ \union DigestsOf(snaps[t].entries)],
             Reply(b, [status |-> "ok", digests |-> DigestsOf(snaps[t].entries)])
      PROVE  TypeInv'
  <2>1. snaps[t].entries \in Seq(Entry)
    BY <1>2 DEF TypeInv, TypeOK, Newest, Snapshot
  <2>2. DigestsOf(snaps[t].entries) \in SUBSET Digests
    <3>1. ASSUME NEW i \in DOMAIN snaps[t].entries
          PROVE  snaps[t].entries[i].digest \in Digests
      <4>1. i \in 1 .. Len(snaps[t].entries)
        BY <2>1, <3>1, LenProperties
      <4>2. snaps[t].entries[i] \in Entry
        BY <2>1, <4>1, ElementOfSeq
      <4> QED
        BY <4>2 DEF Entry
    <3> QED
      BY <3>1 DEF DigestsOf
  <2>3. [status |-> "ok", digests |-> DigestsOf(snaps[t].entries)] \in Responses
    BY <2>2 DEF Responses
  <2>4. session' \in Sessions
    BY <1>2, <2>2, SessionHeld DEF ServePrevious, Sessions
  <2> QED
    BY <1>2, <2>3, <2>4, ReplyType DEF ServePrevious, TypeInv, TypeOK
<1> QED
  BY <1>1, <1>2 DEF ServePrevious

LEMMA ServeCreateType ==
  ASSUME TypeInv, NEW b \in Backups, ServeCreate(b)
  PROVE  TypeInv'
<1>1. session' \in Sessions
  BY SessionHeld DEF ServeCreate, Sessions
<1> QED
  BY <1>1, ResponseType, ReplyType DEF ServeCreate, TypeInv, TypeOK

LEMMA ServePutType ==
  ASSUME TypeInv, NEW b \in Backups, ServePut(b)
  PROVE  TypeInv'
<1> DEFINE g == req[b].refs[1].digest
<1>1. req[b] \in Requests /\ req[b].key \in AllKeys /\ Len(req[b].refs) = 1
  BY DEF ServePut, TypeInv, TypeOK, OneChunkPerPut, Requests
<1>2. g \in Digests
  <2>1. req[b].refs \in Seq(Ref)
    BY <1>1 DEF Requests
  <2>2. req[b].refs[1] \in Ref
    BY <1>1, <2>1, ElementOfSeq
  <2> QED
    BY <2>2 DEF Ref
<1> HIDE DEF g
<1>3. Blob(g.data, req[b].key) \in Blobs
  BY <1>1, <1>2 DEF Blob, Blobs, Digests
<1>4. chunks' \in [Digests -> Blobs \union {Nothing}]
  BY <1>2, <1>3 DEF ServePut, TypeInv, TypeOK, g
<1>5. session' \in Sessions
  BY <1>2, SessionHeld DEF ServePut, Sessions, g
<1> QED
  BY <1>4, <1>5, ResponseType, ReplyType DEF ServePut, TypeInv, TypeOK

LEMMA ServeAppendType ==
  ASSUME TypeInv, NEW b \in Backups, ServeAppend(b)
  PROVE  TypeInv'
<1> DEFINE refs == req[b].refs
           new == [i \in DOMAIN refs |-> [end |-> RefEnd(refs, i), digest |-> refs[i].digest]]
<1>1. refs \in Seq(Ref)
  BY DEF TypeInv, TypeOK, Requests
<1>2. new \in Seq(Entry)
  <2>1. DOMAIN refs = 1 .. Len(refs) /\ Len(refs) \in Nat
    BY <1>1
  <2>2. ASSUME NEW i \in DOMAIN refs
        PROVE  [end |-> RefEnd(refs, i), digest |-> refs[i].digest] \in Entry
    <3>1. refs[i] \in Ref
      BY <1>1, <2>1, <2>2, ElementOfSeq
    <3>2. refs[i].start \in Nat /\ refs[i].digest \in Digests /\ refs[i].digest.data \in Data
      BY <3>1 DEF Ref, Digests
    <3>3. RefEnd(refs, i) \in Nat
      BY <3>2, UploadAssumption DEF RefEnd
    <3> QED
      BY <3>2, <3>3 DEF Entry
  <2> QED
    BY <2>1, <2>2, IsASeq
<1> HIDE DEF new
<1>3. session \in Sessions
  BY SessionHeld DEF ServeAppend
<1>4. session.writer \o new \in Seq(Entry)
  BY <1>2, <1>3, ConcatProperties DEF Sessions
<1>5. session' \in Sessions
  BY <1>3, <1>4 DEF ServeAppend, Sessions, new
<1>6. \E st \in {"ok", "refused"} : Reply(b, Answer(st))
  BY DEF ServeAppend
<1> QED
  BY <1>5, <1>6, ResponseType, ReplyType DEF ServeAppend, TypeInv, TypeOK

LEMMA ServeCloseType ==
  ASSUME TypeInv, NEW b \in Backups, ServeClose(b)
  PROVE  TypeInv'
<1>1. session' \in Sessions
  BY SessionHeld DEF ServeClose, Sessions
<1>2. \E st \in {"ok", "refused"} : Reply(b, Answer(st))
  BY DEF ServeClose
<1> QED
  BY <1>1, <1>2, ResponseType, ReplyType DEF ServeClose, TypeInv, TypeOK

LEMMA ServeBlobType ==
  ASSUME TypeInv, NEW b \in Backups, ServeBlob(b)
  PROVE  TypeInv'
<1>1. [csum |-> req[b].csum, key |-> req[b].key] \in Manifest
  BY DEF TypeInv, TypeOK, Requests, Manifest
<1>2. session' \in Sessions
  BY <1>1, SessionHeld DEF ServeBlob, Sessions
<1> QED
  BY <1>2, ResponseType, ReplyType DEF ServeBlob, TypeInv, TypeOK

LEMMA ServeFinishType ==
  ASSUME TypeInv, NEW b \in Backups, ServeFinish(b)
  PROVE  TypeInv'
<1>1. session \in Sessions
  BY SessionHeld DEF ServeFinish
<1>2. snaps' \in [Times -> Snapshot \union {Nothing}]
  <2>1. CASE session.wid = "closed" /\ session.manifest # Nothing
    <3>1. session.writer \in Seq(Entry) /\ session.manifest \in Manifest
      BY <1>1, <2>1 DEF Sessions
    <3>2. [entries |-> session.writer, csum |-> session.manifest.csum,
           key |-> session.manifest.key, by |-> b] \in Snapshot
      BY <3>1 DEF Manifest, Snapshot
    <3> QED
      BY <2>1, <3>2 DEF ServeFinish, TypeInv, TypeOK
  <2>2. CASE ~(session.wid = "closed" /\ session.manifest # Nothing)
    BY <2>2 DEF ServeFinish, TypeInv, TypeOK
  <2> QED
    BY <2>1, <2>2
<1>3. session' \in Sessions \union {Nothing}
  BY DEF ServeFinish, TypeInv, TypeOK
<1>4. \E st \in {"ok", "refused"} : Reply(b, Answer(st))
  BY DEF ServeFinish
<1> QED
  BY <1>2, <1>3, <1>4, ResponseType, ReplyType DEF ServeFinish, TypeInv, TypeOK

LEMMA ServerErrorType ==
  ASSUME TypeInv, NEW b \in Backups, ServerError(b)
  PROVE  TypeInv'
BY ResponseType, ReplyType DEF ServerError, server, TypeInv, TypeOK

(* Every step keeps the types. *)
LEMMA TypeNext == TypeInv /\ [Next]_vars => TypeInv'
<1> SUFFICES ASSUME TypeInv, [Next]_vars PROVE TypeInv'
  OBVIOUS
<1>1. ASSUME NEW b \in Backups, Client(b) PROVE TypeInv'
  BY <1>1, BeginType, DownloadType, CreateType, StreamType, AppendType, CloseType,
     ManifestType, FinishType, EndsType DEF Client
<1>2. ASSUME NEW b \in Backups, Serve(b) PROVE TypeInv'
  BY <1>2, ServeBeginType, ServePreviousType, ServeCreateType, ServePutType,
     ServeAppendType, ServeCloseType, ServeBlobType, ServeFinishType DEF Serve
<1>3. ASSUME NEW b \in Backups, Faults(b) PROVE TypeInv'
  BY <1>3, NetworkType, EndsType, ServerErrorType DEF Faults
<1>4. ASSUME NEW b \in Backups, DropConnection(b) PROVE TypeInv'
  BY <1>4, NetworkType
<1>5. CASE Tick
  BY <1>5 DEF Tick, client, server, TypeInv, TypeOK, JobKnown, OneChunkPerPut, SentWithinIndex
<1>6. CASE UNCHANGED vars
  BY <1>6 DEF vars, client, server, TypeInv, TypeOK, JobKnown, OneChunkPerPut, SentWithinIndex
<1>7. Faulty \subseteq Backups
  BY UploadAssumption
<1> QED
  BY <1>1, <1>2, <1>3, <1>4, <1>5, <1>6, <1>7 DEF Next, AllEnded

(* The state of every run of the specification has the types of TypeOK:    *)
(* the append loop stays within the index and every request on the wire is *)
(* one the server's handler can read, whatever is lost or killed.          *)
THEOREM TypeCorrect == Spec => []TypeOK
<1>1. TypeInv => TypeOK
  BY DEF TypeInv
<1> QED
  BY <1>1, TypeInit, TypeNext, PTL DEF Spec

-----------------------------------------------------------------------------
(* What is in the datastore.                                               *)

(* A blob is the plaintext and the key its digest names.                   *)
Sealed == \A g \in Digests : chunks[g] # Nothing => chunks[g] = Blob(g.data, g.key)

Names(b, i) == Digest(job[b].src[i], job[b].key)

(* An index that names the whole archive of the run.                       *)
WholeIndex(b, entries) ==
  Len(entries) = Len(job[b].src) /\ \A i \in 1 .. Len(entries) : entries[i].digest = Names(b, i)

(* A run alone: its index is the beginning of its archive, and the whole   *)
(* from the appends on; a request of its last call or from its life.       *)
RunOK(b) ==
  /\ req[b].op = "none" \/ req[b].op = pc[b] \/ pc[b] \in Ended
  /\ pc[b] \notin Live => idx[b] = <<>>
  /\ pc[b] = "idle" => job[b] = Nothing
  /\ Len(idx[b]) = 0 \/ Len(idx[b]) <= Len(job[b].src)
  /\ \A i \in 1 .. Len(idx[b]) : idx[b][i].digest = Names(b, i)
  /\ pc[b] \in {"append", "close", "blob", "finish"} => Len(idx[b]) = Len(job[b].src)
  /\ req[b].op = "put" => req[b].refs[1].digest.key = req[b].key
  /\ req[b].op = "append" =>
       \A i \in 1 .. Len(req[b].refs) : req[b].refs[i].digest.key = job[b].key
  /\ req[b].op = "close" => WholeIndex(b, req[b].csum)
  /\ req[b].op = "close" /\ pc[b] = "close" => req[b].csum = idx[b]
  /\ req[b].op = "blob" => req[b].key = job[b].key

(* The run that holds the session: what it has registered is stored, its   *)
(* index is contiguous, and once closed that of the client for good.       *)
HeldOK(b) ==
  /\ pc[b] # "idle"
  /\ \A t \in Times : snaps[t] # Nothing => t < job[b].time
  /\ \A g \in session.registered : chunks[g] # Nothing
  /\ \A i \in 1 .. Len(session.writer) :
       session.writer[i].digest \in session.registered /\ session.writer[i].digest.key = job[b].key
  /\ Contiguous(session.writer)
  /\ session.wid = "closed" => /\ req[b].op \in {"none", "blob", "finish"}
                               /\ pc[b] \in {"close", "blob", "finish"} \union Ended
                               /\ WholeIndex(b, session.writer)
  /\ pc[b] \in {"blob", "finish"} \/ (pc[b] = "close" /\ resp[b].status = "ok") =>
       session.wid = "closed" /\ session.writer = idx[b]
  /\ req[b].op = "blob" => session.wid = "closed" /\ req[b].csum = session.writer
  /\ session.manifest # Nothing =>
       /\ session.wid = "closed"
       /\ session.manifest = [csum |-> session.writer, key |-> job[b].key]

(* A snapshot of the group.                                                *)
SnapOK(t) ==
  snaps[t] # Nothing =>
    /\ \A i \in 1 .. Len(snaps[t].entries) :
         /\ chunks[snaps[t].entries[i].digest] # Nothing
         /\ snaps[t].entries[i].digest.key = snaps[t].key
    /\ Contiguous(snaps[t].entries)
    /\ snaps[t].csum = snaps[t].entries

(* A run that is told, or has reported, that its snapshot is committed,    *)
(* and one that has a snapshot.                                            *)
Durable(b) ==
  /\ snaps[job[b].time] # Nothing
  /\ snaps[job[b].time].key = job[b].key /\ snaps[job[b].time].by = b
  /\ Len(snaps[job[b].time].entries) = Len(job[b].src)
  /\ \A i \in 1 .. Len(job[b].src) : snaps[job[b].time].entries[i].digest = Names(b, i)
DoneOK(b) ==
  /\ pc[b] = "ok" \/ (pc[b] = "finish" /\ resp[b].status = "ok") => Durable(b)
  /\ \A t \in Times : snaps[t] # Nothing /\ snaps[t].by = b =>
       pc[b] \in {"finish"} \union Ended /\ job[b].time = t

StoreInv ==
  /\ Sealed
  /\ \A b \in Backups : RunOK(b) /\ DoneOK(b) /\ (Holds(b) => HeldOK(b))
  /\ \A t \in Times : SnapOK(t)

LEMMA StoreInit == Init => StoreInv
<1> SUFFICES ASSUME Init PROVE StoreInv
  OBVIOUS
<1>1. Sealed /\ \A t \in Times : SnapOK(t)
  BY DEF Init, Sealed, SnapOK
<1>2. ASSUME NEW b \in Backups PROVE RunOK(b) /\ DoneOK(b) /\ ~Holds(b)
  BY RequestType DEF Init, RunOK, DoneOK, Holds, Live, Ops
<1> QED
  BY <1>1, <1>2 DEF StoreInv
-----------------------------------------------------------------------------
(* What the actions of one run leave to the others.                        *)
Others(b) ==
  \A c \in Backups \ {b} : /\ pc'[c] = pc[c] /\ req'[c] = req[c] /\ resp'[c] = resp[c]
                           /\ job'[c] = job[c] /\ idx'[c] = idx[c]

LEMMA OthersKept ==
  ASSUME NEW b \in Backups, NEW c \in Backups \ {b}, Others(b)
  PROVE  /\ RunOK(c) => RunOK(c)'
         /\ DoneOK(c) /\ UNCHANGED snaps => DoneOK(c)'
         /\ HeldOK(c) /\ UNCHANGED server => HeldOK(c)'
<1> USE DEF Others
<1>1. RunOK(c) => RunOK(c)'
  BY DEF RunOK, WholeIndex, Names
<1>2. DoneOK(c) /\ UNCHANGED snaps => DoneOK(c)'
  BY DEF DoneOK, Durable, Names
<1>3. HeldOK(c) /\ UNCHANGED server => HeldOK(c)'
  BY DEF HeldOK, WholeIndex, Names, server
<1> QED
  BY <1>1, <1>2, <1>3

(* A step of a client: enough to look at its own run.                      *)
LEMMA ClientStep ==
  ASSUME StoreInv, NEW b \in Backups, Others(b), UNCHANGED server,
         RunOK(b)', DoneOK(b)', Holds(b) => HeldOK(b)'
  PROVE  StoreInv'
<1>1. Sealed' /\ \A t \in Times : SnapOK(t)'
  BY DEF StoreInv, Sealed, SnapOK, server
<1>2. ASSUME NEW c \in Backups PROVE RunOK(c)' /\ DoneOK(c)' /\ (Holds(c)' => HeldOK(c)')
  <2>1. Holds(c)' <=> Holds(c)
    BY DEF Holds, server
  <2>2. CASE c = b
    BY <2>1, <2>2
  <2>3. CASE c # b
    BY <2>1, <2>3, OthersKept DEF StoreInv, server
  <2> QED
    BY <2>2, <2>3
<1> QED
  BY <1>1, <1>2 DEF StoreInv
-----------------------------------------------------------------------------
(* The steps of a client. *)

LEMMA CallEffect ==
  ASSUME TypeInv, NEW b \in Backups, NEW op, NEW r, Call(b, op, r)
  PROVE  /\ pc'[b] = op /\ req'[b] = r /\ resp'[b].status = "none"
         /\ \A c \in Backups \ {b} : pc'[c] = pc[c] /\ req'[c] = req[c] /\ resp'[c] = resp[c]
BY ResponseType DEF TypeInv, TypeOK, Call

LEMMA JobAtWork ==
  ASSUME TypeInv, NEW b \in Backups, pc[b] # "idle"
  PROVE  /\ job[b] \in Job /\ job[b].src \in Seq(Data) /\ job[b].src # <<>>
         /\ job[b].key \in AllKeys /\ job[b].time \in Times
BY UploadAssumption DEF TypeInv, JobKnown, Job, Archives

(* A call that names no chunk and leaves the index alone.                  *)
LEMMA PlainStore ==
  ASSUME TypeInv, StoreInv, NEW b \in Backups, NEW op \in {"previous", "create"},
         Call(b, op, Request(op)), pc[b] \in {"begin", "previous"}, UNCHANGED <<job, idx, server>>
  PROVE  StoreInv'
<1>1. Request(op).op = op
  BY RequestType DEF Ops
<1>2. Others(b) /\ pc'[b] = op /\ req'[b].op = op
  BY <1>1, CallEffect DEF Others
<1>3. RunOK(b)' /\ DoneOK(b)'
  BY <1>2 DEF StoreInv, RunOK, DoneOK, Names, Live, Ops, server, Ended
<1>4. Holds(b) => HeldOK(b)'
  BY <1>2 DEF StoreInv, HeldOK, server, Ended
<1> QED
  BY <1>2, <1>3, <1>4, ClientStep

LEMMA BeginStore ==
  ASSUME TypeInv, StoreInv, NEW b \in Backups, BeginBackup(b)
  PROVE  StoreInv'
<1>1. pc[b] = "idle" /\ Call(b, "begin", Request("begin")) /\ UNCHANGED <<idx, server>>
  BY DEF BeginBackup
<1>2. Request("begin").op = "begin"
  BY RequestType DEF Ops
<1>3. \A c \in Backups \ {b} : job'[c] = job[c]
  BY DEF BeginBackup, TypeInv, TypeOK
<1>4. Others(b) /\ pc'[b] = "begin" /\ req'[b].op = "begin"
  BY <1>1, <1>2, <1>3, CallEffect DEF Others
<1>5. idx[b] = <<>> /\ ~Holds(b)
  BY <1>1 DEF StoreInv, RunOK, HeldOK, Live, Ops
<1>6. RunOK(b)' /\ DoneOK(b)'
  <2>1. RunOK(b)'
    BY <1>1, <1>4, <1>5 DEF RunOK, Live, Ops
  <2>2. DoneOK(b)'
    BY <1>1, <1>4 DEF StoreInv, DoneOK, server, Ended
  <2> QED
    BY <2>1, <2>2
<1> QED
  BY <1>1, <1>4, <1>5, <1>6, ClientStep

LEMMA DownloadStore ==
  ASSUME TypeInv, StoreInv, NEW b \in Backups, DownloadPrevious(b) \/ CreateDynamicIndex(b)
  PROVE  StoreInv'
<1>1. CASE DownloadPrevious(b)
  BY <1>1, PlainStore DEF DownloadPrevious, Answered
<1>2. CASE CreateDynamicIndex(b)
  BY <1>2, PlainStore DEF CreateDynamicIndex
<1> QED
  BY <1>1, <1>2

(* The new entry of StreamChunk names the next chunk of the archive.       *)
LEMMA AddChunkNames ==
  ASSUME NEW entries \in Seq(Entry), NEW g
  PROVE  /\ Len(AddChunk(entries, g)) = Len(entries) + 1
         /\ AddChunk(entries, g)[Len(entries) + 1].digest = g
         /\ \A i \in 1 .. Len(entries) : AddChunk(entries, g)[i] = entries[i]
BY DEF AddChunk

LEMMA StreamStore ==
  ASSUME TypeInv, StoreInv, NEW b \in Backups, StreamChunk(b)
  PROVE  StoreInv'
<1> DEFINE n == Len(idx[b])
           g == Names(b, n + 1)
           put == Message("put", <<[start |-> 0, digest |-> g]>>, <<>>, job[b].key)
<1>1. /\ pc[b] \in {"create", "put", "stream"} /\ UNCHANGED <<job, server>>
      /\ ~(n >= Len(job[b].src))
  BY DEF StreamChunk, Streaming, Answered, Drained
<1>2. idx[b] \in Seq(Entry) /\ n \in Nat /\ Len(job[b].src) \in Nat
  BY <1>1, JobAtWork DEF TypeInv, TypeOK
<1>3. /\ idx' = [idx EXCEPT ![b] = AddChunk(@, g)]
      /\ Call(b, "stream", NoRequest) \/ Call(b, "put", put)
  BY DEF StreamChunk, ChunkDigest, Names
<1>4. put.op = "put" /\ put.refs[1].digest.key = put.key /\ NoRequest.op = "none"
  BY RequestType DEF Message, Names, Digest
<1>5. idx'[b] = AddChunk(idx[b], g) /\ \A c \in Backups \ {b} : idx'[c] = idx[c]
  BY <1>3 DEF TypeInv, TypeOK
<1> HIDE DEF put
<1>6. /\ Others(b) /\ pc'[b] \in {"stream", "put"}
      /\ req'[b].op \in {"none", pc'[b]} /\ req'[b].op \notin {"append", "close", "blob"}
      /\ req'[b].op = "put" => req'[b].refs[1].digest.key = req'[b].key
  <2>1. CASE Call(b, "stream", NoRequest)
    BY <1>1, <1>4, <1>5, <2>1, CallEffect DEF Others
  <2>2. CASE Call(b, "put", put)
    BY <1>1, <1>4, <1>5, <2>2, CallEffect DEF Others
  <2> QED
    BY <1>3, <2>1, <2>2
<1>7. Len(idx'[b]) = n + 1 /\ n + 1 <= Len(job[b].src)
  BY <1>1, <1>2, <1>5, AddChunkNames
<1>8. \A i \in 1 .. n + 1 : idx'[b][i].digest = Names(b, i)
  <2> SUFFICES ASSUME NEW i \in 1 .. n + 1 PROVE idx'[b][i].digest = Names(b, i)
    OBVIOUS
  <2>1. CASE i = n + 1
    BY <1>2, <1>5, <2>1, AddChunkNames
  <2>2. CASE i \in 1 .. n
    BY <1>2, <1>5, <2>2, AddChunkNames DEF StoreInv, RunOK
  <2> QED
    BY <1>2, <2>1, <2>2
<1>9. RunOK(b)'
  BY <1>1, <1>6, <1>7, <1>8 DEF RunOK, WholeIndex, Names, Live, Ops
<1>10. DoneOK(b)' /\ (Holds(b) => HeldOK(b)')
  BY <1>1, <1>6 DEF StoreInv, DoneOK, HeldOK, WholeIndex, Names, server, Ended
<1> QED
  BY <1>1, <1>6, <1>9, <1>10, ClientStep

LEMMA AppendStore ==
  ASSUME TypeInv, StoreInv, NEW b \in Backups, AppendChunks(b)
  PROVE  StoreInv'
<1> DEFINE more == NextBatch(b) - sent[b]
           refs == [j \in 1 .. more |->
                      [start |-> StartOffset(idx[b], sent[b] + j),
                       digest |-> idx[b][sent[b] + j].digest]]
           append == Message("append", refs, <<>>, NoKey)
<1>1. /\ pc[b] \in {"create", "put", "stream", "append"} /\ UNCHANGED <<job, idx, server>>
      /\ Call(b, "append", append)
      /\ pc[b] # "append" => Drained(b)
  BY DEF AppendChunks, Streaming, Answered
<1>2. append.op = "append" /\ append.refs = refs
  BY DEF Message
<1>3. /\ Len(idx[b]) \in Nat /\ sent[b] \in Nat /\ sent[b] <= Len(idx[b]) /\ Batch \in Nat
      /\ Len(job[b].src) \in Nat /\ Len(job[b].src) # 0
  BY <1>1, JobAtWork, UploadAssumption DEF TypeInv, TypeOK, SentWithinIndex
<1>4. more \in Nat /\ sent[b] + more <= Len(idx[b])
  BY <1>3 DEF NextBatch, Min2
<1>5. Len(refs) = more /\ \A j \in 1 .. more : refs[j].digest.key = job[b].key
  <2>1. ASSUME NEW j \in 1 .. more PROVE refs[j].digest.key = job[b].key
    <3>1. sent[b] + j \in 1 .. Len(idx[b])
      BY <1>3, <1>4
    <3>2. idx[b][sent[b] + j].digest = Names(b, sent[b] + j)
      BY <3>1 DEF StoreInv, RunOK
    <3> QED
      BY <3>2 DEF Names, Digest
  <2> HIDE DEF more
  <2>2. Len(refs) = more
    BY <1>4
  <2> HIDE DEF refs
  <2> QED
    BY <2>1, <2>2
<1> HIDE DEF refs, append
<1>6. Others(b) /\ pc'[b] = "append" /\ req'[b] = append
  BY <1>1, CallEffect DEF Others
<1>7. Len(idx[b]) = Len(job[b].src)
  BY <1>1, <1>3 DEF Drained, StoreInv, RunOK
<1>8. RunOK(b)'
  BY <1>1, <1>2, <1>5, <1>6, <1>7 DEF StoreInv, RunOK, WholeIndex, Names, Live, Ops
<1>9. DoneOK(b)' /\ (Holds(b) => HeldOK(b)')
  BY <1>1, <1>2, <1>6 DEF StoreInv, DoneOK, HeldOK, WholeIndex, Names, server, Ended
<1> QED
  BY <1>1, <1>6, <1>8, <1>9, ClientStep

LEMMA CloseStore ==
  ASSUME TypeInv, StoreInv, NEW b \in Backups, CloseDynamicIndex(b)
  PROVE  StoreInv'
<1> DEFINE close == Message("close", <<>>, idx[b], NoKey)
<1>1. pc[b] = "append" /\ UNCHANGED <<job, idx, server>> /\ Call(b, "close", close)
  BY DEF CloseDynamicIndex, Answered
<1>2. close.op = "close" /\ close.csum = idx[b]
  BY DEF Message
<1> HIDE DEF close
<1>3. Others(b) /\ pc'[b] = "close" /\ req'[b] = close /\ resp'[b].status # "ok"
  BY <1>1, CallEffect DEF Others
<1>4. RunOK(b)'
  BY <1>1, <1>2, <1>3 DEF StoreInv, RunOK, WholeIndex, Names, Live, Ops
<1>5. DoneOK(b)' /\ (Holds(b) => HeldOK(b)')
  BY <1>1, <1>2, <1>3 DEF StoreInv, DoneOK, HeldOK, WholeIndex, Names, server, Ended
<1> QED
  BY <1>1, <1>3, <1>4, <1>5, ClientStep

LEMMA ManifestStore ==
  ASSUME TypeInv, StoreInv, NEW b \in Backups, UploadManifest(b)
  PROVE  StoreInv'
<1> DEFINE blob == Message("blob", <<>>, idx[b], job[b].key)
<1>1. /\ pc[b] = "close" /\ resp[b].status = "ok" /\ UNCHANGED <<job, idx, server>>
      /\ Call(b, "blob", blob)
  BY DEF UploadManifest, Answered
<1>2. blob.op = "blob" /\ blob.csum = idx[b] /\ blob.key = job[b].key
  BY DEF Message
<1> HIDE DEF blob
<1>3. Others(b) /\ pc'[b] = "blob" /\ req'[b] = blob
  BY <1>1, CallEffect DEF Others
<1>4. RunOK(b)'
  BY <1>1, <1>2, <1>3 DEF StoreInv, RunOK, WholeIndex, Names, Live, Ops
<1>5. DoneOK(b)' /\ (Holds(b) => HeldOK(b)')
  BY <1>1, <1>2, <1>3 DEF StoreInv, DoneOK, HeldOK, WholeIndex, Names, server, Ended
<1> QED
  BY <1>1, <1>3, <1>4, <1>5, ClientStep

LEMMA FinishStore ==
  ASSUME TypeInv, StoreInv, NEW b \in Backups, Finish(b)
  PROVE  StoreInv'
<1>1. /\ pc[b] = "blob" /\ UNCHANGED <<job, idx, server>>
      /\ Call(b, "finish", Request("finish"))
  BY DEF Finish, Answered
<1>2. Request("finish").op = "finish"
  BY RequestType DEF Ops
<1>3. Others(b) /\ pc'[b] = "finish" /\ req'[b].op = "finish" /\ resp'[b].status # "ok"
  BY <1>1, <1>2, CallEffect DEF Others
<1>4. RunOK(b)'
  BY <1>1, <1>3 DEF StoreInv, RunOK, WholeIndex, Names, Live, Ops
<1>5. DoneOK(b)' /\ (Holds(b) => HeldOK(b)')
  BY <1>1, <1>3 DEF StoreInv, DoneOK, HeldOK, WholeIndex, Names, server, Ended
<1> QED
  BY <1>1, <1>3, <1>4, <1>5, ClientStep

(* However a run ends: what it has on the way to the server stays there.   *)
LEMMA EndStore ==
  ASSUME TypeInv, StoreInv, NEW b \in Backups, NEW how \in Ended, pc[b] \in Live, End(b, how),
         how = "ok" => pc[b] = "finish" /\ resp[b].status = "ok"
  PROVE  StoreInv'
<1>1. /\ pc'[b] = how /\ idx'[b] = <<>> /\ UNCHANGED <<job, req, server>>
      /\ \A c \in Backups \ {b} : pc'[c] = pc[c] /\ idx'[c] = idx[c] /\ resp'[c] = resp[c]
  BY DEF End, TypeInv, TypeOK
<1>2. Others(b)
  BY <1>1 DEF Others
<1>3. RunOK(b)'
  BY <1>1 DEF StoreInv, RunOK, WholeIndex, Names, Live, Ops, Ended
<1>4. DoneOK(b)'
  BY <1>1 DEF StoreInv, DoneOK, Durable, Names, Ended, server
<1>5. Holds(b) => HeldOK(b)'
  BY <1>1 DEF StoreInv, HeldOK, WholeIndex, Names, Ended, server
<1> QED
  BY <1>1, <1>2, <1>3, <1>4, <1>5, ClientStep

LEMMA EndsStore ==
  ASSUME TypeInv, StoreInv, NEW b \in Backups,
         ReturnSuccess(b) \/ ReturnError(b) \/ PipelineFails(b) \/ Kill(b)
  PROVE  StoreInv'
<1>1. pc[b] \in Live
  BY DEF ReturnSuccess, ReturnError, PipelineFails, Kill, Answered, CallFails, Streaming, Live, Ops
<1>2. \/ End(b, "ok") /\ pc[b] = "finish" /\ resp[b].status = "ok"
      \/ End(b, "failed") \/ End(b, "killed")
  BY DEF ReturnSuccess, ReturnError, PipelineFails, Kill, Answered
<1> QED
  BY <1>1, <1>2, EndStore DEF Ended
-----------------------------------------------------------------------------
(* The steps of the server. *)

LEMMA ReplyEffect ==
  ASSUME TypeInv, NEW b \in Backups, NEW r, Reply(b, r), UNCHANGED client
  PROVE  /\ req'[b].op = "none" /\ UNCHANGED <<pc, job, idx>> /\ Others(b)
         /\ resp'[b].status = "ok" => r.status = "ok"
BY RequestType, ResponseType DEF Reply, TypeInv, TypeOK, client, Others

LEMMA RepliedRun ==
  ASSUME StoreInv, NEW b \in Backups, req'[b].op = "none", UNCHANGED <<pc, job, idx>>
  PROVE  RunOK(b)'
BY DEF StoreInv, RunOK, WholeIndex, Names

(* A request that is turned down, or lost with its connection.             *)
LEMMA RefuseStore ==
  ASSUME TypeInv, StoreInv, NEW b \in Backups, NEW st \in {"error", "refused"},
         Reply(b, Answer(st)), UNCHANGED <<client, server>>
  PROVE  StoreInv'
<1>1. /\ req'[b].op = "none" /\ resp'[b].status # "ok"
      /\ UNCHANGED <<pc, job, idx>> /\ Others(b)
  BY ReplyEffect, ResponseType
<1>2. RunOK(b)'
  BY <1>1, RepliedRun
<1>3. DoneOK(b)'
  BY <1>1 DEF StoreInv, DoneOK, Durable, Names, server
<1>4. Holds(b) => HeldOK(b)'
  BY <1>1 DEF StoreInv, HeldOK, WholeIndex, Names, server
<1> QED
  BY <1>1, <1>2, <1>3, <1>4, ClientStep

LEMMA DigestsOfSeq ==
  ASSUME NEW entries \in Seq(Entry)
  PROVE  /\ DOMAIN entries = 1 .. Len(entries)
         /\ \A i \in 1 .. Len(entries) : entries[i].digest \in Digests
<1>1. \A i \in 1 .. Len(entries) : entries[i] \in Entry
  BY ElementOfSeq
<1> QED
  BY <1>1 DEF Entry

(* Chunks are stored for good.                                             *)
LEMMA SnapStays ==
  ASSUME TypeInv, NEW t \in Times, SnapOK(t), snaps'[t] = snaps[t],
         \A g \in Digests : chunks[g] # Nothing => chunks'[g] # Nothing
  PROVE  SnapOK(t)'
<1>1. CASE snaps[t] = Nothing
  BY <1>1 DEF SnapOK
<1>2. CASE snaps[t] # Nothing
  <2>1. snaps[t].entries \in Seq(Entry)
    BY <1>2 DEF TypeInv, TypeOK, Snapshot
  <2> QED
    BY <1>2, <2>1, DigestsOfSeq DEF SnapOK
<1> QED
  BY <1>1, <1>2

(* A request of the session that is served, short of the commit.           *)
LEMMA ServeStep ==
  ASSUME TypeInv, StoreInv, NEW b \in Backups, NEW r, Reply(b, r), UNCHANGED <<client, snaps>>,
         req[b].op \notin {"none", "finish"},
         \A g \in Digests : chunks[g] # Nothing => chunks'[g] # Nothing, Sealed',
         \A c \in Backups : Holds(c)' => c = b, HeldOK(b)'
  PROVE  StoreInv'
<1>1. req'[b].op = "none" /\ UNCHANGED <<pc, job, idx>> /\ Others(b)
  BY ReplyEffect
<1>2. RunOK(b)'
  BY <1>1, RepliedRun
<1>3. DoneOK(b)'
  BY <1>1 DEF StoreInv, RunOK, DoneOK, Durable, Names, Ended
<1>4. ASSUME NEW c \in Backups PROVE RunOK(c)' /\ DoneOK(c)' /\ (Holds(c)' => HeldOK(c)')
  <2>1. CASE c = b
    BY <1>2, <1>3, <2>1
  <2>2. CASE c # b
    BY <1>1, <2>2, OthersKept DEF StoreInv
  <2> QED
    BY <2>1, <2>2
<1>5. \A t \in Times : SnapOK(t)'
  BY SnapStays DEF StoreInv
<1> QED
  BY <1>4, <1>5 DEF StoreInv

LEMMA ServeBeginStore ==
  ASSUME TypeInv, StoreInv, NEW b \in Backups, ServeBegin(b)
  PROVE  StoreInv'
<1>1. CASE Reply(b, Answer("error")) /\ UNCHANGED session
  BY <1>1, RefuseStore DEF ServeBegin, server
<1>2. CASE /\ \A t \in Times : snaps[t] # Nothing => t < job[b].time
           /\ session' = NewSession(b) /\ Reply(b, Answer("ok"))
  <2>1. req[b].op = "begin" /\ UNCHANGED <<client, chunks, snaps>>
    BY DEF ServeBegin
  <2>2. pc[b] \in {"begin"} \union Ended
    BY <2>1 DEF StoreInv, RunOK
  <2>3. req'[b].op = "none" /\ UNCHANGED <<pc, job, idx>>
    BY <1>2, <2>1, ReplyEffect
  <2>4. HeldOK(b)'
    BY <1>2, <2>1, <2>2, <2>3 DEF HeldOK, NewSession, Contiguous, Ended
  <2>5. \A c \in Backups : Holds(c)' => c = b
    BY <1>2 DEF Holds, NewSession
  <2>6. Sealed'
    BY <2>1 DEF StoreInv, Sealed
  <2> QED
    BY <1>2, <2>1, <2>4, <2>5, <2>6, ServeStep
<1> QED
  BY <1>1, <1>2 DEF ServeBegin

(* The session of a served request stays with its run.                     *)
LEMMA SessionStays ==
  ASSUME TypeInv, NEW b \in Backups, Holds(b), session'.owner = session.owner
  PROVE  \A c \in Backups : Holds(c)' => c = b
BY DEF Holds

LEMMA ServePreviousStore ==
  ASSUME TypeInv, StoreInv, NEW b \in Backups, ServePrevious(b)
  PROVE  StoreInv'
<1>1. CASE Reply(b, Answer("error")) /\ UNCHANGED session
  BY <1>1, RefuseStore DEF ServePrevious, server
<1>2. ASSUME NEW t \in Times, Newest(t),
             session' = [session EXCEPT !.registered = @ \union DigestsOf(snaps[t].entries)],
             Reply(b, [status |-> "ok", digests |-> DigestsOf(snaps[t].entries)])
      PROVE  StoreInv'
  <2>1. /\ req[b].op = "previous" /\ Holds(b) /\ UNCHANGED <<client, chunks, snaps>>
        /\ session \in Sessions
    BY SessionHeld DEF ServePrevious
  <2>2. HeldOK(b) /\ pc[b] \in {"previous"} \union Ended
    BY <2>1 DEF StoreInv, RunOK
  <2>3. req'[b].op = "none" /\ UNCHANGED <<pc, job, idx>>
    BY <1>2, <2>1, ReplyEffect
  <2>4. \A g \in DigestsOf(snaps[t].entries) : chunks[g] # Nothing
    <3>1. snaps[t] # Nothing /\ snaps[t].entries \in Seq(Entry)
      BY <1>2 DEF Newest, TypeInv, TypeOK, Snapshot
    <3> QED
      BY <3>1, DigestsOfSeq DEF StoreInv, SnapOK, DigestsOf
  <2>5. /\ session'.registered = session.registered \union DigestsOf(snaps[t].entries)
        /\ session'.writer = session.writer /\ session'.wid = session.wid
        /\ session'.manifest = session.manifest /\ session'.owner = session.owner
    BY <1>2, <2>1 DEF Sessions
  <2>6. HeldOK(b)'
    BY <2>1, <2>2, <2>3, <2>4, <2>5 DEF HeldOK, Ended, Contiguous, StartOffset
  <2>7. Sealed'
    BY <2>1 DEF StoreInv, Sealed
  <2> QED
    BY <1>2, <2>1, <2>5, <2>6, <2>7, SessionStays, ServeStep
<1> QED
  BY <1>1, <1>2 DEF ServePrevious

LEMMA ServeCreateStore ==
  ASSUME TypeInv, StoreInv, NEW b \in Backups, ServeCreate(b)
  PROVE  StoreInv'
<1>1. /\ req[b].op = "create" /\ Holds(b) /\ UNCHANGED <<client, chunks, snaps>>
      /\ Reply(b, Answer("ok")) /\ session \in Sessions
  BY SessionHeld DEF ServeCreate
<1>2. HeldOK(b) /\ pc[b] \in {"create"} \union Ended
  BY <1>1 DEF StoreInv, RunOK
<1>3. req'[b].op = "none" /\ UNCHANGED <<pc, job, idx>>
  BY <1>1, ReplyEffect
<1>4. /\ session'.registered = session.registered
      /\ session'.writer = session.writer /\ session'.wid = "open"
      /\ session'.manifest = session.manifest /\ session'.owner = session.owner
  BY <1>1 DEF ServeCreate, Sessions
<1>5. HeldOK(b)'
  BY <1>1, <1>2, <1>3, <1>4 DEF HeldOK, Ended, Contiguous, StartOffset
<1>6. Sealed'
  BY <1>1 DEF StoreInv, Sealed
<1> QED
  BY <1>1, <1>4, <1>5, <1>6, SessionStays, ServeStep

LEMMA ServePutStore ==
  ASSUME TypeInv, StoreInv, NEW b \in Backups, ServePut(b)
  PROVE  StoreInv'
<1> DEFINE g == req[b].refs[1].digest
<1>1. /\ req[b].op = "put" /\ Holds(b) /\ UNCHANGED <<client, snaps>>
      /\ Reply(b, Answer("ok")) /\ session \in Sessions
  BY SessionHeld DEF ServePut
<1>2. HeldOK(b) /\ pc[b] \in {"put"} \union Ended /\ g.key = req[b].key
  BY <1>1 DEF StoreInv, RunOK
<1>3. req'[b].op = "none" /\ UNCHANGED <<pc, job, idx>>
  BY <1>1, ReplyEffect
<1>4. g \in Digests
  <2>1. req[b].refs \in Seq(Ref) /\ Len(req[b].refs) = 1
    BY <1>1 DEF TypeInv, TypeOK, OneChunkPerPut, Requests
  <2>2. req[b].refs[1] \in Ref
    BY <2>1, ElementOfSeq
  <2> QED
    BY <2>2 DEF Ref
<1>5. /\ chunks' = [chunks EXCEPT ![g] = IF @ = Nothing THEN Blob(g.data, g.key) ELSE @]
      /\ session' = [session EXCEPT !.registered = @ \union {g}]
  BY <1>2 DEF ServePut
<1> HIDE DEF g
<1>6. Blob(g.data, g.key) # Nothing
  BY <1>4, UploadAssumption DEF Digests, Blob, Blobs
<1>7. /\ \A h \in Digests : chunks[h] # Nothing => chunks'[h] = chunks[h]
      /\ chunks'[g] # Nothing
      /\ \A h \in Digests : h # g => chunks'[h] = chunks[h]
      /\ chunks[g] = Nothing => chunks'[g] = Blob(g.data, g.key)
  BY <1>4, <1>5, <1>6 DEF TypeInv, TypeOK
<1>8. Sealed'
  BY <1>7 DEF StoreInv, Sealed
<1>9. /\ session'.registered = session.registered \union {g}
      /\ session'.writer = session.writer /\ session'.wid = session.wid
      /\ session'.manifest = session.manifest /\ session'.owner = session.owner
      /\ session.registered \subseteq Digests
  BY <1>1, <1>5 DEF Sessions
<1>10. HeldOK(b)'
  BY <1>1, <1>2, <1>3, <1>7, <1>9 DEF HeldOK, Ended, Contiguous, StartOffset
<1> QED
  BY <1>1, <1>7, <1>8, <1>9, <1>10, SessionStays, ServeStep

(* What an append of accepted references makes of a contiguous index.      *)
LEMMA AppendRefs ==
  ASSUME NEW w \in Seq(Entry), NEW refs \in Seq(Ref), Contiguous(w),
         Len(refs) > 0 => refs[1].start = EndOf(w),
         \A i \in DOMAIN refs : i > 1 => refs[i].start = RefEnd(refs, i - 1),
         NEW new \in Seq(Entry), Len(new) = Len(refs),
         \A j \in 1 .. Len(refs) : new[j].digest = refs[j].digest /\ new[j].end = RefEnd(refs, j)
  PROVE  /\ Contiguous(w \o new)
         /\ \A i \in 1 .. Len(w \o new) :
              \/ i \in 1 .. Len(w) /\ (w \o new)[i] = w[i]
              \/ \E j \in 1 .. Len(refs) : (w \o new)[i].digest = refs[j].digest
<1>1. /\ w \o new \in Seq(Entry) /\ Len(w \o new) = Len(w) + Len(new)
      /\ \A i \in 1 .. Len(w) : (w \o new)[i] = w[i]
      /\ \A j \in 1 .. Len(new) : (w \o new)[Len(w) + j] = new[j]
      /\ Len(w) \in Nat /\ Len(new) \in Nat /\ Len(refs) \in Nat
  BY ConcatProperties
<1>2. DOMAIN refs = 1 .. Len(refs)
  OBVIOUS
<1>3. Len(new) = Len(refs) /\ \A j \in 1 .. Len(refs) : new[j].digest = refs[j].digest
                           /\ new[j].end = RefEnd(refs, j)
  OBVIOUS
<1>4. ASSUME NEW i \in 1 .. Len(w \o new), i > Len(w)
      PROVE  i - Len(w) \in 1 .. Len(refs) /\ (w \o new)[i] = new[i - Len(w)]
  BY <1>1, <1>3, <1>4
<1>5. ASSUME NEW i \in 1 .. Len(w \o new)
      PROVE  (w \o new)[i].end = StartOffset(w \o new, i) + Size[(w \o new)[i].digest.data]
  <2>1. CASE i \in 1 .. Len(w)
    <3>1. w[i].end = StartOffset(w, i) + Size[w[i].digest.data]
      BY <2>1 DEF Contiguous
    <3>2. StartOffset(w \o new, i) = StartOffset(w, i)
      BY <1>1, <2>1 DEF StartOffset
    <3> QED
      BY <1>1, <2>1, <3>1, <3>2
  <2>2. CASE i > Len(w)
    <3> DEFINE j == i - Len(w)
    <3>1. j \in 1 .. Len(refs) /\ (w \o new)[i] = new[j] /\ j \in Nat
      BY <1>1, <1>4, <2>2
    <3>2. refs[j].start = StartOffset(w \o new, i)
      <4>1. CASE j = 1
        <5>1. refs[1].start = EndOf(w)
          BY <1>1, <3>1, <4>1
        <5>2. CASE Len(w) = 0
          BY <1>1, <4>1, <5>1, <5>2 DEF EndOf, StartOffset
        <5>3. CASE Len(w) # 0
          <6>1. i - 1 = Len(w) /\ i # 1 /\ Len(w) \in 1 .. Len(w)
            BY <1>1, <4>1, <5>3
          <6>2. StartOffset(w \o new, i) = w[Len(w)].end
            BY <1>1, <6>1 DEF StartOffset
          <6> QED
            BY <4>1, <5>1, <5>3, <6>2 DEF EndOf
        <5> QED
          BY <5>2, <5>3
      <4>2. CASE j # 1
        <5>1. j > 1 /\ j - 1 \in 1 .. Len(refs) /\ i # 1
          BY <1>1, <3>1, <4>2
        <5>2. (i - 1) - Len(w) = j - 1 /\ i - 1 \in 1 .. Len(w \o new) /\ i - 1 > Len(w)
          BY <1>1, <1>3, <3>1, <5>1
        <5>3. (w \o new)[i - 1] = new[j - 1]
          BY <1>4, <5>2
        <5>4. refs[j].start = RefEnd(refs, j - 1)
          BY <1>2, <3>1, <5>1
        <5> QED
          BY <1>3, <5>1, <5>3, <5>4 DEF StartOffset
      <4> QED
        BY <4>1, <4>2
    <3>3. new[j].end = refs[j].start + Size[new[j].digest.data]
      BY <1>3, <3>1 DEF RefEnd
    <3> QED
      BY <3>1, <3>2, <3>3
  <2> QED
    BY <1>1, <2>1, <2>2
<1>6. Contiguous(w \o new)
  <2>1. DOMAIN (w \o new) = 1 .. Len(w \o new)
    BY <1>1
  <2> QED
    BY <1>5, <2>1 DEF Contiguous
<1>7. ASSUME NEW i \in 1 .. Len(w \o new)
      PROVE  \/ i \in 1 .. Len(w) /\ (w \o new)[i] = w[i]
             \/ \E j \in 1 .. Len(refs) : (w \o new)[i].digest = refs[j].digest
  <2>1. CASE i \in 1 .. Len(w)
    BY <1>1, <2>1
  <2>2. CASE i > Len(w)
    <3>1. i - Len(w) \in 1 .. Len(refs) /\ (w \o new)[i] = new[i - Len(w)]
      BY <1>4, <2>2
    <3>2. new[i - Len(w)].digest = refs[i - Len(w)].digest
      BY <1>3, <3>1
    <3> QED
      BY <3>1, <3>2
  <2>3. i \in 1 .. Len(w) \/ i > Len(w)
    BY <1>1
  <2> QED
    BY <2>1, <2>2, <2>3, Zenon
<1> QED
  BY <1>6, <1>7

LEMMA ServeAppendStore ==
  ASSUME TypeInv, StoreInv, NEW b \in Backups, ServeAppend(b)
  PROVE  StoreInv'
<1> DEFINE refs == req[b].refs
           new == [i \in DOMAIN refs |-> [end |-> RefEnd(refs, i), digest |-> refs[i].digest]]
<1>1. /\ req[b].op = "append" /\ Holds(b) /\ UNCHANGED <<client, chunks, snaps>>
      /\ session \in Sessions
  BY SessionHeld DEF ServeAppend
<1>2. CASE Reply(b, Answer("refused")) /\ UNCHANGED session
  BY <1>1, <1>2, RefuseStore DEF server
<1>3. CASE /\ Appendable(refs) /\ Reply(b, Answer("ok"))
           /\ session' = [session EXCEPT !.writer = @ \o new]
  <2>1. HeldOK(b) /\ pc[b] \in {"append"} \union Ended
    BY <1>1 DEF StoreInv, RunOK
  <2>2. req'[b].op = "none" /\ UNCHANGED <<pc, job, idx>>
    BY <1>1, <1>3, ReplyEffect
  <2>3. refs \in Seq(Ref) /\ session.writer \in Seq(Entry)
    BY <1>1 DEF TypeInv, TypeOK, Requests, Sessions
  <2>4. new \in Seq(Entry)
    <3>1. DOMAIN refs = 1 .. Len(refs) /\ Len(refs) \in Nat
      BY <2>3
    <3>2. ASSUME NEW i \in DOMAIN refs
          PROVE  [end |-> RefEnd(refs, i), digest |-> refs[i].digest] \in Entry
      <4>1. refs[i] \in Ref
        BY <2>3, <3>1, <3>2, ElementOfSeq
      <4>2. refs[i].start \in Nat /\ refs[i].digest \in Digests /\ refs[i].digest.data \in Data
        BY <4>1 DEF Ref, Digests
      <4> QED
        BY <4>2, UploadAssumption DEF RefEnd, Entry
    <3> QED
      BY <3>1, <3>2, IsASeq
  <2>5. /\ session'.registered = session.registered
        /\ session'.writer = session.writer \o new /\ session'.wid = session.wid
        /\ session'.manifest = session.manifest /\ session'.owner = session.owner
    BY <1>1, <1>3 DEF Sessions
  <2>6. /\ \A i \in 1 .. Len(refs) : refs[i].digest \in session.registered
                                     /\ refs[i].digest.key = job[b].key
        /\ Len(refs) > 0 => refs[1].start = EndOf(session.writer)
        /\ \A i \in DOMAIN refs : i > 1 => refs[i].start = RefEnd(refs, i - 1)
    BY <1>1, <1>3, <2>3 DEF Appendable, StoreInv, RunOK
  <2> DEFINE w == session.writer \o new
  <2>7. /\ Contiguous(w)
        /\ \A i \in 1 .. Len(w) : \/ i \in 1 .. Len(session.writer) /\ w[i] = session.writer[i]
                                  \/ \E j \in 1 .. Len(refs) : w[i].digest = refs[j].digest
    <3>1. Contiguous(session.writer)
      BY <2>1 DEF HeldOK
    <3>2. /\ Len(new) = Len(refs)
          /\ \A j \in 1 .. Len(refs) : new[j].digest = refs[j].digest
                                      /\ new[j].end = RefEnd(refs, j)
      BY <2>3, <2>4
    <3> HIDE DEF refs, new
    <3> QED
      BY <2>3, <2>4, <2>6, <3>1, <3>2, AppendRefs
  <2> HIDE DEF refs, new, w
  <2>8. \A i \in 1 .. Len(w) :
          w[i].digest \in session.registered /\ w[i].digest.key = job[b].key
    BY <2>1, <2>6, <2>7 DEF HeldOK
  <2>9. session'.writer = w
    BY <2>5 DEF w
  <2>10. HeldOK(b)'
    <3>1. session.wid # "closed" /\ session.manifest = Nothing
      BY <1>1, <2>1 DEF HeldOK
    <3>2. Contiguous(session.writer)'
      BY <2>7, <2>9 DEF Contiguous, StartOffset
    <3> QED
      BY <1>1, <2>1, <2>2, <2>5, <2>8, <2>9, <3>1, <3>2 DEF HeldOK, Ended
  <2>11. Sealed'
    BY <1>1 DEF StoreInv, Sealed
  <2> QED
    BY <1>1, <1>3, <2>5, <2>10, <2>11, SessionStays, ServeStep
<1> QED
  BY <1>1, <1>2, <1>3 DEF ServeAppend

LEMMA ServeCloseStore ==
  ASSUME TypeInv, StoreInv, NEW b \in Backups, ServeClose(b)
  PROVE  StoreInv'
<1>1. /\ req[b].op = "close" /\ Holds(b) /\ UNCHANGED <<client, chunks, snaps>>
      /\ session \in Sessions
  BY SessionHeld DEF ServeClose
<1>2. CASE Reply(b, Answer("refused")) /\ UNCHANGED session
  BY <1>1, <1>2, RefuseStore DEF server
<1>3. CASE /\ session.writer = req[b].csum /\ Reply(b, Answer("ok"))
           /\ session' = [session EXCEPT !.wid = "closed"]
  <2>1. /\ HeldOK(b) /\ pc[b] \in {"close"} \union Ended /\ (pc[b] = "close" => req[b].csum = idx[b])
        /\ WholeIndex(b, req[b].csum)
    BY <1>1 DEF StoreInv, RunOK
  <2>2. req'[b].op = "none" /\ UNCHANGED <<pc, job, idx>>
    BY <1>1, <1>3, ReplyEffect
  <2>3. /\ session'.registered = session.registered
        /\ session'.writer = session.writer /\ session'.wid = "closed"
        /\ session'.manifest = session.manifest /\ session'.owner = session.owner
    BY <1>1, <1>3 DEF Sessions
  <2>4. HeldOK(b)'
    BY <1>1, <1>3, <2>1, <2>2, <2>3 DEF HeldOK, WholeIndex, Names, Ended, Contiguous, StartOffset
  <2>5. Sealed'
    BY <1>1 DEF StoreInv, Sealed
  <2> QED
    BY <1>1, <1>3, <2>3, <2>4, <2>5, SessionStays, ServeStep
<1> QED
  BY <1>1, <1>2, <1>3 DEF ServeClose

LEMMA ServeBlobStore ==
  ASSUME TypeInv, StoreInv, NEW b \in Backups, ServeBlob(b)
  PROVE  StoreInv'
<1>1. /\ req[b].op = "blob" /\ Holds(b) /\ UNCHANGED <<client, chunks, snaps>>
      /\ Reply(b, Answer("ok")) /\ session \in Sessions
      /\ session' = [session EXCEPT !.manifest = [csum |-> req[b].csum, key |-> req[b].key]]
  BY SessionHeld DEF ServeBlob
<1>2. /\ HeldOK(b) /\ req[b].key = job[b].key /\ req[b].csum = session.writer
      /\ session.wid = "closed"
  BY <1>1 DEF StoreInv, RunOK, HeldOK
<1>3. req'[b].op = "none" /\ UNCHANGED <<pc, job, idx>>
  BY <1>1, ReplyEffect
<1>4. /\ session'.registered = session.registered
      /\ session'.writer = session.writer /\ session'.wid = "closed"
      /\ session'.manifest = [csum |-> session.writer, key |-> job[b].key]
      /\ session'.owner = session.owner
  BY <1>1, <1>2 DEF Sessions
<1>5. pc[b] \in {"blob"} \union Ended
  BY <1>1 DEF StoreInv, RunOK
<1>6. HeldOK(b)'
  BY <1>1, <1>2, <1>3, <1>4, <1>5 DEF HeldOK, WholeIndex, Names, Ended, Contiguous, StartOffset
<1>7. Sealed'
  BY <1>1 DEF StoreInv, Sealed
<1> QED
  BY <1>1, <1>4, <1>6, <1>7, SessionStays, ServeStep

(* The commit: the snapshot is the index of the session, and newer than    *)
(* every other, so none is replaced.                                       *)
LEMMA ServeFinishStore ==
  ASSUME TypeInv, StoreInv, NEW b \in Backups, ServeFinish(b)
  PROVE  StoreInv'
<1>1. /\ req[b].op = "finish" /\ Holds(b) /\ UNCHANGED <<client, chunks>>
      /\ session \in Sessions
  BY SessionHeld DEF ServeFinish
<1>2. CASE Reply(b, Answer("refused")) /\ UNCHANGED <<session, snaps>>
  BY <1>1, <1>2, RefuseStore DEF server
<1> DEFINE t0 == job[b].time
           s0 == [entries |-> session.writer, csum |-> session.manifest.csum,
                  key |-> session.manifest.key, by |-> b]
<1>3. CASE /\ session.wid = "closed" /\ session.manifest # Nothing
           /\ snaps' = [snaps EXCEPT ![t0] = s0]
           /\ session' = Nothing /\ Reply(b, Answer("ok"))
  <2>1. HeldOK(b) /\ pc[b] \in {"finish"} \union Ended /\ RunOK(b) /\ DoneOK(b)
    BY <1>1 DEF StoreInv, RunOK
  <2>2. req'[b].op = "none" /\ UNCHANGED <<pc, job, idx>> /\ Others(b)
    BY <1>1, <1>3, ReplyEffect
  <2>3. pc[b] # "idle" /\ t0 \in Times /\ job[b].src \in Seq(Data) /\ t0 \in Nat
    BY <2>1, JobAtWork, UploadAssumption DEF HeldOK
  <2>4. session.manifest = [csum |-> session.writer, key |-> job[b].key]
    BY <1>3, <2>1 DEF HeldOK
  <2>5. s0 \in Snapshot /\ s0 # Nothing
    <3>1. session.writer \in Seq(Entry) /\ session.manifest \in Manifest
      BY <1>1, <1>3 DEF Sessions
    <3> QED
      BY <3>1, UploadAssumption DEF Manifest, Snapshot
  <2>6. /\ s0.entries = session.writer /\ s0.csum = session.writer /\ s0.key = job[b].key
        /\ s0.by = b /\ snaps[t0] = Nothing
    BY <2>1, <2>3, <2>4 DEF HeldOK
  <2> HIDE DEF s0
  <2>7. snaps'[t0] = s0 /\ \A t \in Times : t # t0 => snaps'[t] = snaps[t]
    BY <1>3, <2>3 DEF TypeInv, TypeOK
  <2>8. ASSUME NEW t \in Times PROVE SnapOK(t)'
    <3>1. CASE t = t0
      <4>1. /\ \A i \in 1 .. Len(s0.entries) : chunks[s0.entries[i].digest] # Nothing
                                               /\ s0.entries[i].digest.key = s0.key
            /\ Contiguous(s0.entries) /\ s0.csum = s0.entries
        BY <2>1, <2>6 DEF HeldOK
      <4>2. snaps'[t] = s0 /\ chunks' = chunks
        BY <1>1, <2>7, <3>1
      <4>3. Contiguous(snaps[t].entries)'
        BY <4>1, <4>2 DEF Contiguous, StartOffset
      <4> QED
        BY <4>1, <4>2, <4>3 DEF SnapOK
    <3>2. CASE t # t0
      BY <1>1, <2>7, <3>2, SnapStays DEF StoreInv
    <3> QED
      BY <3>1, <3>2
  <2>9. ASSUME NEW c \in Backups PROVE DoneOK(c)'
    <3> DEFINE Told(x) == pc'[x] = "ok" \/ (pc'[x] = "finish" /\ resp'[x].status = "ok")
               Mine(x) == \A t \in Times : snaps'[t] # Nothing /\ snaps'[t].by = x =>
                            pc'[x] \in {"finish"} \union Ended /\ job'[x].time = t
    <3>3. Mine(c)
      <4> SUFFICES ASSUME NEW t \in Times, snaps'[t] # Nothing, snaps'[t].by = c
                   PROVE  pc'[c] \in {"finish"} \union Ended /\ job'[c].time = t
        OBVIOUS
      <4>1. CASE t = t0
        BY <2>1, <2>2, <2>6, <2>7, <4>1
      <4>2. CASE t # t0
        BY <2>2, <2>7, <4>2 DEF StoreInv, DoneOK
      <4> QED
        BY <4>1, <4>2
    <3> HIDE DEF Mine
    <3>1. ASSUME c # b, Told(c) PROVE Durable(c)'
      <4>1. pc'[c] = pc[c] /\ resp'[c] = resp[c] /\ job' = job /\ DoneOK(c)
        BY <2>2, <3>1 DEF StoreInv, Others
      <4>2. Durable(c) /\ pc[c] # "idle"
        BY <3>1, <4>1 DEF DoneOK
      <4>3. job[c].time \in Times /\ job[c].time # t0
        BY <2>6, <4>2, JobAtWork DEF Durable
      <4>4. snaps'[job[c].time] = snaps[job[c].time]
        BY <2>7, <4>3
      <4> QED
        BY <4>1, <4>2, <4>4 DEF Durable, Names
    <3>2. ASSUME Told(b) PROVE Durable(b)'
      <4>1. WholeIndex(b, session.writer)
        BY <1>3, <2>1 DEF HeldOK
      <4> QED
        BY <2>2, <2>5, <2>6, <2>7, <4>1 DEF Durable, Names, WholeIndex
    <3>4. Told(c) => Durable(c)'
      BY <3>1, <3>2
    <3> QED
      BY <3>3, <3>4 DEF DoneOK, Mine
  <2>10. ASSUME NEW c \in Backups PROVE RunOK(c)' /\ ~Holds(c)'
    <3>1. ~Holds(c)'
      BY <1>3 DEF Holds
    <3> QED
      BY <2>2, <3>1, RepliedRun, OthersKept DEF StoreInv
  <2>11. Sealed'
    BY <1>1 DEF StoreInv, Sealed
  <2> QED
    BY <2>8, <2>9, <2>10, <2>11 DEF StoreInv
<1> QED
  BY <1>1, <1>2, <1>3 DEF ServeFinish

LEMMA DropStore ==
  ASSUME TypeInv, StoreInv, NEW b \in Backups, DropConnection(b)
  PROVE  StoreInv'
<1>1. /\ req'[b].op = "none" /\ UNCHANGED <<pc, job, idx, resp, chunks, snaps>>
      /\ \A c \in Backups \ {b} : req'[c] = req[c]
      /\ session' = IF Holds(b) THEN Nothing ELSE session
  BY RequestType DEF DropConnection, client, TypeInv, TypeOK
<1>2. Others(b)
  BY <1>1 DEF Others
<1>3. RunOK(b)' /\ DoneOK(b)'
  BY <1>1, RepliedRun DEF StoreInv, DoneOK, Durable, Names
<1>4. CASE Holds(b)
  <2>1. \A c \in Backups : ~Holds(c)'
    BY <1>1, <1>4 DEF Holds
  <2>2. \A c \in Backups : RunOK(c)' /\ DoneOK(c)'
    BY <1>1, <1>2, <1>3, OthersKept DEF StoreInv
  <2>3. Sealed' /\ \A t \in Times : SnapOK(t)'
    BY <1>1 DEF StoreInv, Sealed, SnapOK
  <2> QED
    BY <2>1, <2>2, <2>3 DEF StoreInv
<1>5. CASE ~Holds(b)
  BY <1>1, <1>2, <1>3, <1>5, ClientStep DEF server
<1> QED
  BY <1>4, <1>5

LEMMA StillStore ==
  ASSUME StoreInv, UNCHANGED <<client, req, resp, server>>
  PROVE  StoreInv'
<1>1. Sealed' /\ \A t \in Times : SnapOK(t)'
  BY DEF StoreInv, Sealed, SnapOK, server
<1>2. ASSUME NEW b \in Backups PROVE RunOK(b)' /\ DoneOK(b)' /\ (Holds(b)' => HeldOK(b)')
  BY DEF StoreInv, RunOK, WholeIndex, DoneOK, Durable, Names, HeldOK, Holds, client, server
<1> QED
  BY <1>1, <1>2 DEF StoreInv

LEMMA StoreNext == TypeInv /\ StoreInv /\ [Next]_vars => StoreInv'
<1> SUFFICES ASSUME TypeInv, StoreInv, [Next]_vars PROVE StoreInv'
  OBVIOUS
<1>1. ASSUME NEW b \in Backups, Client(b) PROVE StoreInv'
  BY <1>1, BeginStore, DownloadStore, StreamStore, AppendStore, CloseStore, ManifestStore,
     FinishStore, EndsStore DEF Client
<1>2. ASSUME NEW b \in Backups, Serve(b) PROVE StoreInv'
  BY <1>2, ServeBeginStore, ServePreviousStore, ServeCreateStore, ServePutStore,
     ServeAppendStore, ServeCloseStore, ServeBlobStore, ServeFinishStore DEF Serve
<1>3. ASSUME NEW b \in Backups, DropConnection(b) PROVE StoreInv'
  BY <1>3, DropStore
<1>4. ASSUME NEW b \in Backups, Faults(b) PROVE StoreInv'
  <2>1. CASE Break(b)
    BY <2>1, StillStore DEF Break
  <2>2. CASE Kill(b) \/ PipelineFails(b)
    BY <2>2, EndsStore
  <2>3. CASE ServerError(b)
    BY <2>3, RefuseStore DEF ServerError
  <2> QED
    BY <1>4, <2>1, <2>2, <2>3 DEF Faults
<1>5. CASE Tick
  BY <1>5, StillStore DEF Tick
<1>6. CASE UNCHANGED vars
  BY <1>6, StillStore DEF vars
<1>7. Faulty \subseteq Backups
  BY UploadAssumption
<1> QED
  BY <1>1, <1>2, <1>3, <1>4, <1>5, <1>6, <1>7 DEF Next, AllEnded

(* A stored chunk opens with the key its digest names.                     *)
LEMMA SealedOpens ==
  ASSUME Sealed, NEW g \in Digests, chunks[g] # Nothing
  PROVE  Opened(g, g.key) = g.data
<1>1. chunks[g] = Blob(g.data, g.key)
  BY DEF Sealed
<1>2. Blob(g.data, g.key).plain = g.data /\ Blob(g.data, g.key).sealed = g.key
  BY DEF Blob
<1> QED
  BY <1>1, <1>2 DEF Opened

(* Every committed snapshot can be restored, for any number of runs that   *)
(* overlap, fail, are killed or lose their connections: its chunks are in  *)
(* the datastore under its key, its offsets and its checksum are right.    *)
THEOREM SnapshotsAreComplete == Spec => []SnapshotsComplete
<1>1. ASSUME TypeInv, StoreInv, NEW t \in Times, snaps[t] # Nothing
      PROVE  /\ \A i \in DOMAIN snaps[t].entries :
                  Opened(snaps[t].entries[i].digest, snaps[t].key)
                    = snaps[t].entries[i].digest.data
             /\ Contiguous(snaps[t].entries)
             /\ snaps[t].csum = snaps[t].entries
  <2>1. snaps[t].entries \in Seq(Entry)
    BY <1>1 DEF TypeInv, TypeOK, Snapshot
  <2> QED
    BY <1>1, <2>1, DigestsOfSeq, SealedOpens DEF StoreInv, SnapOK
<1>2. TypeInv /\ StoreInv => SnapshotsComplete
  BY <1>1 DEF SnapshotsComplete
<1> QED
  BY <1>2, TypeInit, TypeNext, StoreInit, StoreNext, PTL DEF Spec

(* Whatever happens after a run has reported success, reading back its     *)
(* snapshot under its key gives the archive that it streamed.              *)
THEOREM SuccessesAreDurable == Spec => []SuccessIsDurable
<1>1. ASSUME TypeInv, StoreInv, NEW b \in Backups, pc[b] = "ok"
      PROVE  LET s == snaps[job[b].time]
             IN s # Nothing /\ s.key = job[b].key /\ ReadBack(s) = job[b].src
  <2> DEFINE s == snaps[job[b].time]
  <2>1. Durable(b) /\ job[b].src \in Seq(Data) /\ job[b].time \in Times
    BY <1>1, JobAtWork DEF StoreInv, DoneOK
  <2>2. /\ s # Nothing /\ s.key = job[b].key /\ Len(s.entries) = Len(job[b].src)
        /\ \A i \in 1 .. Len(job[b].src) : s.entries[i].digest = Names(b, i)
    BY <2>1 DEF Durable
  <2>3. s.entries \in Seq(Entry) /\ SnapOK(job[b].time)
    BY <1>1, <2>1, <2>2 DEF TypeInv, TypeOK, Snapshot, StoreInv
  <2>4. ASSUME NEW i \in 1 .. Len(job[b].src)
        PROVE  Opened(s.entries[i].digest, s.key) = job[b].src[i]
    <3>1. /\ s.entries[i].digest \in Digests /\ chunks[s.entries[i].digest] # Nothing
          /\ s.entries[i].digest.key = s.key
      BY <2>2, <2>3, DigestsOfSeq DEF SnapOK
    <3>2. s.entries[i].digest.data = job[b].src[i]
      <4>1. Names(b, i).data = job[b].src[i]
        BY DEF Names, Digest
      <4>2. s.entries[i].digest = Names(b, i)
        BY <2>2
      <4> QED
        BY <4>1, <4>2
    <3> QED
      BY <1>1, <3>1, <3>2, SealedOpens DEF StoreInv
  <2>5. ReadBack(s) = [i \in 1 .. Len(job[b].src) |-> job[b].src[i]]
    <3>1. DOMAIN s.entries = 1 .. Len(job[b].src)
      BY <2>2, <2>3, DigestsOfSeq
    <3> QED
      BY <2>4, <3>1 DEF ReadBack
  <2>6. job[b].src = [i \in 1 .. Len(job[b].src) |-> job[b].src[i]]
    BY <2>1
  <2> QED
    BY <2>2, <2>5, <2>6
<1>2. TypeInv /\ StoreInv => SuccessIsDurable
  BY <1>1 DEF SuccessIsDurable
<1> QED
  BY <1>2, TypeInit, TypeNext, StoreInit, StoreNext, PTL DEF Spec
-----------------------------------------------------------------------------
(***************************************************************************)
(* Upload implements SnapshotStore: what a restore could read changes only *)
(* as the abstract store does, whatever is lost, killed or interleaved.    *)
(***************************************************************************)

Asked == [b \in Backups |-> AskedOf(b)]
Phase == [b \in Backups |-> PhaseOf(b)]
Told == [b \in Backups |-> ToldOf(b)]

AbstractStep ==
  \/ UNCHANGED <<StoreSeen, Asked, Phase, Told>>
  \/ \E b \in Backups :
       \/ Abstract!Begin(b) \/ Abstract!Offer(b) \/ Abstract!Commit(b)
       \/ Abstract!Succeed(b) \/ Abstract!Fail(b) \/ Abstract!Lose(b)

(* A run that has a job is not the abstract "idle" one.                    *)
LEMMA JobIsAsked ==
  ASSUME TypeInv, StoreInv, NEW b \in Backups
  PROVE  /\ pc[b] = "idle" <=> job[b] = Nothing
         /\ Committed(b) /\ job[b] # Nothing => pc[b] \in {"finish"} \union Ended
<1>1. pc[b] = "idle" => job[b] = Nothing
  BY DEF StoreInv, RunOK
<1>2. pc[b] # "idle" => job[b] # Nothing
  BY JobAtWork, UploadAssumption
<1>3. job[b] # Nothing => job[b].time \in Times
  BY <1>1, JobAtWork
<1> QED
  BY <1>1, <1>2, <1>3 DEF StoreInv, DoneOK, Committed

(* Blobs are never replaced, so what a snapshot reads back stays the same. *)
LEMMA StoreSeenKept ==
  ASSUME TypeInv, StoreInv, UNCHANGED snaps,
         \A g \in Digests : chunks[g] # Nothing => chunks'[g] = chunks[g]
  PROVE  UNCHANGED StoreSeen
<1>1. ASSUME NEW t \in Times, snaps[t] # Nothing
      PROVE  ReadBack(snaps[t])' = ReadBack(snaps[t])
  <2>1. snaps[t].entries \in Seq(Entry)
    BY <1>1 DEF TypeInv, TypeOK, Snapshot
  <2>2. \A i \in DOMAIN snaps[t].entries :
          chunks'[snaps[t].entries[i].digest] = chunks[snaps[t].entries[i].digest]
    BY <1>1, <2>1, DigestsOfSeq DEF StoreInv, SnapOK
  <2> QED
    BY <2>2 DEF ReadBack, Opened
<1> QED
  BY <1>1 DEF StoreSeen

(* Runs that a step leaves alone keep what is seen of them.                *)
LEMMA SeenKept ==
  ASSUME NEW c \in Backups, pc'[c] = pc[c], job'[c] = job[c], UNCHANGED snaps,
         req'[c].op = "finish" <=> req[c].op = "finish"
  PROVE  AskedOf(c)' = AskedOf(c) /\ PhaseOf(c)' = PhaseOf(c) /\ ToldOf(c)' = ToldOf(c)
BY DEF AskedOf, PhaseOf, ToldOf, Committed
-----------------------------------------------------------------------------
(* The steps of a client. *)

(* A call before the last one.                                             *)
LEMMA WorkStep ==
  ASSUME TypeInv, StoreInv, NEW b \in Backups, NEW op \in Live \ {"finish"}, NEW r, Call(b, op, r),
         r.op # "finish", pc[b] \in Live \ {"finish"}, UNCHANGED <<job, server>>
  PROVE  AbstractStep
<1>1. /\ pc'[b] = op /\ req'[b] = r
      /\ \A c \in Backups \ {b} : pc'[c] = pc[c] /\ req'[c] = req[c]
  BY CallEffect
<1>2. UNCHANGED StoreSeen
  BY StoreSeenKept DEF server
<1>3. ASSUME NEW c \in Backups \ {b}
      PROVE  AskedOf(c)' = AskedOf(c) /\ PhaseOf(c)' = PhaseOf(c) /\ ToldOf(c)' = ToldOf(c)
  BY <1>1, SeenKept DEF server
<1>4. req[b].op # "finish"
  BY DEF StoreInv, RunOK, Live, Ops, Ended
<1>5. AskedOf(b)' = AskedOf(b) /\ PhaseOf(b)' = PhaseOf(b) /\ ToldOf(b)' = ToldOf(b)
  BY <1>1, <1>4 DEF AskedOf, PhaseOf, ToldOf, Committed, server, Live, Ops, Ended
<1> QED
  BY <1>2, <1>3, <1>5 DEF AbstractStep, Asked, Phase, Told

LEMMA BeginImplements ==
  ASSUME TypeInv, StoreInv, NEW b \in Backups, BeginBackup(b)
  PROVE  AbstractStep
<1>1. PICK src \in Sources, k \in AllKeys :
        job' = [job EXCEPT ![b] = [src |-> src, key |-> k, time |-> clock]]
  BY DEF BeginBackup
<1> DEFINE j == [src |-> src, key |-> k, time |-> clock]
<1>2. j \in Job /\ j # Nothing /\ j.src = src /\ j.key = k /\ j.time = clock /\ clock \in Times
  BY UploadAssumption DEF Job, TypeInv, TypeOK
<1> HIDE DEF j
<1>3. job'[b] = j /\ \A c \in Backups \ {b} : job'[c] = job[c]
  BY <1>1 DEF TypeInv, TypeOK, j
<1>4. pc[b] = "idle" /\ job[b] = Nothing /\ UNCHANGED server
  BY JobIsAsked DEF BeginBackup
<1>5. /\ pc'[b] = "begin" /\ req'[b].op = "begin"
      /\ \A c \in Backups \ {b} : pc'[c] = pc[c] /\ req'[c] = req[c]
  BY CallEffect, RequestType DEF BeginBackup, Ops
<1>6. /\ AskedOf(b)' = [content |-> [src |-> src, key |-> k], time |-> clock]
      /\ ToldOf(b) = "nothing" /\ ToldOf(b)' = "nothing"
      /\ PhaseOf(b) = "idle"
  BY <1>2, <1>3, <1>4, <1>5 DEF AskedOf, ToldOf, PhaseOf, Ended
<1>7. PhaseOf(b)' = "running"
  <2>1. ~Committed(b)'
    BY <1>2, <1>3, <1>4 DEF StoreInv, DoneOK, Committed, server, Ended
  <2> QED
    BY <1>2, <1>3, <1>5, <2>1 DEF PhaseOf
<1>8. ASSUME NEW c \in Backups \ {b}
      PROVE  AskedOf(c)' = AskedOf(c) /\ PhaseOf(c)' = PhaseOf(c) /\ ToldOf(c)' = ToldOf(c)
  BY <1>3, <1>4, <1>5, SeenKept DEF server
<1>9. UNCHANGED StoreSeen
  BY <1>4, StoreSeenKept DEF server
<1> DEFINE a == [content |-> [src |-> src, key |-> k], time |-> clock]
<1>10. a \in Abstract!Asked
  BY <1>2 DEF Abstract!Asked
<1> HIDE DEF a
<1>11. /\ Asked' = [Asked EXCEPT ![b] = a] /\ Phase[b] = "idle"
       /\ Phase' = [Phase EXCEPT ![b] = "running"] /\ Told' = Told
  BY <1>6, <1>7, <1>8 DEF Asked, Phase, Told, a
<1>12. Abstract!Begin(b)
  BY <1>9, <1>10, <1>11 DEF Abstract!Begin, Asked, Phase, Told
<1> QED
  BY <1>12 DEF AbstractStep

LEMMA WorkImplements ==
  ASSUME TypeInv, StoreInv, NEW b \in Backups,
         \/ DownloadPrevious(b) \/ CreateDynamicIndex(b) \/ StreamChunk(b)
         \/ AppendChunks(b) \/ CloseDynamicIndex(b) \/ UploadManifest(b)
  PROVE  AbstractStep
<1>1. pc[b] \in Live \ {"finish"} /\ UNCHANGED <<job, server>>
  BY DEF DownloadPrevious, CreateDynamicIndex, StreamChunk, AppendChunks, CloseDynamicIndex,
         UploadManifest, Streaming, Answered, Live, Ops
<1>2. \A op, refs, csum, key : Message(op, refs, csum, key).op = op
  BY DEF Message
<1>3. /\ {"previous", "create", "stream", "put", "append", "close", "blob"} \subseteq Live \ {"finish"}
      /\ NoRequest.op # "finish"
      /\ Request("previous").op # "finish" /\ Request("create").op # "finish"
  BY RequestType DEF Live, Ops
<1>4. CASE DownloadPrevious(b) \/ CreateDynamicIndex(b)
  <2>1. \E op \in {"previous", "create"} : Call(b, op, Request(op))
    BY <1>4 DEF DownloadPrevious, CreateDynamicIndex
  <2> QED
    BY <1>1, <1>3, <2>1, WorkStep
<1>5. CASE StreamChunk(b)
  <2>1. \/ Call(b, "stream", NoRequest)
        \/ \E refs, csum, key : Call(b, "put", Message("put", refs, csum, key))
    BY <1>5 DEF StreamChunk
  <2> QED
    BY <1>1, <1>2, <1>3, <2>1, WorkStep
<1>6. CASE AppendChunks(b) \/ CloseDynamicIndex(b) \/ UploadManifest(b)
  <2>1. \E op \in {"append", "close", "blob"} : \E refs, csum, key :
          Call(b, op, Message(op, refs, csum, key))
    BY <1>6 DEF AppendChunks, CloseDynamicIndex, UploadManifest
  <2> QED
    BY <1>1, <1>2, <1>3, <2>1, WorkStep
<1> QED
  BY <1>4, <1>5, <1>6

LEMMA FinishImplements ==
  ASSUME TypeInv, StoreInv, NEW b \in Backups, Finish(b)
  PROVE  AbstractStep
<1>1. pc[b] = "blob" /\ UNCHANGED <<job, server>> /\ Call(b, "finish", Request("finish"))
  BY DEF Finish, Answered
<1>2. Request("finish").op = "finish"
  BY RequestType DEF Ops
<1>3. /\ pc'[b] = "finish" /\ req'[b].op = "finish"
      /\ \A c \in Backups \ {b} : pc'[c] = pc[c] /\ req'[c] = req[c]
  BY <1>1, <1>2, CallEffect
<1>4. job[b] # Nothing /\ ~Committed(b) /\ req[b].op # "finish"
  BY <1>1, JobIsAsked DEF Ended, StoreInv, RunOK
<1>5. /\ AskedOf(b)' = AskedOf(b)
      /\ PhaseOf(b) = "running" /\ PhaseOf(b)' = "offered"
      /\ ToldOf(b) = "nothing" /\ ToldOf(b)' = "nothing"
  BY <1>1, <1>3, <1>4 DEF AskedOf, PhaseOf, ToldOf, Committed, server, Ended
<1>6. ASSUME NEW c \in Backups \ {b}
      PROVE  AskedOf(c)' = AskedOf(c) /\ PhaseOf(c)' = PhaseOf(c) /\ ToldOf(c)' = ToldOf(c)
  BY <1>1, <1>3, SeenKept DEF server
<1>7. UNCHANGED StoreSeen
  BY <1>1, StoreSeenKept DEF server
<1>8. /\ UNCHANGED <<Asked, Told>> /\ Phase[b] = "running" /\ Told[b] = "nothing"
      /\ Phase' = [Phase EXCEPT ![b] = "offered"]
  BY <1>5, <1>6 DEF Asked, Phase, Told
<1>9. Abstract!Offer(b)
  BY <1>7, <1>8 DEF Abstract!Offer, Asked, Phase, Told
<1> QED
  BY <1>9 DEF AbstractStep

(* However a run ends, it reports a success only after its commit.         *)
LEMMA EndImplements ==
  ASSUME TypeInv, StoreInv, NEW b \in Backups, NEW how \in Ended, pc[b] \in Live, End(b, how),
         how = "ok" => pc[b] = "finish" /\ resp[b].status = "ok"
  PROVE  AbstractStep
<1>1. /\ pc'[b] = how /\ UNCHANGED <<job, req, server>>
      /\ \A c \in Backups \ {b} : pc'[c] = pc[c]
  BY DEF End, TypeInv, TypeOK
<1>2. job[b] # Nothing
  BY JobIsAsked DEF Live, Ops
<1>3. ASSUME NEW c \in Backups \ {b}
      PROVE  AskedOf(c)' = AskedOf(c) /\ PhaseOf(c)' = PhaseOf(c) /\ ToldOf(c)' = ToldOf(c)
  BY <1>1, SeenKept DEF server
<1>4. UNCHANGED StoreSeen
  BY <1>1, StoreSeenKept DEF server
<1>5. AskedOf(b)' = AskedOf(b) /\ ToldOf(b) = "nothing" /\ Committed(b)' = Committed(b)
  BY <1>1 DEF AskedOf, ToldOf, Committed, server, Live, Ops, Ended
<1>6. CASE how = "ok"
  <2>1. Committed(b)
    BY <1>6 DEF StoreInv, DoneOK, Durable, Committed
  <2>2. PhaseOf(b) = "committed" /\ PhaseOf(b)' = "committed" /\ ToldOf(b)' = "ok"
    BY <1>1, <1>2, <1>5, <1>6, <2>1 DEF PhaseOf, ToldOf
  <2>3. /\ UNCHANGED <<Asked, Phase>> /\ Phase[b] = "committed" /\ Told[b] = "nothing"
        /\ Told' = [Told EXCEPT ![b] = "ok"]
    BY <1>3, <1>5, <2>2 DEF Asked, Phase, Told
  <2>4. Abstract!Succeed(b)
    BY <1>4, <2>3 DEF Abstract!Succeed, Asked, Phase, Told
  <2> QED
    BY <2>4 DEF AbstractStep
<1>7. CASE how # "ok"
  <2>1. /\ ToldOf(b)' = "failed" /\ PhaseOf(b) # "idle"
        /\ \/ PhaseOf(b)' = PhaseOf(b)
           \/ PhaseOf(b) = "offered" /\ PhaseOf(b)' = "running"
    BY <1>1, <1>2, <1>5, <1>7 DEF PhaseOf, ToldOf, Ended
  <2>2. /\ UNCHANGED Asked /\ Phase[b] # "idle" /\ Told[b] = "nothing"
        /\ Told' = [Told EXCEPT ![b] = "failed"]
        /\ \/ UNCHANGED Phase
           \/ Phase[b] = "offered" /\ Phase' = [Phase EXCEPT ![b] = "running"]
    BY <1>3, <1>5, <2>1 DEF Asked, Phase, Told
  <2>3. Abstract!Fail(b)
    BY <1>4, <2>2 DEF Abstract!Fail, Asked, Phase, Told
  <2> QED
    BY <2>3 DEF AbstractStep
<1> QED
  BY <1>6, <1>7

LEMMA EndsImplement ==
  ASSUME TypeInv, StoreInv, NEW b \in Backups,
         ReturnSuccess(b) \/ ReturnError(b) \/ PipelineFails(b) \/ Kill(b)
  PROVE  AbstractStep
<1>1. pc[b] \in Live
  BY DEF ReturnSuccess, ReturnError, PipelineFails, Kill, Answered, CallFails, Streaming, Live, Ops
<1>2. \/ End(b, "ok") /\ pc[b] = "finish" /\ resp[b].status = "ok"
      \/ End(b, "failed") \/ End(b, "killed")
  BY DEF ReturnSuccess, ReturnError, PipelineFails, Kill, Answered
<1> QED
  BY <1>1, <1>2, EndImplements DEF Ended
-----------------------------------------------------------------------------
(* The steps of the server. *)

(* A request that is gone without a commit: served, refused or lost.  When *)
(* it asked for the commit and its run has given up, the run has lost.     *)
LEMMA LostStep ==
  ASSUME TypeInv, StoreInv, NEW b \in Backups, UNCHANGED <<client, snaps, StoreSeen>>,
         req'[b].op = "none", \A c \in Backups \ {b} : req'[c] = req[c]
  PROVE  AbstractStep
<1>1. UNCHANGED <<pc, job>>
  BY DEF client
<1>2. ASSUME NEW c \in Backups \ {b}
      PROVE  AskedOf(c)' = AskedOf(c) /\ PhaseOf(c)' = PhaseOf(c) /\ ToldOf(c)' = ToldOf(c)
  BY <1>1, SeenKept
<1>3. AskedOf(b)' = AskedOf(b) /\ ToldOf(b)' = ToldOf(b) /\ Committed(b)' = Committed(b)
  BY <1>1 DEF AskedOf, ToldOf, Committed
<1>4. CASE PhaseOf(b)' = PhaseOf(b)
  BY <1>2, <1>3, <1>4 DEF AbstractStep, Asked, Phase, Told
<1>5. CASE PhaseOf(b)' # PhaseOf(b)
  <2>1. job[b] # Nothing /\ ~Committed(b) /\ req[b].op = "finish" /\ pc[b] # "finish"
    BY <1>1, <1>3, <1>5 DEF PhaseOf
  <2>2. pc[b] \in Ended \ {"ok"}
    BY <2>1 DEF StoreInv, RunOK, DoneOK, Durable, Committed
  <2>3. PhaseOf(b) = "offered" /\ PhaseOf(b)' = "running" /\ ToldOf(b) = "failed"
    BY <1>1, <1>3, <2>1, <2>2 DEF PhaseOf, ToldOf
  <2>4. /\ UNCHANGED <<Asked, Told>> /\ Phase[b] = "offered" /\ Told[b] = "failed"
        /\ Phase' = [Phase EXCEPT ![b] = "running"]
    BY <1>2, <1>3, <2>3 DEF Asked, Phase, Told
  <2>5. Abstract!Lose(b)
    BY <2>4 DEF Abstract!Lose, Asked, Phase, Told
  <2> QED
    BY <2>5 DEF AbstractStep
<1> QED
  BY <1>4, <1>5

(* An answer that commits nothing.                                         *)
LEMMA RepliedStep ==
  ASSUME TypeInv, StoreInv, NEW b \in Backups, NEW r, Reply(b, r), UNCHANGED <<client, snaps>>,
         \A g \in Digests : chunks[g] # Nothing => chunks'[g] = chunks[g]
  PROVE  AbstractStep
<1>1. req'[b].op = "none" /\ \A c \in Backups \ {b} : req'[c] = req[c]
  BY ReplyEffect DEF Others
<1>2. UNCHANGED StoreSeen
  BY StoreSeenKept
<1> QED
  BY <1>1, <1>2, LostStep

LEMMA PutKeepsBlobs ==
  ASSUME TypeInv, NEW b \in Backups, ServePut(b)
  PROVE  \A g \in Digests : chunks[g] # Nothing => chunks'[g] = chunks[g]
BY DEF ServePut, TypeInv, TypeOK

LEMMA ServedImplements ==
  ASSUME TypeInv, StoreInv, NEW b \in Backups,
         \/ ServeBegin(b) \/ ServePrevious(b) \/ ServeCreate(b) \/ ServePut(b)
         \/ ServeAppend(b) \/ ServeClose(b) \/ ServeBlob(b) \/ ServerError(b)
  PROVE  AbstractStep
<1>1. UNCHANGED <<client, snaps>> /\ \E r : Reply(b, r)
  BY DEF ServeBegin, ServePrevious, ServeCreate, ServePut, ServeAppend, ServeClose, ServeBlob,
         ServerError, server
<1>2. \A g \in Digests : chunks[g] # Nothing => chunks'[g] = chunks[g]
  <2>1. ServePut(b) \/ UNCHANGED chunks
    BY DEF ServeBegin, ServePrevious, ServeCreate, ServeAppend, ServeClose, ServeBlob,
           ServerError, server
  <2> QED
    BY <2>1, PutKeepsBlobs
<1> QED
  BY <1>1, <1>2, RepliedStep

(* An index that names an archive, over chunks that are stored, reads back *)
(* as that archive.                                                        *)
LEMMA ReadsBack ==
  ASSUME Sealed, NEW es \in Seq(Entry), NEW src \in Seq(Data), NEW k \in AllKeys,
         Len(es) = Len(src),
         \A i \in 1 .. Len(src) : es[i].digest = Digest(src[i], k) /\ chunks[es[i].digest] # Nothing
  PROVE  [i \in DOMAIN es |-> Opened(es[i].digest, k)] = src
<1>1. ASSUME NEW i \in 1 .. Len(src) PROVE Opened(es[i].digest, k) = src[i]
  <2>1. es[i].digest \in Digests /\ chunks[es[i].digest] # Nothing
    BY DigestsOfSeq
  <2>2. es[i].digest.key = k /\ es[i].digest.data = src[i]
    <3>1. Digest(src[i], k).key = k /\ Digest(src[i], k).data = src[i]
      BY DEF Digest
    <3>2. es[i].digest = Digest(src[i], k)
      OBVIOUS
    <3> QED
      BY <3>1, <3>2
  <2> QED
    BY <2>1, <2>2, SealedOpens
<1>2. DOMAIN es = 1 .. Len(src)
  BY DigestsOfSeq
<1>3. src = [i \in 1 .. Len(src) |-> src[i]]
  OBVIOUS
<1> QED
  BY <1>1, <1>2, <1>3

(* The commit: what appears is what its run was asked to save.             *)
LEMMA CommitImplements ==
  ASSUME TypeInv, StoreInv, NEW b \in Backups, ServeFinish(b)
  PROVE  AbstractStep
<1>1. /\ req[b].op = "finish" /\ Holds(b) /\ UNCHANGED <<client, chunks>>
      /\ UNCHANGED <<pc, job>> /\ session \in Sessions
  BY SessionHeld DEF ServeFinish, client
<1>2. CASE Reply(b, Answer("refused")) /\ UNCHANGED <<session, snaps>>
  BY <1>1, <1>2, RepliedStep
<1> DEFINE t0 == job[b].time
           s0 == [entries |-> session.writer, csum |-> session.manifest.csum,
                  key |-> session.manifest.key, by |-> b]
<1>3. CASE /\ session.wid = "closed" /\ session.manifest # Nothing
           /\ snaps' = [snaps EXCEPT ![t0] = s0] /\ Reply(b, Answer("ok"))
  <2>1. HeldOK(b) /\ pc[b] # "idle"
    BY <1>1 DEF StoreInv, HeldOK
  <2>2. /\ t0 \in Times /\ t0 \in Nat /\ job[b].src \in Seq(Data) /\ job[b].key \in AllKeys
        /\ job[b] # Nothing
    BY <2>1, JobAtWork, JobIsAsked, UploadAssumption
  <2>3. session.manifest = [csum |-> session.writer, key |-> job[b].key]
    BY <1>3, <2>1 DEF HeldOK
  <2>4. s0 \in Snapshot /\ s0 # Nothing /\ session.writer \in Seq(Entry)
    <3>1. session.writer \in Seq(Entry) /\ session.manifest \in Manifest
      BY <1>1, <1>3 DEF Sessions
    <3> QED
      BY <3>1, UploadAssumption DEF Manifest, Snapshot
  <2>5. s0.entries = session.writer /\ s0.key = job[b].key /\ s0.by = b /\ snaps[t0] = Nothing
    BY <2>1, <2>2, <2>3 DEF HeldOK
  <2> HIDE DEF s0
  <2>6. snaps'[t0] = s0 /\ \A t \in Times : t # t0 => snaps'[t] = snaps[t]
    BY <1>3, <2>2 DEF TypeInv, TypeOK
  <2>7. ReadBack(s0) = job[b].src
    <3>1. WholeIndex(b, session.writer)
      BY <1>3, <2>1 DEF HeldOK
    <3>2. \A i \in 1 .. Len(job[b].src) :
            session.writer[i].digest = Digest(job[b].src[i], job[b].key)
            /\ chunks[session.writer[i].digest] # Nothing
      BY <2>1, <3>1 DEF WholeIndex, Names, HeldOK
    <3>3. Len(session.writer) = Len(job[b].src)
      BY <3>1 DEF WholeIndex
    <3>4. [i \in DOMAIN session.writer |-> Opened(session.writer[i].digest, job[b].key)]
            = job[b].src
      BY <2>2, <2>4, <3>2, <3>3, ReadsBack DEF StoreInv
    <3> QED
      BY <2>5, <3>4 DEF ReadBack
  <2>8. ReadBack(snaps[t0])' = ReadBack(s0)
    BY <1>1, <2>6 DEF ReadBack, Opened
  <2> DEFINE read == [src |-> job[b].src, key |-> job[b].key]
  <2>9. StoreSeen' = [StoreSeen EXCEPT ![t0] = read]
    <3>1. StoreSeen'[t0] = read
      <4>1. snaps'[t0] # Nothing /\ snaps'[t0].key = job[b].key
        BY <2>4, <2>5, <2>6
      <4>2. ReadBack(snaps[t0])' = job[b].src
        BY <2>7, <2>8
      <4> QED
        BY <1>1, <2>2, <4>1, <4>2 DEF StoreSeen
    <3>2. ASSUME NEW t \in Times, t # t0 PROVE StoreSeen'[t] = StoreSeen[t]
      BY <1>1, <2>6, <3>2 DEF StoreSeen, ReadBack, Opened
    <3> HIDE DEF read
    <3> QED
      BY <2>2, <3>1, <3>2 DEF StoreSeen
  <2>10. \A t \in Times : StoreSeen[t] # Nothing => t < t0
    BY <2>1 DEF StoreSeen, HeldOK
  <2>11. /\ AskedOf(b) = [content |-> read, time |-> t0]
         /\ PhaseOf(b) = "offered" /\ PhaseOf(b)' = "committed"
    BY <1>1, <2>2, <2>4, <2>5, <2>6 DEF AskedOf, PhaseOf, Committed
  <2>12. ASSUME NEW c \in Backups \ {b} PROVE PhaseOf(c)' = PhaseOf(c)
    <3>1. req'[c] = req[c]
      BY <1>1, <1>3, ReplyEffect DEF Others
    <3>2. job[c] # Nothing => job[c].time \in Times
      BY JobIsAsked, JobAtWork
    <3>3. job[c] # Nothing => (Committed(c)' <=> Committed(c))
      BY <1>1, <2>4, <2>5, <2>6, <3>2 DEF Committed
    <3> QED
      BY <1>1, <3>1, <3>3 DEF PhaseOf
  <2>13. UNCHANGED <<Asked, Told>>
    BY <1>1 DEF Asked, Told, AskedOf, ToldOf
  <2>14. /\ Phase[b] = "offered" /\ Phase' = [Phase EXCEPT ![b] = "committed"]
         /\ Asked[b].time = t0 /\ Asked[b].content = read
    <3>1. Phase[b] = "offered" /\ Phase' = [Phase EXCEPT ![b] = "committed"]
      BY <2>11, <2>12 DEF Phase
    <3>2. Asked[b] = [content |-> read, time |-> t0]
      BY <2>11 DEF Asked
    <3> HIDE DEF read
    <3> QED
      BY <3>1, <3>2
  <2> HIDE DEF read, t0
  <2>15. Abstract!Commit(b)
    BY <2>9, <2>10, <2>13, <2>14 DEF Abstract!Commit, Asked, Phase, Told
  <2> QED
    BY <2>15 DEF AbstractStep
<1> QED
  BY <1>1, <1>2, <1>3 DEF ServeFinish

LEMMA DropImplements ==
  ASSUME TypeInv, StoreInv, NEW b \in Backups, DropConnection(b)
  PROVE  AbstractStep
<1>1. /\ req'[b].op = "none" /\ \A c \in Backups \ {b} : req'[c] = req[c]
      /\ UNCHANGED <<client, snaps, chunks>>
  BY RequestType DEF DropConnection, TypeInv, TypeOK
<1> QED
  BY <1>1, StoreSeenKept, LostStep

LEMMA StillImplements ==
  ASSUME TypeInv, StoreInv, UNCHANGED <<client, req, server>>
  PROVE  AbstractStep
<1>1. UNCHANGED StoreSeen
  BY StoreSeenKept DEF server
<1>2. UNCHANGED <<Asked, Phase, Told>>
  BY DEF Asked, Phase, Told, AskedOf, PhaseOf, ToldOf, Committed, client, server
<1> QED
  BY <1>1, <1>2 DEF AbstractStep
-----------------------------------------------------------------------------
LEMMA InitImplements == Init => Abstract!Init
<1> SUFFICES ASSUME Init PROVE Abstract!Init
  OBVIOUS
<1>1. \A b \in Backups : AskedOf(b) = Nothing /\ PhaseOf(b) = "idle" /\ ToldOf(b) = "nothing"
  BY DEF Init, AskedOf, PhaseOf, ToldOf, Ended
<1>2. StoreSeen = [t \in Times |-> Nothing]
  BY DEF Init, StoreSeen
<1> QED
  BY <1>1, <1>2 DEF Abstract!Init

LEMMA NextImplements ==
  TypeInv /\ StoreInv /\ [Next]_vars => [Abstract!Next]_(Abstract!storeVars)
<1> SUFFICES ASSUME TypeInv, StoreInv, [Next]_vars PROVE AbstractStep
  BY DEF AbstractStep, Abstract!Next, Abstract!storeVars, Asked, Phase, Told
<1>1. ASSUME NEW b \in Backups, Client(b) PROVE AbstractStep
  BY <1>1, BeginImplements, WorkImplements, FinishImplements, EndsImplement DEF Client
<1>2. ASSUME NEW b \in Backups, Serve(b) PROVE AbstractStep
  BY <1>2, ServedImplements, CommitImplements DEF Serve
<1>3. ASSUME NEW b \in Backups, DropConnection(b) PROVE AbstractStep
  BY <1>3, DropImplements
<1>4. ASSUME NEW b \in Backups, Faults(b) PROVE AbstractStep
  <2>1. CASE Break(b)
    BY <2>1, StillImplements DEF Break
  <2>2. CASE Kill(b) \/ PipelineFails(b)
    BY <2>2, EndsImplement
  <2>3. CASE ServerError(b)
    BY <2>3, ServedImplements
  <2> QED
    BY <1>4, <2>1, <2>2, <2>3 DEF Faults
<1>5. CASE Tick \/ UNCHANGED vars
  BY <1>5, StillImplements DEF Tick, vars
<1>6. Faulty \subseteq Backups
  BY UploadAssumption
<1> QED
  BY <1>1, <1>2, <1>3, <1>4, <1>5, <1>6 DEF Next, AllEnded

(* Whatever is lost, killed, refused or interleaved, a restore that reads  *)
(* the group sees the abstract store: snapshots appear at once and whole,  *)
(* each with what its run was given, newest last and for good, and a run   *)
(* reports success only after its own has appeared.                        *)
THEOREM UploadImplementsStore == Spec => ImplementsStore
<1>1. Init => Abstract!Init
  BY InitImplements
<1>2. TypeInv /\ TypeInv' /\ StoreInv /\ StoreInv' /\ [Next]_vars => [Abstract!Next]_(Abstract!storeVars)
  BY NextImplements
<1> QED
  BY <1>1, <1>2, TypeInit, TypeNext, StoreInit, StoreNext, PTL
     DEF Spec, ImplementsStore, Abstract!Spec
=============================================================================
