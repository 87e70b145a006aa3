------------------------ MODULE UploadProtocolProofs ------------------------
(***************************************************************************)
(* Proofs about the conversation of Upload's client and server: the client *)
(* keeps to the server's rules, skips only chunks its session knows, and   *)
(* counts what it sent, for every set of runs, archives, keys and times    *)
(* and every batch size.                                                   *)
(***************************************************************************)
EXTENDS UploadProofs, FiniteSetTheorems

(* A run's own half of the conversation: what it keeps before the index is *)
(* opened, how far the append loop is, and what a request under way says.  *)
CallOK(b) ==
  /\ link[b] => pc[b] \in Live
  /\ IF req[b].op = "none" THEN req[b] = NoRequest ELSE resp[b].status = "none"
  /\ resp[b].status # "refused"
  /\ resp[b].digests # {} => pc[b] = "previous"
  /\ pc[b] \notin Live \/ pc[b] \in {"begin", "previous"} => known[b] = {} /\ idx[b] = <<>>
  /\ pc[b] = "create" => idx[b] = <<>>
  /\ pc[b] \notin {"append", "close", "blob", "finish"} => sent[b] = 0
  /\ pc[b] \in {"close", "blob", "finish"} => sent[b] = Len(idx[b])
  /\ Contiguous(idx[b])
  /\ req[b].op = "put" /\ pc[b] = "put" =>
       Len(idx[b]) > 0 /\ req[b].refs[1].digest = idx[b][Len(idx[b])].digest
  /\ req[b].op = "append" /\ pc[b] = "append" =>
       /\ Len(req[b].refs) <= sent[b]
       /\ \A j \in 1 .. Len(req[b].refs) :
            LET i == sent[b] - Len(req[b].refs) + j
            IN req[b].refs[j].start = StartOffset(idx[b], i) /\ req[b].refs[j].digest = idx[b][i].digest

(* The counters of the Result.                                             *)
CountOK(b) ==
  /\ pc[b] \notin Live => stats[b].unique = 0 /\ stats[b].reused = 0
  /\ stats[b].unique + stats[b].reused = Cardinality(DigestsOf(idx[b]))
  /\ stats[b].reused = Cardinality(DigestsOf(idx[b]) \cap known[b])

(* How many entries of the index the server was given before the request   *)
(* that is under way.                                                      *)
Written(b) == IF req[b].op = "append" THEN sent[b] - Len(req[b].refs) ELSE sent[b]

(* The session's half, while its run is at work: it has registered what    *)
(* the run will skip, and assembled what the run has sent, unless the run  *)
(* is in an append that has failed.                                        *)
SessionOK(b) ==
  /\ resp[b].digests \subseteq session.registered
  /\ known[b] \union (DigestsOf(idx[b]) \ Unacknowledged(b)) \subseteq session.registered
  /\ session.wid = "none" => \/ pc[b] \in {"begin", "previous"}
                             \/ pc[b] = "create" /\ resp[b].status # "ok"
  /\ pc[b] # "append" \/ req[b].op = "append" \/ resp[b].status = "ok" =>
       /\ Len(session.writer) = Written(b)
       /\ \A i \in 1 .. Len(session.writer) : session.writer[i] = idx[b][i]
  /\ (pc[b] = "blob" /\ resp[b].status = "ok") \/ pc[b] = "finish" => session.manifest # Nothing
HolderOK(b) == req[b].op # "begin" /\ (pc[b] \in Live => SessionOK(b))

ProtocolInv == \A b \in Backups : CallOK(b) /\ CountOK(b) /\ (Holds(b) => HolderOK(b))

LEMMA ProtocolInit == Init => ProtocolInv
<1> SUFFICES ASSUME Init, NEW b \in Backups PROVE CallOK(b) /\ CountOK(b) /\ ~Holds(b)
  BY DEF ProtocolInv
<1>1. CallOK(b)
  <2>1. /\ pc[b] = "idle" /\ known[b] = {} /\ idx[b] = <<>> /\ sent[b] = 0 /\ ~link[b]
        /\ req[b] = NoRequest /\ resp[b].status = "none" /\ resp[b].digests = {}
    BY DEF Init, NoResponse
  <2>2. Contiguous(idx[b])
    BY <2>1 DEF Contiguous
  <2> QED
    BY <2>1, <2>2, RequestType DEF CallOK, Live, Ops
<1>2. DigestsOf(idx[b]) = {} /\ DigestsOf(idx[b]) \cap known[b] = {}
  BY DEF Init, DigestsOf
<1>3. CountOK(b)
  <2>1. stats[b].unique = 0 /\ stats[b].reused = 0
    BY DEF Init
  <2>2. Cardinality({}) = 0
    BY FS_EmptySet
  <2> QED
    BY <1>2, <2>1, <2>2 DEF CountOK
<1> QED
  BY <1>1, <1>3 DEF Init, Holds
-----------------------------------------------------------------------------
(* What a step of one run leaves to another. *)
Untouched(c) ==
  /\ pc'[c] = pc[c] /\ req'[c] = req[c] /\ resp'[c] = resp[c] /\ job'[c] = job[c]
  /\ known'[c] = known[c] /\ idx'[c] = idx[c] /\ sent'[c] = sent[c] /\ stats'[c] = stats[c]

LEMMA UntouchedKept ==
  ASSUME NEW c, Untouched(c), link'[c] = link[c] \/ ~link'[c]
  PROVE  /\ CallOK(c) => CallOK(c)'
         /\ CountOK(c) => CountOK(c)'
         /\ HolderOK(c) /\ UNCHANGED session => HolderOK(c)'
<1>1. CallOK(c) => CallOK(c)'
  BY DEF Untouched, CallOK, Contiguous, StartOffset
<1>2. CountOK(c) => CountOK(c)'
  BY DEF Untouched, CountOK, DigestsOf
<1>3. HolderOK(c) /\ UNCHANGED session => HolderOK(c)'
  BY DEF Untouched, HolderOK, SessionOK, Written, Unacknowledged, DigestsOf
<1> QED
  BY <1>1, <1>2, <1>3

(* A step of a client: enough to look at its own run.                      *)
LEMMA ClientProtocol ==
  ASSUME ProtocolInv, NEW b \in Backups, UNCHANGED session,
         \A c \in Backups \ {b} : Untouched(c) /\ link'[c] = link[c],
         CallOK(b)', CountOK(b)', Holds(b) => HolderOK(b)'
  PROVE  ProtocolInv'
<1> SUFFICES ASSUME NEW c \in Backups PROVE CallOK(c)' /\ CountOK(c)' /\ (Holds(c)' => HolderOK(c)')
  BY DEF ProtocolInv
<1>1. Holds(c)' <=> Holds(c)
  BY DEF Holds
<1>2. CASE c = b
  BY <1>1, <1>2
<1>3. CASE c # b
  BY <1>1, <1>3, UntouchedKept DEF ProtocolInv
<1> QED
  BY <1>2, <1>3

(* A call starts with nothing answered.                                    *)
LEMMA CallStarts ==
  ASSUME TypeInv, NEW b \in Backups, NEW op, NEW r, Call(b, op, r)
  PROVE  /\ pc'[b] = op /\ req'[b] = r /\ resp'[b].status = "none" /\ resp'[b].digests = {}
         /\ \A c \in Backups \ {b} : pc'[c] = pc[c] /\ req'[c] = req[c] /\ resp'[c] = resp[c]
BY DEF TypeInv, TypeOK, Call, NoResponse
-----------------------------------------------------------------------------
(* The steps of a client. *)

LEMMA BeginProtocol ==
  ASSUME TypeInv, StoreInv, ProtocolInv, NEW b \in Backups, BeginBackup(b)
  PROVE  ProtocolInv'
<1>1. /\ pc[b] = "idle" /\ Call(b, "begin", Request("begin")) /\ link' = [link EXCEPT ![b] = TRUE]
      /\ UNCHANGED <<known, idx, sent, stats, session>>
      /\ \A c \in Backups \ {b} : job'[c] = job[c]
  BY DEF BeginBackup, server, TypeInv, TypeOK
<1>2. /\ pc'[b] = "begin" /\ req'[b].op = "begin" /\ resp'[b].status = "none" /\ resp'[b].digests = {}
      /\ \A c \in Backups \ {b} : pc'[c] = pc[c] /\ req'[c] = req[c] /\ resp'[c] = resp[c]
      /\ \A c \in Backups \ {b} : link'[c] = link[c]
  BY <1>1, CallStarts, RequestType DEF Ops, TypeInv, TypeOK
<1>3. \A c \in Backups \ {b} : Untouched(c)
  BY <1>1, <1>2 DEF Untouched
<1>4. known[b] = {} /\ idx[b] = <<>> /\ sent[b] = 0 /\ Contiguous(idx[b]) /\ CountOK(b)
      /\ stats[b].unique = 0 /\ stats[b].reused = 0
  BY <1>1 DEF ProtocolInv, CallOK, CountOK, Live, Ops
<1>5. CallOK(b)'
  BY <1>1, <1>2, <1>4 DEF CallOK, Contiguous, StartOffset, Live, Ops
<1>6. CountOK(b)'
  BY <1>1, <1>4 DEF CountOK, DigestsOf
<1>7. ~Holds(b)
  BY <1>1 DEF StoreInv, HeldOK
<1> QED
  BY <1>1, <1>2, <1>3, <1>5, <1>6, <1>7, ClientProtocol

LEMMA DownloadProtocol ==
  ASSUME TypeInv, ProtocolInv, NEW b \in Backups, DownloadPrevious(b)
  PROVE  ProtocolInv'
<1>1. /\ pc[b] = "begin" /\ Call(b, "previous", Request("previous"))
      /\ UNCHANGED <<job, known, idx, sent, stats, link, session>>
  BY DEF DownloadPrevious, Answered, server
<1>2. /\ pc'[b] = "previous" /\ req'[b].op = "previous"
      /\ resp'[b].status = "none" /\ resp'[b].digests = {}
      /\ \A c \in Backups \ {b} : pc'[c] = pc[c] /\ req'[c] = req[c] /\ resp'[c] = resp[c]
  BY <1>1, CallStarts, RequestType DEF Ops
<1>3. \A c \in Backups \ {b} : Untouched(c)
  BY <1>1, <1>2 DEF Untouched
<1>4. CallOK(b) /\ CountOK(b) /\ (Holds(b) => HolderOK(b))
  BY DEF ProtocolInv
<1>5. CallOK(b)'
  BY <1>1, <1>2, <1>4 DEF CallOK, Contiguous, StartOffset, Live, Ops
<1>6. CountOK(b)'
  BY <1>1, <1>2, <1>4 DEF CountOK, DigestsOf, Live, Ops
<1>7. Holds(b) => HolderOK(b)'
  BY <1>1, <1>2, <1>4 DEF CallOK, HolderOK, SessionOK, Written, Unacknowledged, DigestsOf, Live, Ops
<1> QED
  BY <1>1, <1>3, <1>5, <1>6, <1>7, ClientProtocol

LEMMA CreateProtocol ==
  ASSUME TypeInv, ProtocolInv, NEW b \in Backups, CreateDynamicIndex(b)
  PROVE  ProtocolInv'
<1>1. /\ pc[b] = "previous" /\ Call(b, "create", Request("create"))
      /\ UNCHANGED <<job, idx, sent, stats, link, session>>
      /\ known'[b] \in {known[b], resp[b].digests} /\ \A c \in Backups \ {b} : known'[c] = known[c]
  BY DEF CreateDynamicIndex, server, TypeInv, TypeOK
<1>2. /\ pc'[b] = "create" /\ req'[b].op = "create"
      /\ resp'[b].status = "none" /\ resp'[b].digests = {}
      /\ \A c \in Backups \ {b} : pc'[c] = pc[c] /\ req'[c] = req[c] /\ resp'[c] = resp[c]
  BY <1>1, CallStarts, RequestType DEF Ops
<1>3. \A c \in Backups \ {b} : Untouched(c)
  BY <1>1, <1>2 DEF Untouched
<1>4. CallOK(b) /\ CountOK(b) /\ (Holds(b) => HolderOK(b)) /\ idx[b] = <<>>
  BY <1>1 DEF ProtocolInv, CallOK
<1>5. CallOK(b)'
  BY <1>1, <1>2, <1>4 DEF CallOK, Contiguous, StartOffset, Live, Ops
<1>6. DigestsOf(idx[b]) = {} /\ DigestsOf(idx'[b]) = {}
  BY <1>1, <1>4 DEF DigestsOf
<1>7. CountOK(b)'
  <2>1. DigestsOf(idx[b]) \cap known[b] = DigestsOf(idx[b])' \cap known'[b]
    BY <1>6 DEF DigestsOf
  <2>2. DigestsOf(idx[b]) = DigestsOf(idx[b])'
    BY <1>1 DEF DigestsOf
  <2> QED
    BY <1>1, <1>2, <1>4, <2>1, <2>2 DEF CountOK, Live, Ops
<1>8. Holds(b) => HolderOK(b)'
  <2>1. DigestsOf(idx[b])' = {}
    BY <1>1, <1>6 DEF DigestsOf
  <2> QED
    BY <1>1, <1>2, <1>4, <2>1 DEF CallOK, HolderOK, SessionOK, Written, Live, Ops
<1> QED
  BY <1>1, <1>3, <1>5, <1>7, <1>8, ClientProtocol

(* The three calls after the appends.                                      *)
LEMMA ClosingProtocol ==
  ASSUME TypeInv, ProtocolInv, NEW b \in Backups,
         CloseDynamicIndex(b) \/ UploadManifest(b) \/ Finish(b)
  PROVE  ProtocolInv'
<1>1. /\ pc[b] \in {"append", "close", "blob"} /\ resp[b].status = "ok"
      /\ UNCHANGED <<job, known, idx, sent, stats, link, session>>
      /\ pc[b] = "append" => sent[b] = Len(idx[b])
  BY DEF CloseDynamicIndex, UploadManifest, Finish, Answered, server
<1>2. /\ pc'[b] \in {"close", "blob", "finish"} /\ req'[b].op = pc'[b]
      /\ pc'[b] = "finish" => pc[b] = "blob"
      /\ resp'[b].status = "none" /\ resp'[b].digests = {}
      /\ \A c \in Backups \ {b} : pc'[c] = pc[c] /\ req'[c] = req[c] /\ resp'[c] = resp[c]
  <2>1. CASE CloseDynamicIndex(b)
    BY <2>1, CallStarts DEF CloseDynamicIndex, Message
  <2>2. CASE UploadManifest(b)
    BY <2>2, CallStarts DEF UploadManifest, Message
  <2>3. CASE Finish(b)
    BY <2>3, CallStarts DEF Finish, Answered, Request, Message
  <2> QED
    BY <2>1, <2>2, <2>3
<1>3. \A c \in Backups \ {b} : Untouched(c)
  BY <1>1, <1>2 DEF Untouched
<1>4. CallOK(b) /\ CountOK(b) /\ (Holds(b) => HolderOK(b))
  BY DEF ProtocolInv
<1>5. CallOK(b)'
  BY <1>1, <1>2, <1>4 DEF CallOK, Contiguous, StartOffset, Live, Ops
<1>6. CountOK(b)'
  BY <1>1, <1>2, <1>4 DEF CountOK, DigestsOf, Live, Ops
<1>7. Holds(b) => HolderOK(b)'
  <2>1. Written(b) = Written(b)'
    BY <1>1, <1>2, <1>4 DEF Written, CallOK
  <2> QED
    BY <1>1, <1>2, <1>4, <2>1 DEF HolderOK, SessionOK, Unacknowledged, DigestsOf, Live, Ops
<1> QED
  BY <1>1, <1>3, <1>5, <1>6, <1>7, ClientProtocol

(* However a run ends.                                                     *)
LEMMA EndProtocol ==
  ASSUME TypeInv, ProtocolInv, NEW b \in Backups, NEW how \in Ended, End(b, how)
  PROVE  ProtocolInv'
<1>1. /\ pc'[b] = how /\ known'[b] = {} /\ idx'[b] = <<>> /\ sent'[b] = 0 /\ link'[b] = FALSE
      /\ resp'[b] = NoResponse /\ stats'[b].unique = 0 /\ stats'[b].reused = 0
      /\ UNCHANGED <<job, req, session>>
      /\ \A c \in Backups \ {b} : Untouched(c) /\ link'[c] = link[c]
  BY DEF End, TypeInv, TypeOK, server, Untouched
<1>2. how \notin Live
  BY DEF Ended, Live, Ops
<1>3. Contiguous(idx[b])' /\ DigestsOf(idx[b])' = {}
  BY <1>1 DEF Contiguous, DigestsOf
<1>4. CallOK(b)'
  BY <1>1, <1>2, <1>3 DEF ProtocolInv, CallOK, NoResponse, Live, Ops
<1>5. CountOK(b)'
  <2>1. DigestsOf(idx[b])' \cap known'[b] = {}
    BY <1>3
  <2>2. Cardinality({}) = 0
    BY FS_EmptySet
  <2>3. Cardinality(DigestsOf(idx[b]))' = 0 /\ Cardinality(DigestsOf(idx[b]) \cap known[b])' = 0
    BY <1>3, <2>1, <2>2
  <2> QED
    BY <1>1, <2>3 DEF CountOK
<1>6. Holds(b) => HolderOK(b)'
  BY <1>1, <1>2 DEF ProtocolInv, HolderOK
<1> QED
  BY <1>1, <1>4, <1>5, <1>6, ClientProtocol

LEMMA EndsProtocol ==
  ASSUME TypeInv, ProtocolInv, NEW b \in Backups,
         ReturnSuccess(b) \/ ReturnError(b) \/ PipelineFails(b) \/ Kill(b)
  PROVE  ProtocolInv'
<1>1. End(b, "ok") \/ End(b, "failed") \/ End(b, "killed")
  BY DEF ReturnSuccess, ReturnError, PipelineFails, Kill
<1> QED
  BY <1>1, EndProtocol DEF Ended
-----------------------------------------------------------------------------
(* The chunk loop and the append loop. *)

LEMMA DigestsFinite ==
  ASSUME NEW entries \in Seq(Entry)
  PROVE  IsFiniteSet(DigestsOf(entries))
<1> DEFINE places == 1 .. Len(entries)
           digest == [i \in places |-> entries[i].digest]
<1>1. IsFiniteSet(places)
  BY LenProperties, FS_Interval
<1>2. DOMAIN entries = places
  OBVIOUS
<1>3. digest \in Surjection(places, DigestsOf(entries))
  BY <1>2 DEF Surjection, DigestsOf
<1> HIDE DEF places, digest
<1> QED
  BY <1>1, <1>3, FS_Surjection

(* One more chunk: its digest joins the others, and ends add up as before. *)
LEMMA AddChunkSteps ==
  ASSUME NEW entries \in Seq(Entry), NEW g \in Digests, Contiguous(entries)
  PROVE  /\ DigestsOf(AddChunk(entries, g)) = DigestsOf(entries) \union {g}
         /\ Contiguous(AddChunk(entries, g))
<1> DEFINE n == Len(entries)
           more == AddChunk(entries, g)
<1>1. /\ more \in Seq(Entry) /\ Len(more) = n + 1 /\ n \in Nat
      /\ DOMAIN more = 1 .. n + 1 /\ DOMAIN entries = 1 .. n
  BY AddChunkType, LenProperties
<1>2. /\ \A i \in 1 .. n : more[i] = entries[i]
      /\ more[n + 1] = [end |-> EndOf(entries) + Size[g.data], digest |-> g]
  BY DEF AddChunk
<1> HIDE DEF more
<1>3. DigestsOf(more) = DigestsOf(entries) \union {g}
  <2>1. more[n + 1].digest = g
    BY <1>2
  <2>2. 1 .. n + 1 = 1 .. n \union {n + 1}
    BY <1>1
  <2> HIDE DEF n
  <2> QED
    BY <1>1, <1>2, <2>1, <2>2 DEF DigestsOf
<1>4. ASSUME NEW i \in 1 .. n + 1
      PROVE  more[i].end = StartOffset(more, i) + Size[more[i].digest.data]
  <2>1. CASE i \in 1 .. n
    <3>1. entries[i].end = StartOffset(entries, i) + Size[entries[i].digest.data]
      BY <1>1, <2>1 DEF Contiguous
    <3>2. StartOffset(more, i) = StartOffset(entries, i)
      BY <1>1, <1>2, <2>1 DEF StartOffset
    <3> QED
      BY <1>2, <2>1, <3>1, <3>2
  <2>2. CASE i = n + 1
    <3>1. StartOffset(more, n + 1) = EndOf(entries)
      BY <1>1, <1>2 DEF StartOffset, EndOf
    <3>2. more[n + 1].end = EndOf(entries) + Size[g.data] /\ more[n + 1].digest = g
      BY <1>2
    <3> QED
      BY <2>2, <3>1, <3>2
  <2> QED
    BY <1>1, <2>1, <2>2
<1>5. Contiguous(more)
  BY <1>1, <1>4 DEF Contiguous
<1> QED
  BY <1>3, <1>5 DEF more

(* A chunk is a repeat, one of the previous index, or a new one.           *)
OneMore(all, past, g) ==
  /\ g \in all => /\ Cardinality(all \union {g}) = Cardinality(all)
                  /\ Cardinality((all \union {g}) \cap past) = Cardinality(all \cap past)
  /\ g \notin all => Cardinality(all \union {g}) = Cardinality(all) + 1
  /\ g \notin all /\ g \in past =>
       Cardinality((all \union {g}) \cap past) = Cardinality(all \cap past) + 1
  /\ g \notin past => Cardinality((all \union {g}) \cap past) = Cardinality(all \cap past)

LEMMA ChunkCounts ==
  ASSUME NEW all, NEW past, NEW g, IsFiniteSet(all)
  PROVE  OneMore(all, past, g)
<1>1. IsFiniteSet(all \cap past)
  BY FS_Subset
<1>2. /\ Cardinality(all \union {g}) = IF g \in all THEN Cardinality(all) ELSE Cardinality(all) + 1
      /\ Cardinality((all \cap past) \union {g}) =
           IF g \in all \cap past THEN Cardinality(all \cap past) ELSE Cardinality(all \cap past) + 1
  BY <1>1, FS_AddElement
<1>3. (all \union {g}) \cap past = IF g \in past THEN (all \cap past) \union {g} ELSE all \cap past
  OBVIOUS
<1>4. g \in all => all \union {g} = all
  OBVIOUS
<1> QED
  BY <1>2, <1>3, <1>4 DEF OneMore

LEMMA StreamProtocol ==
  ASSUME TypeInv, StoreInv, ProtocolInv, NEW b \in Backups, StreamChunk(b)
  PROVE  ProtocolInv'
<1> DEFINE g == ChunkDigest(b, job[b].src[Len(idx[b]) + 1])
           put == Message("put", <<[start |-> 0, digest |-> g]>>, <<>>, job[b].key)
<1>1. /\ pc[b] \in {"create", "put", "stream"} /\ (pc[b] # "stream" => resp[b].status = "ok")
      /\ UNCHANGED <<job, known, sent, link, session>>
      /\ ~Drained(b)
  BY DEF StreamChunk, Streaming, Answered, server
<1>2. idx[b] \in Seq(Entry) /\ g \in Digests
  <2>1. /\ pc[b] # "idle" /\ Len(idx[b]) \in Nat /\ idx[b] \in Seq(Entry)
        /\ job[b].src \in Seq(Data) /\ job[b].key \in AllKeys
    BY <1>1, JobAtWork DEF TypeInv, TypeOK
  <2>2. Len(idx[b]) + 1 \in 1 .. Len(job[b].src)
    BY <1>1, <2>1 DEF Drained
  <2>3. job[b].src[Len(idx[b]) + 1] \in Data
    BY <2>1, <2>2, ElementOfSeq
  <2> QED
    BY <2>1, <2>3 DEF ChunkDigest, Digest, Digests
<1>3. /\ idx' = [idx EXCEPT ![b] = AddChunk(@, g)]
      /\ \/ g \in DigestsOf(idx[b]) /\ Call(b, "stream", NoRequest) /\ UNCHANGED stats
         \/ /\ g \notin DigestsOf(idx[b]) /\ g \in known[b] /\ Call(b, "stream", NoRequest)
            /\ stats' = [stats EXCEPT ![b].reused = @ + 1]
         \/ /\ g \notin DigestsOf(idx[b]) /\ g \notin known[b] /\ Call(b, "put", put)
            /\ stats' = [stats EXCEPT ![b].unique = @ + 1]
  BY DEF StreamChunk, Seen
<1> HIDE DEF g
<1>4. put.op = "put" /\ put.refs[1].digest = g
  BY DEF Message
<1> HIDE DEF put
<1>5. /\ idx'[b] = AddChunk(idx[b], g) /\ DigestsOf(idx[b])' = DigestsOf(idx[b]) \union {g}
      /\ Contiguous(idx[b])' /\ Len(idx'[b]) = Len(idx[b]) + 1 /\ Len(idx[b]) \in Nat
      /\ idx'[b][Len(idx'[b])].digest = g
  <2>1. idx'[b] = AddChunk(idx[b], g)
    BY <1>3 DEF TypeInv, TypeOK
  <2>2. Contiguous(idx[b])
    BY DEF ProtocolInv, CallOK
  <2>3. /\ DigestsOf(AddChunk(idx[b], g)) = DigestsOf(idx[b]) \union {g}
        /\ Contiguous(AddChunk(idx[b], g))
    BY <1>2, <2>2, AddChunkSteps
  <2>4. DigestsOf(idx[b])' = DigestsOf(idx[b]) \union {g}
    BY <2>1, <2>3 DEF DigestsOf
  <2>5. Contiguous(idx[b])'
    BY <2>1, <2>3 DEF Contiguous, StartOffset
  <2> QED
    BY <1>2, <2>1, <2>4, <2>5, AddChunkNames
<1>6. /\ resp'[b].status = "none" /\ resp'[b].digests = {}
      /\ \/ pc'[b] = "stream" /\ req'[b] = NoRequest /\ req'[b].op = "none" /\ g \in DigestsOf(idx[b]) \union known[b]
         \/ pc'[b] = "put" /\ req'[b] = put
      /\ \A c \in Backups \ {b} : Untouched(c)
  <2>1. \A c \in Backups \ {b} : idx'[c] = idx[c] /\ stats'[c] = stats[c]
    BY <1>3 DEF TypeInv, TypeOK
  <2>2. CASE Call(b, "stream", NoRequest) /\ g \in DigestsOf(idx[b]) \union known[b]
    BY <1>1, <2>1, <2>2, CallStarts, RequestType DEF Untouched
  <2>3. CASE Call(b, "put", put)
    BY <1>1, <2>1, <2>3, CallStarts DEF Untouched
  <2> QED
    BY <1>3, <2>2, <2>3
<1>7. CallOK(b) /\ CountOK(b) /\ (Holds(b) => HolderOK(b))
  BY DEF ProtocolInv
<1>8. CallOK(b)'
  BY <1>1, <1>4, <1>5, <1>6, <1>7 DEF CallOK, Live, Ops
<1>9. CountOK(b)'
  <2> DEFINE all == DigestsOf(idx[b])
  <2>1. IsFiniteSet(all)
    BY <1>2, DigestsFinite
  <2>2. /\ stats[b].unique \in Nat /\ stats[b].reused \in Nat
        /\ stats[b].unique + stats[b].reused = Cardinality(all)
        /\ stats[b].reused = Cardinality(all \cap known[b])
    BY <1>7 DEF CountOK, TypeInv, TypeOK
  <2>3. \/ g \in all /\ stats'[b].unique = stats[b].unique /\ stats'[b].reused = stats[b].reused
        \/ /\ g \notin all /\ g \in known[b]
           /\ stats'[b].unique = stats[b].unique /\ stats'[b].reused = stats[b].reused + 1
        \/ /\ g \notin all /\ g \notin known[b]
           /\ stats'[b].unique = stats[b].unique + 1 /\ stats'[b].reused = stats[b].reused
    BY <1>3 DEF TypeInv, TypeOK
  <2> HIDE DEF all
  <2>4. /\ stats'[b].unique + stats'[b].reused = Cardinality(all \union {g})
        /\ stats'[b].reused = Cardinality((all \union {g}) \cap known[b])
    <3>1. OneMore(all, known[b], g)
      BY <2>1, ChunkCounts
    <3> QED
      BY <2>2, <2>3, <3>1 DEF OneMore
  <2>5. pc'[b] \in Live
    BY <1>6 DEF Live, Ops
  <2>6. DigestsOf(idx[b])' = all \union {g} /\ known'[b] = known[b]
    BY <1>1, <1>5 DEF all
  <2> QED
    BY <2>4, <2>5, <2>6 DEF CountOK
<1>10. ASSUME Holds(b) PROVE HolderOK(b)'
  <2>1. SessionOK(b) /\ Unacknowledged(b) = {} /\ req[b].op # "append" /\ sent[b] = 0
    BY <1>1, <1>7, <1>10 DEF HolderOK, Unacknowledged, CallOK, StoreInv, RunOK, Ended, Live, Ops
  <2>2. Written(b) = 0 /\ Written(b)' = 0
    BY <1>1, <1>4, <1>6, <2>1 DEF Written
  <2>3. Unacknowledged(b)' = IF pc'[b] = "put" THEN {g} ELSE {}
    BY <1>5, <1>6 DEF Unacknowledged
  <2>4. known'[b] \union (DigestsOf(idx[b])' \ Unacknowledged(b)') \subseteq session'.registered
    BY <1>1, <1>5, <1>6, <2>1, <2>3 DEF SessionOK
  <2>5. /\ session'.wid # "none" /\ Len(session'.writer) = 0
    BY <1>1, <2>1, <2>2 DEF SessionOK
  <2>6. SessionOK(b)'
    BY <1>6, <2>2, <2>4, <2>5 DEF SessionOK
  <2> QED
    BY <1>4, <1>6, <2>6 DEF HolderOK
<1> QED
  BY <1>1, <1>6, <1>8, <1>9, <1>10, ClientProtocol

LEMMA AppendProtocol ==
  ASSUME TypeInv, StoreInv, ProtocolInv, NEW b \in Backups, AppendChunks(b)
  PROVE  ProtocolInv'
<1> DEFINE more == NextBatch(b) - sent[b]
           refs == [j \in 1 .. more |->
                      [start |-> StartOffset(idx[b], sent[b] + j),
                       digest |-> idx[b][sent[b] + j].digest]]
           append == Message("append", refs, <<>>, NoKey)
<1>1. /\ pc[b] \in {"create", "put", "stream", "append"}
      /\ pc[b] # "stream" => resp[b].status = "ok"
      /\ UNCHANGED <<job, known, idx, stats, link, session>>
      /\ Call(b, "append", append) /\ sent' = [sent EXCEPT ![b] = NextBatch(b)]
  BY DEF AppendChunks, Streaming, Answered, server
<1>2. append.op = "append" /\ append.refs = refs
  BY DEF Message
<1>3. more \in Nat /\ sent[b] \in Nat /\ NextBatch(b) = sent[b] + more
  <2>1. /\ Len(idx[b]) \in Nat /\ sent[b] \in Nat /\ sent[b] <= Len(idx[b]) /\ Batch \in Nat
    BY UploadAssumption DEF TypeInv, TypeOK, SentWithinIndex
  <2> QED
    BY <2>1 DEF NextBatch, Min2
<1>4. /\ Len(refs) = more
      /\ \A j \in 1 .. more : /\ refs[j].start = StartOffset(idx[b], sent[b] + j)
                              /\ refs[j].digest = idx[b][sent[b] + j].digest
  <2> HIDE DEF more
  <2> QED
    BY <1>3
<1> HIDE DEF more, refs, append
<1>5. /\ pc'[b] = "append" /\ req'[b] = append
      /\ resp'[b].status = "none" /\ resp'[b].digests = {}
      /\ sent'[b] = sent[b] + more
      /\ \A c \in Backups \ {b} : Untouched(c)
  BY <1>1, <1>3, CallStarts DEF Untouched, TypeInv, TypeOK
<1>6. CallOK(b) /\ CountOK(b) /\ (Holds(b) => HolderOK(b))
  BY DEF ProtocolInv
<1>7. CallOK(b)'
  <2>1. Len(req'[b].refs) <= sent'[b] /\ sent'[b] - Len(req'[b].refs) = sent[b]
    BY <1>2, <1>3, <1>4, <1>5
  <2>2. \A j \in 1 .. Len(req'[b].refs) :
          /\ req'[b].refs[j].start = StartOffset(idx'[b], sent'[b] - Len(req'[b].refs) + j)
          /\ req'[b].refs[j].digest = idx'[b][sent'[b] - Len(req'[b].refs) + j].digest
    BY <1>1, <1>2, <1>4, <1>5, <2>1 DEF StartOffset
  <2>3. Contiguous(idx[b])'
    BY <1>1, <1>6 DEF CallOK, Contiguous, StartOffset
  <2> QED
    BY <1>1, <1>2, <1>5, <2>1, <2>2, <2>3 DEF CallOK, StartOffset, Live, Ops
<1>8. CountOK(b)'
  BY <1>1, <1>5, <1>6 DEF CountOK, DigestsOf, Live, Ops
<1>9. ASSUME Holds(b) PROVE HolderOK(b)'
  <2>1. SessionOK(b) /\ Unacknowledged(b) = {} /\ req[b].op # "append"
    BY <1>1, <1>6, <1>9 DEF HolderOK, Unacknowledged, CallOK, StoreInv, RunOK, Ended, Live, Ops
  <2>2. Written(b) = sent[b] /\ Written(b)' = sent[b] /\ Unacknowledged(b)' = {}
    BY <1>2, <1>3, <1>4, <1>5, <2>1 DEF Written, Unacknowledged
  <2>3. /\ Len(session.writer) = sent[b] /\ session.wid # "none"
        /\ \A i \in 1 .. Len(session.writer) : session.writer[i] = idx[b][i]
        /\ known[b] \union DigestsOf(idx[b]) \subseteq session.registered
    BY <1>1, <2>1, <2>2 DEF SessionOK
  <2>4. SessionOK(b)'
    BY <1>1, <1>5, <2>2, <2>3 DEF SessionOK, DigestsOf
  <2> QED
    BY <1>2, <1>5, <2>4 DEF HolderOK
<1> QED
  BY <1>1, <1>5, <1>7, <1>8, <1>9, ClientProtocol
-----------------------------------------------------------------------------
(* The steps of the server and the network. *)

(* An answer reaches a run only while its connection is up, so while it is *)
(* at work and waits for this very call.                                   *)
LEMMA AnswerReaches ==
  ASSUME TypeInv, StoreInv, ProtocolInv, NEW b \in Backups, NEW r, Reply(b, r), req[b].op # "none",
         UNCHANGED <<client, link>>, link[b] => r.status # "refused",
         r.digests # {} => req[b].op = "previous"
  PROVE  /\ req'[b].op = "none" /\ CallOK(b)' /\ CountOK(b)'
         /\ \A c \in Backups \ {b} : Untouched(c) /\ link'[c] = link[c]
         /\ \/ link[b] /\ pc[b] = req[b].op /\ pc[b] \in Live /\ resp'[b] = r
            \/ ~link[b] /\ resp'[b].status = "none" /\ resp'[b].digests = {}
<1>1. /\ req'[b] = NoRequest /\ req'[b].op = "none"
      /\ UNCHANGED <<pc, job, known, idx, sent, stats, link>>
      /\ resp'[b] = IF link[b] THEN r ELSE NoResponse
      /\ \A c \in Backups \ {b} : req'[c] = req[c] /\ resp'[c] = resp[c]
  BY RequestType DEF Reply, TypeInv, TypeOK, client
<1>2. CallOK(b) /\ CountOK(b) /\ RunOK(b)
  BY DEF ProtocolInv, StoreInv
<1>3. link[b] => pc[b] = req[b].op /\ pc[b] \in Live
  BY <1>2 DEF CallOK, RunOK, Live, Ops, Ended
<1>4. /\ resp'[b].status # "refused" /\ (resp'[b].digests # {} => pc[b] = "previous")
      /\ ~link[b] => resp'[b].status = "none" /\ resp'[b].digests = {}
  BY <1>1, <1>3 DEF NoResponse
<1>5. CallOK(b)'
  BY <1>1, <1>2, <1>4 DEF CallOK, Contiguous, StartOffset
<1>6. CountOK(b)'
  BY <1>1, <1>2 DEF CountOK, DigestsOf
<1>7. \A c \in Backups \ {b} : Untouched(c) /\ link'[c] = link[c]
  BY <1>1 DEF Untouched
<1> QED
  BY <1>1, <1>3, <1>4, <1>5, <1>6, <1>7

(* A request that ends in an error, or is refused to a run that has gone.  *)
LEMMA RefuseProtocol ==
  ASSUME TypeInv, StoreInv, ProtocolInv, NEW b \in Backups, NEW st \in {"error", "refused"},
         Reply(b, Answer(st)), req[b].op # "none", UNCHANGED <<client, link, session>>,
         link[b] => st = "error"
  PROVE  ProtocolInv'
<1>1. Answer(st).status = st /\ Answer(st).digests = {}
  BY DEF Answer
<1>2. /\ req'[b].op = "none" /\ CallOK(b)' /\ CountOK(b)'
      /\ \A c \in Backups \ {b} : Untouched(c) /\ link'[c] = link[c]
      /\ resp'[b].status # "ok" /\ resp'[b].digests = {}
  BY <1>1, AnswerReaches
<1>3. ASSUME Holds(b) PROVE HolderOK(b)'
  <2>1. CallOK(b) /\ HolderOK(b) /\ RunOK(b)
    BY <1>3 DEF ProtocolInv, StoreInv
  <2>2. resp[b].status = "none"
    BY <2>1 DEF CallOK
  <2>3. Unacknowledged(b)' = Unacknowledged(b)
    BY <1>2, <2>2 DEF Unacknowledged, client
  <2>4. req[b].op # "append" => Written(b)' = Written(b)
    BY <1>2 DEF Written, client
  <2>5. req[b].op = "append" /\ pc[b] \in Live => pc[b] = "append"
    BY <2>1 DEF RunOK, Live, Ops, Ended
  <2>6. ASSUME pc[b] \in Live, SessionOK(b) PROVE SessionOK(b)'
    BY <1>2, <2>2, <2>3, <2>4, <2>5, <2>6 DEF SessionOK, client, DigestsOf
  <2> QED
    BY <1>2, <2>1, <2>6 DEF HolderOK, client
<1> QED
  BY <1>2, <1>3, ClientProtocol

(* A request that is served, for the run that holds the session after it.  *)
LEMMA ServedProtocol ==
  ASSUME ProtocolInv, NEW b \in Backups, \A c \in Backups \ {b} : Untouched(c) /\ link'[c] = link[c],
         CallOK(b)', CountOK(b)', \A c \in Backups : Holds(c)' => c = b, Holds(b)' => HolderOK(b)'
  PROVE  ProtocolInv'
<1> SUFFICES ASSUME NEW c \in Backups PROVE CallOK(c)' /\ CountOK(c)' /\ (Holds(c)' => HolderOK(c)')
  BY DEF ProtocolInv
<1>1. CASE c = b
  BY <1>1
<1>2. CASE c # b
  BY <1>2, UntouchedKept DEF ProtocolInv
<1> QED
  BY <1>1, <1>2

LEMMA ServeBeginProtocol ==
  ASSUME TypeInv, StoreInv, ProtocolInv, NEW b \in Backups, ServeBegin(b)
  PROVE  ProtocolInv'
<1>1. req[b].op = "begin" /\ UNCHANGED <<client, link>>
  BY DEF ServeBegin
<1>2. CASE Reply(b, Answer("error")) /\ UNCHANGED session
  BY <1>1, <1>2, RefuseProtocol
<1>3. CASE session' = NewSession(b) /\ Reply(b, Answer("ok"))
  <2>1. Answer("ok").status = "ok" /\ Answer("ok").digests = {}
    BY DEF Answer
  <2>2. /\ req'[b].op = "none" /\ CallOK(b)' /\ CountOK(b)' /\ resp'[b].digests = {}
        /\ \A c \in Backups \ {b} : Untouched(c) /\ link'[c] = link[c]
    BY <1>1, <1>3, <2>1, AnswerReaches
  <2>3. \A c \in Backups : Holds(c)' => c = b
    BY <1>3 DEF Holds, NewSession
  <2>4. HolderOK(b)'
    <3>1. SUFFICES ASSUME pc[b] \in Live PROVE SessionOK(b)'
      BY <1>1, <2>2 DEF HolderOK, client
    <3>2. pc[b] = "begin"
      BY <1>1, <3>1 DEF StoreInv, RunOK, Live, Ops, Ended
    <3>3. known[b] = {} /\ idx[b] = <<>> /\ sent[b] = 0
      BY <3>2 DEF ProtocolInv, CallOK
    <3>4. Written(b)' = 0 /\ DigestsOf(idx[b])' = {}
      BY <1>1, <2>2, <3>3 DEF Written, DigestsOf, client
    <3>5. session'.wid = "none" /\ session'.writer = <<>> /\ session'.registered = {}
      BY <1>3 DEF NewSession
    <3> QED
      BY <1>1, <2>2, <3>2, <3>3, <3>4, <3>5 DEF SessionOK, client
  <2> QED
    BY <2>2, <2>3, <2>4, ServedProtocol
<1> QED
  BY <1>2, <1>3 DEF ServeBegin

(* What is common to the requests of a session: its run is in this call,   *)
(* or has ended.                                                           *)
LEMMA InSession ==
  ASSUME TypeInv, StoreInv, ProtocolInv, NEW b \in Backups, req[b].op # "none", Holds(b)
  PROVE  /\ session \in Sessions /\ HeldOK(b) /\ CallOK(b) /\ resp[b].status = "none"
         /\ pc[b] \in Live => pc[b] = req[b].op /\ SessionOK(b)
         /\ link[b] => pc[b] \in Live
BY SessionHeld DEF StoreInv, RunOK, ProtocolInv, CallOK, HolderOK, Live, Ops, Ended

LEMMA ServePreviousProtocol ==
  ASSUME TypeInv, StoreInv, ProtocolInv, NEW b \in Backups, ServePrevious(b)
  PROVE  ProtocolInv'
<1>1. req[b].op = "previous" /\ Holds(b) /\ UNCHANGED <<client, link>>
  BY DEF ServePrevious
<1>2. CASE Reply(b, Answer("error")) /\ UNCHANGED session
  BY <1>1, <1>2, RefuseProtocol
<1>3. ASSUME NEW t \in Times,
             session' = [session EXCEPT !.registered = @ \union DigestsOf(snaps[t].entries)],
             Reply(b, [status |-> "ok", digests |-> DigestsOf(snaps[t].entries)])
      PROVE  ProtocolInv'
  <2> DEFINE past == DigestsOf(snaps[t].entries)
             r == [status |-> "ok", digests |-> past]
  <2>1. r.status = "ok" /\ r.digests = past
    OBVIOUS
  <2>2. Reply(b, r)
    BY <1>3
  <2>3. session' = [session EXCEPT !.registered = @ \union past]
    BY <1>3
  <2> HIDE DEF past, r
  <2>4. /\ req'[b].op = "none" /\ CallOK(b)' /\ CountOK(b)' /\ resp'[b].digests \subseteq past
        /\ \A c \in Backups \ {b} : Untouched(c) /\ link'[c] = link[c]
    BY <1>1, <2>1, <2>2, AnswerReaches
  <2>5. /\ session'.registered = session.registered \union past
        /\ session'.writer = session.writer /\ session'.wid = session.wid
        /\ session'.manifest = session.manifest /\ session'.owner = session.owner
    BY <1>1, <2>3, SessionHeld DEF Sessions
  <2>6. HolderOK(b)'
    <3>1. SUFFICES ASSUME pc[b] \in Live PROVE SessionOK(b)'
      BY <1>1, <2>4 DEF HolderOK, client
    <3>2. pc[b] = "previous" /\ SessionOK(b)
      BY <1>1, <3>1, InSession
    <3>3. Written(b) = sent[b] /\ Written(b)' = sent[b] /\ Unacknowledged(b) = {}
          /\ Unacknowledged(b)' = {} /\ DigestsOf(idx[b])' = DigestsOf(idx[b])
      BY <1>1, <2>4, <3>2 DEF Written, Unacknowledged, DigestsOf, client
    <3> QED
      BY <1>1, <2>4, <2>5, <3>2, <3>3 DEF SessionOK, client
  <2> QED
    BY <1>1, <2>4, <2>5, <2>6, SessionStays, ServedProtocol
<1> QED
  BY <1>2, <1>3 DEF ServePrevious

LEMMA ServeCreateProtocol ==
  ASSUME TypeInv, StoreInv, ProtocolInv, NEW b \in Backups, ServeCreate(b)
  PROVE  ProtocolInv'
<1>1. req[b].op = "create" /\ Holds(b) /\ UNCHANGED <<client, link>> /\ Reply(b, Answer("ok"))
  BY DEF ServeCreate
<1>2. Answer("ok").status = "ok" /\ Answer("ok").digests = {}
  BY DEF Answer
<1>3. /\ req'[b].op = "none" /\ CallOK(b)' /\ CountOK(b)' /\ resp'[b].digests = {}
      /\ \A c \in Backups \ {b} : Untouched(c) /\ link'[c] = link[c]
  BY <1>1, <1>2, AnswerReaches
<1>4. /\ session'.registered = session.registered
      /\ session'.writer = session.writer /\ session'.wid = "open"
      /\ session'.manifest = session.manifest /\ session'.owner = session.owner
  BY <1>1, SessionHeld DEF ServeCreate, Sessions
<1>5. HolderOK(b)'
  <2>1. SUFFICES ASSUME pc[b] \in Live PROVE SessionOK(b)'
    BY <1>1, <1>3 DEF HolderOK, client
  <2>2. pc[b] = "create" /\ SessionOK(b)
    BY <1>1, <2>1, InSession
  <2>3. Written(b) = sent[b] /\ Written(b)' = sent[b] /\ Unacknowledged(b) = {}
        /\ Unacknowledged(b)' = {} /\ DigestsOf(idx[b])' = DigestsOf(idx[b])
    BY <1>1, <1>3, <2>2 DEF Written, Unacknowledged, DigestsOf, client
  <2> QED
    BY <1>1, <1>3, <1>4, <2>2, <2>3 DEF SessionOK, client
<1> QED
  BY <1>1, <1>3, <1>4, <1>5, SessionStays, ServedProtocol

LEMMA ServePutProtocol ==
  ASSUME TypeInv, StoreInv, ProtocolInv, NEW b \in Backups, ServePut(b)
  PROVE  ProtocolInv'
<1> DEFINE g == req[b].refs[1].digest
<1>1. req[b].op = "put" /\ Holds(b) /\ UNCHANGED <<client, link>> /\ Reply(b, Answer("ok"))
  BY DEF ServePut
<1>2. Answer("ok").status = "ok" /\ Answer("ok").digests = {}
  BY DEF Answer
<1>3. /\ req'[b].op = "none" /\ CallOK(b)' /\ CountOK(b)' /\ resp'[b].digests = {}
      /\ \A c \in Backups \ {b} : Untouched(c) /\ link'[c] = link[c]
      /\ resp'[b].status \in {"ok", "none"}
  BY <1>1, <1>2, AnswerReaches
<1>4. /\ session'.registered = session.registered \union {g}
      /\ session'.writer = session.writer /\ session'.wid = session.wid
      /\ session'.manifest = session.manifest /\ session'.owner = session.owner
  BY <1>1, SessionHeld DEF ServePut, Sessions
<1>5. HolderOK(b)'
  <2>1. SUFFICES ASSUME pc[b] \in Live PROVE SessionOK(b)'
    BY <1>1, <1>3 DEF HolderOK, client
  <2>2. pc[b] = "put" /\ SessionOK(b) /\ CallOK(b) /\ resp[b].status = "none"
    BY <1>1, <2>1, InSession
  <2>3. g = idx[b][Len(idx[b])].digest
    BY <1>1, <2>2 DEF CallOK
  <2> HIDE DEF g
  <2>4. Written(b) = sent[b] /\ Written(b)' = sent[b] /\ Unacknowledged(b) = {g}
        /\ DigestsOf(idx[b])' = DigestsOf(idx[b])
    BY <1>1, <1>3, <2>2, <2>3 DEF Written, Unacknowledged, DigestsOf, client
  <2>5. known[b] \union DigestsOf(idx[b]) \subseteq session'.registered
    BY <1>4, <2>2, <2>4 DEF SessionOK
  <2> QED
    BY <1>1, <1>3, <1>4, <2>2, <2>4, <2>5 DEF SessionOK, client
<1> QED
  BY <1>1, <1>3, <1>4, <1>5, SessionStays, ServedProtocol

(* The references of an append under way are the next entries of the       *)
(* index, whose beginning the server has.                                  *)
LEMMA AppendUnderWay ==
  ASSUME TypeInv, StoreInv, ProtocolInv, NEW b \in Backups, req[b].op = "append", Holds(b),
         pc[b] \in Live
  PROVE  LET refs == req[b].refs
             w == Len(session.writer)
         IN /\ refs \in Seq(Ref) /\ session.writer \in Seq(Entry)
            /\ w + Len(refs) = sent[b] /\ sent[b] <= Len(idx[b])
            /\ \A i \in 1 .. w : session.writer[i] = idx[b][i]
            /\ \A j \in 1 .. Len(refs) :
                 /\ w + j \in 1 .. Len(idx[b])
                 /\ refs[j].start = StartOffset(idx[b], w + j)
                 /\ refs[j].digest = idx[b][w + j].digest
                 /\ RefEnd(refs, j) = idx[b][w + j].end
                 /\ refs[j].digest \in session.registered
<1> DEFINE refs == req[b].refs
           w == Len(session.writer)
<1>1. pc[b] = "append" /\ CallOK(b) /\ SessionOK(b) /\ session \in Sessions
  BY InSession
<1>2. /\ refs \in Seq(Ref) /\ session.writer \in Seq(Entry) /\ idx[b] \in Seq(Entry)
      /\ sent[b] \in Nat /\ sent[b] <= Len(idx[b])
  BY <1>1 DEF TypeInv, TypeOK, SentWithinIndex, Requests, Sessions
<1>3. Len(refs) \in Nat /\ w \in Nat /\ Len(idx[b]) \in Nat /\ DOMAIN idx[b] = 1 .. Len(idx[b])
  BY <1>2, LenProperties
<1>4. w = sent[b] - Len(refs) /\ \A i \in 1 .. w : session.writer[i] = idx[b][i]
  BY <1>1 DEF SessionOK, Written
<1>5. w + Len(refs) = sent[b]
  BY <1>2, <1>3, <1>4
<1>6. ASSUME NEW j \in 1 .. Len(refs)
      PROVE  /\ w + j \in 1 .. Len(idx[b])
             /\ refs[j].start = StartOffset(idx[b], w + j)
             /\ refs[j].digest = idx[b][w + j].digest
             /\ RefEnd(refs, j) = idx[b][w + j].end
             /\ refs[j].digest \in session.registered
  <2>1. w + j \in 1 .. Len(idx[b])
    <3> HIDE DEF w, refs
    <3> QED
      BY <1>2, <1>3, <1>5
  <2>2. /\ refs[j].start = StartOffset(idx[b], w + j)
        /\ refs[j].digest = idx[b][w + j].digest
    BY <1>1, <1>4 DEF CallOK
  <2>3. RefEnd(refs, j) = idx[b][w + j].end
    <3>1. Contiguous(idx[b])
      BY <1>1 DEF CallOK
    <3>2. idx[b][w + j].end = StartOffset(idx[b], w + j) + Size[idx[b][w + j].digest.data]
      BY <1>3, <2>1, <3>1 DEF Contiguous
    <3> QED
      BY <2>2, <3>2 DEF RefEnd
  <2>4. refs[j].digest \in session.registered
    <3>1. idx[b][w + j].digest \in DigestsOf(idx[b])
      BY <1>3, <2>1 DEF DigestsOf
    <3>2. DigestsOf(idx[b]) \subseteq session.registered
      BY <1>1 DEF SessionOK, Unacknowledged
    <3> QED
      BY <2>2, <3>1, <3>2
  <2> QED
    BY <2>1, <2>2, <2>3, <2>4
<1> HIDE DEF refs, w
<1>7. /\ refs \in Seq(Ref) /\ session.writer \in Seq(Entry)
      /\ w + Len(refs) = sent[b] /\ sent[b] <= Len(idx[b])
      /\ \A i \in 1 .. w : session.writer[i] = idx[b][i]
  BY <1>2, <1>4, <1>5
<1> QED
  BY <1>6, <1>7 DEF refs, w

LEMMA AppendIsTaken ==
  ASSUME TypeInv, StoreInv, ProtocolInv, NEW b \in Backups, req[b].op = "append", Holds(b),
         pc[b] \in Live
  PROVE  Appendable(req[b].refs)
<1> DEFINE refs == req[b].refs
           w == Len(session.writer)
<1>1. /\ refs \in Seq(Ref) /\ session.writer \in Seq(Entry)
      /\ \A i \in 1 .. w : session.writer[i] = idx[b][i]
      /\ \A j \in 1 .. Len(refs) :
           /\ refs[j].start = StartOffset(idx[b], w + j)
           /\ RefEnd(refs, j) = idx[b][w + j].end
           /\ refs[j].digest \in session.registered
  BY AppendUnderWay
<1>2. Len(refs) \in Nat /\ w \in Nat /\ DOMAIN refs = 1 .. Len(refs)
  BY <1>1, LenProperties
<1>3. Len(refs) > 0 => refs[1].start = EndOf(session.writer)
  <2>1. SUFFICES ASSUME Len(refs) > 0 PROVE refs[1].start = EndOf(session.writer)
    OBVIOUS
  <2>2. refs[1].start = StartOffset(idx[b], w + 1)
    BY <1>1, <1>2, <2>1
  <2>3. CASE w = 0
    BY <2>2, <2>3 DEF StartOffset, EndOf
  <2>4. CASE w # 0
    <3>1. w \in 1 .. w /\ w + 1 # 1 /\ (w + 1) - 1 = w
      BY <1>2, <2>4
    <3>2. session.writer[w] = idx[b][w]
      BY <1>1, <3>1
    <3> QED
      BY <2>2, <2>4, <3>1, <3>2 DEF StartOffset, EndOf
  <2> QED
    BY <2>3, <2>4
<1>4. ASSUME NEW j \in 1 .. Len(refs), j > 1 PROVE refs[j].start = RefEnd(refs, j - 1)
  <2>1. j - 1 \in 1 .. Len(refs) /\ w + j # 1 /\ (w + j) - 1 = w + (j - 1)
    BY <1>2, <1>4
  <2>2. RefEnd(refs, j - 1) = idx[b][w + (j - 1)].end
    BY <1>1, <2>1
  <2>3. refs[j].start = StartOffset(idx[b], w + j)
    BY <1>1
  <2> QED
    BY <2>1, <2>2, <2>3 DEF StartOffset
<1> HIDE DEF w, refs
<1>5. \A i \in DOMAIN refs : refs[i].digest \in session.registered
  BY <1>1, <1>2
<1>6. \A i \in DOMAIN refs : i > 1 => refs[i].start = RefEnd(refs, i - 1)
  BY <1>2, <1>4
<1>7. Appendable(refs)
  BY <1>3, <1>5, <1>6 DEF Appendable
<1> QED
  BY <1>7 DEF refs

LEMMA ServeAppendProtocol ==
  ASSUME TypeInv, StoreInv, ProtocolInv, NEW b \in Backups, ServeAppend(b)
  PROVE  ProtocolInv'
<1> DEFINE refs == req[b].refs
           new == [i \in DOMAIN refs |-> [end |-> RefEnd(refs, i), digest |-> refs[i].digest]]
<1>1. req[b].op = "append" /\ Holds(b) /\ UNCHANGED <<client, link>> /\ session \in Sessions
  BY SessionHeld DEF ServeAppend
<1>2. CASE ~Appendable(refs) /\ Reply(b, Answer("refused")) /\ UNCHANGED session
  <2>1. ~link[b]
    BY <1>1, <1>2, InSession, AppendIsTaken
  <2> QED
    BY <1>1, <1>2, <2>1, RefuseProtocol
<1>3. CASE Reply(b, Answer("ok")) /\ session' = [session EXCEPT !.writer = @ \o new]
  <2>1. Answer("ok").status = "ok" /\ Answer("ok").digests = {}
    BY DEF Answer
  <2>2. /\ req'[b].op = "none" /\ CallOK(b)' /\ CountOK(b)' /\ resp'[b].digests = {}
        /\ \A c \in Backups \ {b} : Untouched(c) /\ link'[c] = link[c]
    BY <1>1, <1>3, <2>1, AnswerReaches
  <2>3. /\ session'.registered = session.registered
        /\ session'.writer = session.writer \o new /\ session'.wid = session.wid
        /\ session'.manifest = session.manifest /\ session'.owner = session.owner
    BY <1>1, <1>3 DEF Sessions
  <2>4. HolderOK(b)'
    <3>1. SUFFICES ASSUME pc[b] \in Live PROVE SessionOK(b)'
      BY <1>1, <2>2 DEF HolderOK, client
    <3>2. pc[b] = "append" /\ SessionOK(b)
      BY <1>1, <3>1, InSession
    <3> DEFINE w == Len(session.writer)
    <3>3. /\ refs \in Seq(Ref) /\ session.writer \in Seq(Entry)
          /\ w + Len(refs) = sent[b] /\ sent[b] <= Len(idx[b])
          /\ \A i \in 1 .. w : session.writer[i] = idx[b][i]
          /\ \A j \in 1 .. Len(refs) :
               /\ w + j \in 1 .. Len(idx[b])
               /\ refs[j].digest = idx[b][w + j].digest
               /\ RefEnd(refs, j) = idx[b][w + j].end
      BY <1>1, <3>1, AppendUnderWay
    <3>4. /\ w \in Nat /\ Len(refs) \in Nat /\ DOMAIN refs = 1 .. Len(refs)
          /\ Len(idx[b]) \in Nat /\ \A i \in 1 .. Len(idx[b]) : idx[b][i] \in Entry
      BY <3>3, LenProperties, ElementOfSeq DEF TypeInv, TypeOK
    <3>5. \A j \in 1 .. Len(refs) : new[j] = idx[b][w + j]
      <4>1. SUFFICES ASSUME NEW j \in 1 .. Len(refs) PROVE new[j] = idx[b][w + j]
        OBVIOUS
      <4>2. new[j] = [end |-> RefEnd(refs, j), digest |-> refs[j].digest]
        BY <3>4
      <4>3. idx[b][w + j] \in Entry
        BY <3>3, <3>4
      <4> QED
        BY <3>3, <4>2, <4>3 DEF Entry
    <3>6. new \in Seq(Entry) /\ Len(new) = Len(refs)
      <4>1. \A j \in 1 .. Len(refs) : new[j] \in Entry
        BY <3>3, <3>4, <3>5
      <4>2. new = [j \in 1 .. Len(refs) |-> new[j]]
        BY <3>4
      <4> HIDE DEF new
      <4> QED
        BY <3>4, <4>1, <4>2, IsASeq
    <3> HIDE DEF new, refs
    <3>7. /\ Len(session.writer \o new) = w + Len(new)
          /\ \A i \in 1 .. w : (session.writer \o new)[i] = session.writer[i]
          /\ \A j \in 1 .. Len(new) : (session.writer \o new)[w + j] = new[j]
      <4> DEFINE old == session.writer
      <4>1. old \in Seq(Entry)
        BY <3>3
      <4> HIDE DEF old
      <4>2. /\ Len(old \o new) = Len(old) + Len(new)
            /\ \A i \in 1 .. Len(old) : (old \o new)[i] = old[i]
            /\ \A j \in 1 .. Len(new) : (old \o new)[Len(old) + j] = new[j]
        BY <3>6, <4>1, ConcatProperties
      <4> QED
        BY <4>2 DEF old
    <3>8. Len(session'.writer) = sent[b]
      BY <2>3, <3>3, <3>6, <3>7
    <3>9. ASSUME NEW i \in 1 .. Len(session'.writer) PROVE session'.writer[i] = idx[b][i]
      <4>1. CASE i \in 1 .. w
        BY <2>3, <3>3, <3>7, <4>1
      <4>2. CASE i > w
        <5>1. i - w \in 1 .. Len(refs) /\ w + (i - w) = i
          BY <3>3, <3>4, <3>8, <4>2
        <5>2. (session.writer \o new)[w + (i - w)] = new[i - w] /\ new[i - w] = idx[b][w + (i - w)]
          BY <3>5, <3>6, <3>7, <5>1
        <5> QED
          BY <2>3, <5>1, <5>2
      <4> QED
        BY <3>3, <3>4, <3>8, <4>1, <4>2
    <3>10. Written(b)' = sent[b] /\ Unacknowledged(b) = {} /\ Unacknowledged(b)' = {}
           /\ DigestsOf(idx[b])' = DigestsOf(idx[b])
      BY <1>1, <2>2, <3>2 DEF Written, Unacknowledged, DigestsOf, client
    <3> QED
      BY <1>1, <2>2, <2>3, <3>2, <3>8, <3>9, <3>10 DEF SessionOK, client
  <2> QED
    BY <1>1, <2>2, <2>3, <2>4, SessionStays, ServedProtocol
<1> QED
  BY <1>1, <1>2, <1>3 DEF ServeAppend

(* By the time of the close the server has assembled the client's index.   *)
LEMMA CloseIsTaken ==
  ASSUME TypeInv, StoreInv, ProtocolInv, NEW b \in Backups, req[b].op = "close", Holds(b),
         pc[b] \in Live
  PROVE  session.wid = "open" /\ session.writer = req[b].csum
<1>1. /\ pc[b] = "close" /\ CallOK(b) /\ SessionOK(b) /\ session \in Sessions /\ HeldOK(b)
  BY InSession
<1>2. session.wid = "open"
  BY <1>1 DEF SessionOK, HeldOK, Sessions
<1>3. req[b].csum = idx[b]
  BY <1>1 DEF StoreInv, RunOK
<1>4. session.writer \in Seq(Entry) /\ idx[b] \in Seq(Entry)
  BY <1>1 DEF TypeInv, TypeOK, Sessions
<1>5. /\ Len(session.writer) = Len(idx[b])
      /\ \A i \in 1 .. Len(session.writer) : session.writer[i] = idx[b][i]
  BY <1>1 DEF SessionOK, Written, CallOK
<1>6. session.writer = idx[b]
  BY <1>4, <1>5, SeqEqual
<1> QED
  BY <1>2, <1>3, <1>6

LEMMA ServeCloseProtocol ==
  ASSUME TypeInv, StoreInv, ProtocolInv, NEW b \in Backups, ServeClose(b)
  PROVE  ProtocolInv'
<1>1. req[b].op = "close" /\ Holds(b) /\ UNCHANGED <<client, link>> /\ session \in Sessions
  BY SessionHeld DEF ServeClose
<1>2. CASE /\ ~(session.wid = "open" /\ session.writer = req[b].csum)
           /\ Reply(b, Answer("refused")) /\ UNCHANGED session
  <2>1. ~link[b]
    BY <1>1, <1>2, InSession, CloseIsTaken
  <2> QED
    BY <1>1, <1>2, <2>1, RefuseProtocol
<1>3. CASE Reply(b, Answer("ok")) /\ session' = [session EXCEPT !.wid = "closed"]
  <2>1. Answer("ok").status = "ok" /\ Answer("ok").digests = {}
    BY DEF Answer
  <2>2. /\ req'[b].op = "none" /\ CallOK(b)' /\ CountOK(b)' /\ resp'[b].digests = {}
        /\ \A c \in Backups \ {b} : Untouched(c) /\ link'[c] = link[c]
    BY <1>1, <1>3, <2>1, AnswerReaches
  <2>3. /\ session'.registered = session.registered
        /\ session'.writer = session.writer /\ session'.wid = "closed"
        /\ session'.manifest = session.manifest /\ session'.owner = session.owner
    BY <1>1, <1>3 DEF Sessions
  <2>4. HolderOK(b)'
    <3>1. SUFFICES ASSUME pc[b] \in Live PROVE SessionOK(b)'
      BY <1>1, <2>2 DEF HolderOK, client
    <3>2. pc[b] = "close" /\ SessionOK(b)
      BY <1>1, <3>1, InSession
    <3>3. Written(b) = sent[b] /\ Written(b)' = sent[b] /\ Unacknowledged(b) = {}
          /\ Unacknowledged(b)' = {} /\ DigestsOf(idx[b])' = DigestsOf(idx[b])
      BY <1>1, <2>2, <3>2 DEF Written, Unacknowledged, DigestsOf, client
    <3> QED
      BY <1>1, <2>2, <2>3, <3>2, <3>3 DEF SessionOK, client
  <2> QED
    BY <1>1, <2>2, <2>3, <2>4, SessionStays, ServedProtocol
<1> QED
  BY <1>1, <1>2, <1>3 DEF ServeClose

LEMMA ServeBlobProtocol ==
  ASSUME TypeInv, StoreInv, ProtocolInv, NEW b \in Backups, ServeBlob(b)
  PROVE  ProtocolInv'
<1> DEFINE manifest == [csum |-> req[b].csum, key |-> req[b].key]
<1>1. /\ req[b].op = "blob" /\ Holds(b) /\ UNCHANGED <<client, link>> /\ Reply(b, Answer("ok"))
      /\ session \in Sessions
  BY SessionHeld DEF ServeBlob
<1>2. Answer("ok").status = "ok" /\ Answer("ok").digests = {}
  BY DEF Answer
<1>3. /\ req'[b].op = "none" /\ CallOK(b)' /\ CountOK(b)' /\ resp'[b].digests = {}
      /\ \A c \in Backups \ {b} : Untouched(c) /\ link'[c] = link[c]
  BY <1>1, <1>2, AnswerReaches
<1>4. /\ session'.registered = session.registered
      /\ session'.writer = session.writer /\ session'.wid = session.wid
      /\ session'.manifest # Nothing /\ session'.owner = session.owner
  <2>1. session'.manifest = manifest
    BY <1>1 DEF ServeBlob, Sessions
  <2>2. manifest # Nothing
    <3>1. req[b].csum \in Seq(Entry) /\ req[b].key \in AllKeys
      BY DEF TypeInv, TypeOK, Requests
    <3> QED
      BY <3>1, UploadAssumption DEF Manifest
  <2> QED
    BY <1>1, <2>1, <2>2 DEF ServeBlob, Sessions
<1>5. HolderOK(b)'
  <2>1. SUFFICES ASSUME pc[b] \in Live PROVE SessionOK(b)'
    BY <1>1, <1>3 DEF HolderOK, client
  <2>2. pc[b] = "blob" /\ SessionOK(b)
    BY <1>1, <2>1, InSession
  <2>3. Written(b) = sent[b] /\ Written(b)' = sent[b] /\ Unacknowledged(b) = {}
        /\ Unacknowledged(b)' = {} /\ DigestsOf(idx[b])' = DigestsOf(idx[b])
    BY <1>1, <1>3, <2>2 DEF Written, Unacknowledged, DigestsOf, client
  <2> QED
    BY <1>1, <1>3, <1>4, <2>2, <2>3 DEF SessionOK, client
<1> QED
  BY <1>1, <1>3, <1>4, <1>5, SessionStays, ServedProtocol

(* By the time of the finish the index is closed and described.            *)
LEMMA FinishIsTaken ==
  ASSUME TypeInv, StoreInv, ProtocolInv, NEW b \in Backups, req[b].op = "finish", Holds(b),
         pc[b] \in Live
  PROVE  session.wid = "closed" /\ session.manifest # Nothing
<1>1. pc[b] = "finish" /\ SessionOK(b) /\ HeldOK(b)
  BY InSession
<1> QED
  BY <1>1 DEF SessionOK, HeldOK

LEMMA ServeFinishProtocol ==
  ASSUME TypeInv, StoreInv, ProtocolInv, NEW b \in Backups, ServeFinish(b)
  PROVE  ProtocolInv'
<1>1. req[b].op = "finish" /\ Holds(b) /\ UNCHANGED <<client, link>>
  BY DEF ServeFinish
<1>2. CASE /\ ~(session.wid = "closed" /\ session.manifest # Nothing)
           /\ Reply(b, Answer("refused")) /\ UNCHANGED session
  <2>1. ~link[b]
    BY <1>1, <1>2, InSession, FinishIsTaken
  <2> QED
    BY <1>1, <1>2, <2>1, RefuseProtocol
<1>3. CASE Reply(b, Answer("ok")) /\ session' = Nothing
  <2>1. Answer("ok").status = "ok" /\ Answer("ok").digests = {}
    BY DEF Answer
  <2>2. /\ CallOK(b)' /\ CountOK(b)'
        /\ \A c \in Backups \ {b} : Untouched(c) /\ link'[c] = link[c]
    BY <1>1, <1>3, <2>1, AnswerReaches
  <2>3. \A c \in Backups : ~Holds(c)'
    BY <1>3 DEF Holds
  <2> QED
    BY <2>2, <2>3, ServedProtocol
<1> QED
  BY <1>1, <1>2, <1>3 DEF ServeFinish

LEMMA DropProtocol ==
  ASSUME TypeInv, ProtocolInv, NEW b \in Backups, DropConnection(b)
  PROVE  ProtocolInv'
<1>1. /\ req'[b] = NoRequest /\ req'[b].op = "none"
      /\ UNCHANGED <<pc, job, known, idx, sent, stats, link, resp>>
      /\ \A c \in Backups \ {b} : req'[c] = req[c]
      /\ session' = IF Holds(b) THEN Nothing ELSE session
  BY RequestType DEF DropConnection, client, TypeInv, TypeOK
<1>2. \A c \in Backups \ {b} : Untouched(c) /\ link'[c] = link[c]
  BY <1>1 DEF Untouched
<1>3. CallOK(b)'
  BY <1>1 DEF ProtocolInv, CallOK, Contiguous, StartOffset
<1>4. CountOK(b)'
  BY <1>1 DEF ProtocolInv, CountOK, DigestsOf
<1>5. CASE Holds(b)
  <2>1. \A c \in Backups : ~Holds(c)'
    BY <1>1, <1>5 DEF Holds
  <2> QED
    BY <1>2, <1>3, <1>4, <2>1, ServedProtocol
<1>6. CASE ~Holds(b)
  BY <1>1, <1>2, <1>3, <1>4, <1>6, ClientProtocol
<1> QED
  BY <1>5, <1>6

(* A connection may break and time may pass.                               *)
LEMMA StillProtocol ==
  ASSUME TypeInv, ProtocolInv, UNCHANGED <<client, req, resp, session>>,
         \A c \in Backups : link'[c] = link[c] \/ ~link'[c]
  PROVE  ProtocolInv'
<1> SUFFICES ASSUME NEW c \in Backups PROVE CallOK(c)' /\ CountOK(c)' /\ (Holds(c)' => HolderOK(c)')
  BY DEF ProtocolInv
<1>1. Untouched(c) /\ (Holds(c)' <=> Holds(c))
  BY DEF Untouched, Holds, client
<1> QED
  BY <1>1, UntouchedKept DEF ProtocolInv

LEMMA ProtocolNext == TypeInv /\ StoreInv /\ ProtocolInv /\ [Next]_vars => ProtocolInv'
<1> SUFFICES ASSUME TypeInv, StoreInv, ProtocolInv, [Next]_vars PROVE ProtocolInv'
  OBVIOUS
<1>1. ASSUME NEW b \in Backups, Client(b) PROVE ProtocolInv'
  BY <1>1, BeginProtocol, DownloadProtocol, CreateProtocol, StreamProtocol, AppendProtocol,
     ClosingProtocol, EndsProtocol DEF Client
<1>2. ASSUME NEW b \in Backups, Serve(b) PROVE ProtocolInv'
  BY <1>2, ServeBeginProtocol, ServePreviousProtocol, ServeCreateProtocol, ServePutProtocol,
     ServeAppendProtocol, ServeCloseProtocol, ServeBlobProtocol, ServeFinishProtocol DEF Serve
<1>3. ASSUME NEW b \in Backups, DropConnection(b) PROVE ProtocolInv'
  BY <1>3, DropProtocol
<1>4. ASSUME NEW b \in Backups, Faults(b) PROVE ProtocolInv'
  <2>1. CASE Break(b)
    <3>1. \A c \in Backups : link'[c] = link[c] \/ ~link'[c]
      BY <2>1 DEF Break, TypeInv, TypeOK
    <3> QED
      BY <2>1, <3>1, StillProtocol DEF Break, server
  <2>2. CASE Kill(b) \/ PipelineFails(b)
    BY <2>2, EndsProtocol
  <2>3. CASE ServerError(b)
    <3>1. CASE req[b].op # "none"
      BY <2>3, <3>1, RefuseProtocol DEF ServerError, server
    <3>2. CASE req[b].op = "none"
      BY <2>3, <3>2 DEF ServerError, ProtocolInv, CallOK
    <3> QED
      BY <3>1, <3>2
  <2> QED
    BY <1>4, <2>1, <2>2, <2>3 DEF Faults
<1>5. CASE Tick
  BY <1>5, StillProtocol DEF Tick, server
<1>6. CASE UNCHANGED vars
  BY <1>6, StillProtocol DEF vars, server
<1>7. Faulty \subseteq Backups
  BY UploadAssumption
<1> QED
  BY <1>1, <1>2, <1>3, <1>4, <1>5, <1>6, <1>7 DEF Next, AllEnded
-----------------------------------------------------------------------------
(* The client keeps to the server's rules: whatever the interleaving of    *)
(* runs, broken connections and killed runs, no request is ever refused    *)
(* for an unregistered digest, a wrong offset, an index that is not what   *)
(* the server assembled or a missing manifest (upload.go, session.go).     *)
THEOREM NothingIsRefused == Spec => []NeverRefused
<1>1. ProtocolInv => NeverRefused
  BY DEF ProtocolInv, CallOK, NeverRefused
<1> QED
  BY <1>1, TypeInit, TypeNext, StoreInit, StoreNext, ProtocolInit, ProtocolNext, PTL DEF Spec

(* What a run will not upload its session has registered: neither the      *)
(* previous index nor the run's own `seen` map runs ahead of the server.   *)
THEOREM SkippedIsRegistered == Spec => []KnownIsRegistered
<1>1. ProtocolInv => KnownIsRegistered
  BY DEF ProtocolInv, HolderOK, SessionOK, KnownIsRegistered
<1> QED
  BY <1>1, TypeInit, TypeNext, StoreInit, StoreNext, ProtocolInit, ProtocolNext, PTL DEF Spec

(* The counters of the Result: Unique and Reused partition the distinct    *)
(* chunks of the index, and Reused counts those of the previous snapshot.  *)
THEOREM ResultsAdd == Spec => []ResultAdds
<1>1. ProtocolInv => ResultAdds
  BY DEF ProtocolInv, CountOK, ResultAdds
<1> QED
  BY <1>1, TypeInit, TypeNext, StoreInit, StoreNext, ProtocolInit, ProtocolNext, PTL DEF Spec
=============================================================================
