------------------------------- MODULE Upload -------------------------------
(***************************************************************************)
(* The live path of `pbmac backup`: backup.Upload drives one PBS writer    *)
(* session per run of the program, and backup.Run feeds it the chunks of   *)
(* the archive.  The server (external) is modelled from the rules the      *)
(* client's comments state for each endpoint.                              *)
(*                                                                         *)
(* A member of Backups is one run of the program, so runs follow one       *)
(* another or overlap as the steps interleave.  A call is three steps: the *)
(* client sends a request, the server answers it, and the client's next    *)
(* action takes the answer.  A connection may break between any two of     *)
(* them, so a request can be lost, its answer can be lost, and the server  *)
(* can still serve a request whose sender has given up or was killed.      *)
(***************************************************************************)
EXTENDS Integers, Sequences, FiniteSets

CONSTANTS Backups,      \* runs of `pbmac backup` on one group and archive name
          Data,         \* chunk plaintexts
          Size,         \* Size[d]: bytes of the plaintext d
          Sources,      \* the archives a run can stream, as sequences of chunks
          Keys, NoKey,  \* encryption keys, and the mark of a plain backup
          Times,        \* backup-time values, in seconds
          Batch,        \* appendBatch of upload.go (1024)
          Faulty,       \* the runs whose source, network or server may fail
          Nothing       \* no session, no chunk, no snapshot, no job

AllKeys == Keys \union {NoKey}
Archives == Seq(Data) \ {<<>>}
Job == [src : Sources, key : AllKeys, time : Times]

(* SHA256(data), or SHA256(data || id_key) under a key; taken as injective. *)
Digest(d, k) == [data |-> d, key |-> k]
Digests == [data : Data, key : AllKeys]

(* A DataBlob: the plaintext and the key it is sealed with. *)
Blob(d, k) == [plain |-> d, sealed |-> k]
Blobs == [plain : Data, sealed : AllKeys]

(* DynamicEntry, and the (offset, digest) pair of an append request.       *)
Entry == [end : Nat, digest : Digests]
Ref == [start : Nat, digest : Digests]

(* What a manifest says of the archive: its checksum and its key.          *)
Manifest == [csum : Seq(Entry), key : AllKeys]

(* A snapshot: its index file and its manifest; `by`, the run that made    *)
(* it, is kept for the properties alone.                                   *)
Snapshot == [entries : Seq(Entry), csum : Seq(Entry), key : AllKeys, by : Backups]

(* A pxar stream is never empty: its first bytes are the format header.    *)
ASSUME UploadAssumption ==
  /\ NoKey \notin Keys
  /\ Sources \subseteq Archives
  /\ Size \in [Data -> Nat \ {0}]
  /\ Times \subseteq Nat
  /\ Batch \in Nat \ {0}
  /\ Faulty \subseteq Backups
  /\ Nothing \notin Job \union Blobs \union Manifest \union Snapshot

VARIABLES
  clock,    \* the wall clock, in seconds
  pc,       \* pc[b]: the call the run is in, or how it ended
  job,      \* job[b]: source, key and backup-time of the run
  known,    \* known[b]: opts.Known, the digests of the previous index
  idx,      \* idx[b]: the entries of the run's DynamicIndexWriter
  sent,     \* sent[b]: how many entries AppendChunks has been given
  stats,    \* stats[b]: the Unique and Reused counters of the Result
  link,     \* link[b]: is the run's connection up
  req,      \* req[b]: the request on its way to the server
  resp,     \* resp[b]: the answer on its way back
  session,  \* the open writer session; the group lock allows one
  chunks,   \* chunks[g]: the blob stored under digest g
  snaps     \* snaps[t]: the committed snapshot of time t

client == <<pc, job, known, idx, sent, stats>>
server == <<session, chunks, snaps>>
vars == <<clock, client, link, req, resp, server>>
-----------------------------------------------------------------------------
(* Digests, index entries, requests. *)

DigestsOf(entries) == {entries[i].digest : i \in DOMAIN entries}
EndOf(entries) == IF Len(entries) = 0 THEN 0 ELSE entries[Len(entries)].end

(* DynamicIndexWriter.AddChunk: the running end offset, then the digest.   *)
(* Mutant: the running end moves the wrong way.                           *)
SubtractChunk(entries, g) ==
  Append(entries, [end |-> EndOf(entries) - Size[g.data], digest |-> g])
AddChunk(entries, g) ==
  Append(entries, [end |-> EndOf(entries) + Size[g.data], digest |-> g])

Ops == {"begin", "previous", "create", "put", "append", "close", "blob", "finish"}
Live == Ops \union {"stream"}
Ended == {"ok", "failed", "killed"}

Requests == [op : Ops \union {"none"}, refs : Seq(Ref), csum : Seq(Entry), key : AllKeys]
Message(op, refs, csum, key) == [op |-> op, refs |-> refs, csum |-> csum, key |-> key]
Request(op) == Message(op, <<>>, <<>>, NoKey)
NoRequest == Request("none")

Responses == [status : {"none", "ok", "error", "refused"}, digests : SUBSET Digests]
NoResponse == [status |-> "none", digests |-> {}]
Answer(st) == [status |-> st, digests |-> {}]

(* A writer session: who holds it, its known chunks, the dynamic index it  *)
(* assembles and the manifest blob it was given.                           *)
Sessions == [owner : Backups, registered : SUBSET Digests, wid : {"none", "open", "closed"},
             writer : Seq(Entry), manifest : Manifest \union {Nothing}]
NewSession(b) ==
  [owner |-> b, registered |-> {}, wid |-> "none", writer |-> <<>>, manifest |-> Nothing]

Init ==
  /\ clock \in Times
  /\ \A t \in Times : clock <= t
  /\ pc = [b \in Backups |-> "idle"]
  /\ job = [b \in Backups |-> Nothing]
  /\ known = [b \in Backups |-> {}]
  /\ idx = [b \in Backups |-> <<>>]
  /\ sent = [b \in Backups |-> 0]
  /\ stats = [b \in Backups |-> [unique |-> 0, reused |-> 0]]
  /\ link = [b \in Backups |-> FALSE]
  /\ req = [b \in Backups |-> NoRequest]
  /\ resp = [b \in Backups |-> NoResponse]
  /\ session = Nothing
  /\ chunks = [g \in Digests |-> Nothing]
  /\ snaps = [t \in Times |-> Nothing]
-----------------------------------------------------------------------------
(* Calls. *)

Call(b, op, r) ==
  /\ pc' = [pc EXCEPT ![b] = op]
  /\ req' = [req EXCEPT ![b] = r]
  /\ resp' = [resp EXCEPT ![b] = NoResponse]

Answered(b, op) == pc[b] = op /\ resp[b].status = "ok"

(* RoundTrip fails on a dead connection; readData fails on any status but  *)
(* 2xx: "refused" is an answer to a request that breaks the protocol,      *)
(* "error" any other trouble of the server.                                *)
(* Mutant: a dead connection does not fail the call that waits on it.     *)
FailsWhenAnswered(b) == pc[b] \in Ops /\ resp[b].status \in {"refused", "error"}
CallFails(b) ==
  /\ pc[b] \in Ops
  /\ ~link[b] \/ resp[b].status \in {"refused", "error"}

(* cmdBackup and BeginBackup: a new connection and a new session.  *)
BeginBackup(b) ==
  /\ pc[b] = "idle"
  /\ \E src \in Sources, k \in AllKeys :
       job' = [job EXCEPT ![b] = [src |-> src, key |-> k, time |-> clock]]
  /\ link' = [link EXCEPT ![b] = TRUE]
  /\ Call(b, "begin", Request("begin"))
  /\ UNCHANGED <<clock, known, idx, sent, stats, server>>

DownloadPrevious(b) ==
  /\ Answered(b, "begin")
  /\ Call(b, "previous", Request("previous"))
  /\ UNCHANGED <<clock, job, known, idx, sent, stats, link, server>>

(* Mutant: a failed download falls back on whatever is stored.            *)
CreateWithStaleIndex(b) ==
  /\ pc[b] = "previous"
  /\ \/ Answered(b, "previous") /\ known' = [known EXCEPT ![b] = resp[b].digests]
     \/ /\ CallFails(b)
        /\ known' = [known EXCEPT ![b] = {g \in Digests : chunks[g] # Nothing}]
  /\ Call(b, "create", Request("create"))
  /\ UNCHANGED <<clock, job, idx, sent, stats, link, server>>

(* Whatever became of GET /previous, the run goes on: with the digests it  *)
(* could parse, or with none, which is a full upload.                      *)
CreateDynamicIndex(b) ==
  /\ pc[b] = "previous"
  /\ \/ Answered(b, "previous") /\ known' = [known EXCEPT ![b] = resp[b].digests]
     \/ Answered(b, "previous") /\ UNCHANGED known
     \/ CallFails(b) /\ UNCHANGED known
  /\ Call(b, "create", Request("create"))
  /\ UNCHANGED <<clock, job, idx, sent, stats, link, server>>

(* Split is ready to hand over the next chunk: the previous one is done.   *)
Streaming(b) == Answered(b, "create") \/ Answered(b, "put") \/ pc[b] = "stream"
(* Mutant: the archive is taken to end with its first chunk.              *)
DrainedEarly(b) == idx[b] # <<>>
Drained(b) == Len(idx[b]) >= Len(job[b].src)

(* opts.Crypt.ComputeDigest under a key, the chunker's SHA-256 without.    *)
(* Mutant: an encrypted run names its chunks by their plaintext.          *)
UnkeyedDigest(b, d) == Digest(d, NoKey)
ChunkDigest(b, d) == Digest(d, job[b].key)

(* In this run's `seen` map: it holds the digests of every earlier chunk.  *)
(* Mutant: chunks that repeat within the run are not noticed.             *)
NeverSeen(b, g) == FALSE
Seen(b, g) == g \in DigestsOf(idx[b])

(* The Split callback of Run for the next chunk of the archive.            *)
StreamChunk(b) ==
  /\ Streaming(b)
  /\ ~Drained(b)
  /\ LET d == job[b].src[Len(idx[b]) + 1]
         g == ChunkDigest(b, d)
         put == Message("put", <<[start |-> 0, digest |-> g]>>, <<>>, job[b].key)
     IN /\ idx' = [idx EXCEPT ![b] = AddChunk(@, g)]
        /\ \/ /\ Seen(b, g)
              /\ Call(b, "stream", NoRequest)
              /\ UNCHANGED stats
           \/ /\ ~Seen(b, g) /\ g \in known[b]
              /\ Call(b, "stream", NoRequest)
              /\ stats' = [stats EXCEPT ![b].reused = @ + 1]
           \/ /\ ~Seen(b, g) /\ g \notin known[b]
              /\ Call(b, "put", put)
              /\ stats' = [stats EXCEPT ![b].unique = @ + 1]
  /\ UNCHANGED <<clock, job, known, sent, link, server>>

(* The START offset of entry i: where the entry before it ends.            *)
(* Mutant: the cumulative END offset in the place of the START.           *)
EndOffset(entries, i) == entries[i].end
StartOffset(entries, i) == IF i = 1 THEN 0 ELSE entries[i - 1].end

Min2(m, n) == IF m < n THEN m ELSE n
NextBatch(b) == Min2(sent[b] + Batch, Len(idx[b]))

(* One round of the append loop of Upload.                                 *)
AppendChunks(b) ==
  /\ \/ Streaming(b) /\ Drained(b)
     \/ Answered(b, "append") /\ sent[b] < Len(idx[b])
  /\ LET refs == [j \in 1 .. NextBatch(b) - sent[b] |->
                    [start |-> StartOffset(idx[b], sent[b] + j),
                     digest |-> idx[b][sent[b] + j].digest]]
     IN Call(b, "append", Message("append", refs, <<>>, NoKey))
  /\ sent' = [sent EXCEPT ![b] = NextBatch(b)]
  /\ UNCHANGED <<clock, job, known, idx, stats, link, server>>

CloseDynamicIndex(b) ==
  /\ Answered(b, "append")
  /\ sent[b] = Len(idx[b])
  /\ Call(b, "close", Message("close", <<>>, idx[b], NoKey))
  /\ UNCHANGED <<clock, job, known, idx, sent, stats, link, server>>

(* The manifest: the archive's size and csum, the crypt mode, signed.      *)
UploadManifest(b) ==
  /\ Answered(b, "close")
  /\ Call(b, "blob", Message("blob", <<>>, idx[b], job[b].key))
  /\ UNCHANGED <<clock, job, known, idx, sent, stats, link, server>>

Finish(b) ==
  /\ Answered(b, "blob")
  /\ Call(b, "finish", Request("finish"))
  /\ UNCHANGED <<clock, job, known, idx, sent, stats, link, server>>

(* The run ends: its locals die with it and `defer w.Close()` drops the    *)
(* connection.  What is already on its way to the server stays there.      *)
End(b, how) ==
  /\ pc' = [pc EXCEPT ![b] = how]
  /\ known' = [known EXCEPT ![b] = {}]
  /\ idx' = [idx EXCEPT ![b] = <<>>]
  /\ sent' = [sent EXCEPT ![b] = 0]
  /\ link' = [link EXCEPT ![b] = FALSE]
  /\ resp' = [resp EXCEPT ![b] = NoResponse]
  /\ stats' = [stats EXCEPT ![b] = [unique |-> 0, reused |-> 0]]
  /\ UNCHANGED <<clock, job, req, server>>

(* Mutant: success is reported once the finish is sent.                   *)
ReturnOnSend(b) == pc[b] = "finish" /\ End(b, "ok")
ReturnSuccess(b) == Answered(b, "finish") /\ End(b, "ok")

(* Mutant: a missing previous snapshot fails the run.                     *)
ReturnAnyError(b) == CallFails(b) /\ End(b, "failed")

(* Every call but GET /previous turns an error into a failed run.          *)
ReturnError(b) == CallFails(b) /\ pc[b] # "previous" /\ End(b, "failed")

(* So does an error of the encoder, of a read of the source, or of         *)
(* datablob.Encode, which Split hands on between two chunks.               *)
PipelineFails(b) == Streaming(b) /\ End(b, "failed")

Kill(b) == pc[b] \in Live /\ End(b, "killed")
-----------------------------------------------------------------------------
(* The network and the server. *)

Tick ==
  /\ \E t \in Times : t > clock /\ clock' = t
  /\ UNCHANGED <<client, link, req, resp, server>>

Break(b) ==
  /\ link[b]
  /\ link' = [link EXCEPT ![b] = FALSE]
  /\ UNCHANGED <<clock, client, req, resp, server>>

Reply(b, r) ==
  /\ req' = [req EXCEPT ![b] = NoRequest]
  /\ resp' = [resp EXCEPT ![b] = IF link[b] THEN r ELSE NoResponse]

Holds(b) == session # Nothing /\ session.owner = b

(* The server sees a broken connection: it drops what is queued on it, and *)
(* the unfinished session with all that was uploaded to its indexes.       *)
DropConnection(b) ==
  /\ ~link[b]
  /\ req[b] # NoRequest \/ Holds(b)
  /\ req' = [req EXCEPT ![b] = NoRequest]
  /\ session' = IF Holds(b) THEN Nothing ELSE session
  /\ UNCHANGED <<clock, client, link, resp, chunks, snaps>>

(* One writer per group, and a snapshot is newer than those before it.     *)
ServeBegin(b) ==
  /\ req[b].op = "begin"
  /\ \/ /\ session = Nothing
        /\ \A t \in Times : snaps[t] # Nothing => t < job[b].time
        /\ session' = NewSession(b)
        /\ Reply(b, Answer("ok"))
     \/ Reply(b, Answer("error")) /\ UNCHANGED session
  /\ UNCHANGED <<clock, client, link, chunks, snaps>>

Newest(t) == snaps[t] # Nothing /\ \A u \in Times : snaps[u] # Nothing => u <= t

(* GET /previous registers the chunks of the group's last snapshot and     *)
(* returns its index; there may be none, or none of this archive name.     *)
ServePrevious(b) ==
  /\ req[b].op = "previous"
  /\ Holds(b)
  /\ \/ \E t \in Times :
          /\ Newest(t)
          /\ session' = [session EXCEPT !.registered = @ \union DigestsOf(snaps[t].entries)]
          /\ Reply(b, [status |-> "ok", digests |-> DigestsOf(snaps[t].entries)])
     \/ Reply(b, Answer("error")) /\ UNCHANGED session
  /\ UNCHANGED <<clock, client, link, chunks, snaps>>

ServeCreate(b) ==
  /\ req[b].op = "create"
  /\ Holds(b)
  /\ session' = [session EXCEPT !.wid = "open"]
  /\ Reply(b, Answer("ok"))
  /\ UNCHANGED <<clock, client, link, chunks, snaps>>

(* A chunk is stored once; a digest already in the datastore keeps its blob. *)
ServePut(b) ==
  /\ req[b].op = "put"
  /\ Holds(b)
  /\ LET g == req[b].refs[1].digest
     IN /\ chunks' = [chunks EXCEPT ![g] =
                        IF @ = Nothing THEN Blob(g.data, req[b].key) ELSE @]
        /\ session' = [session EXCEPT !.registered = @ \union {g}]
  /\ Reply(b, Answer("ok"))
  /\ UNCHANGED <<clock, client, link, snaps>>

(* dynamic_writer_append_chunk: the digest is registered and the offset is *)
(* where the index now ends; the server derives the end from the chunk.    *)
RefEnd(refs, i) == refs[i].start + Size[refs[i].digest.data]
Appendable(refs) ==
  /\ \A i \in DOMAIN refs : refs[i].digest \in session.registered
  /\ Len(refs) > 0 => refs[1].start = EndOf(session.writer)
  /\ \A i \in DOMAIN refs : i > 1 => refs[i].start = RefEnd(refs, i - 1)

ServeAppend(b) ==
  /\ req[b].op = "append"
  /\ Holds(b)
  /\ \/ /\ Appendable(req[b].refs)
        /\ session' = [session EXCEPT !.writer = @ \o
             [i \in DOMAIN req[b].refs |-> [end |-> RefEnd(req[b].refs, i),
                                            digest |-> req[b].refs[i].digest]]]
        /\ Reply(b, Answer("ok"))
     \/ /\ ~Appendable(req[b].refs)
        /\ Reply(b, Answer("refused"))
        /\ UNCHANGED session
  /\ UNCHANGED <<clock, client, link, chunks, snaps>>

(* Chunk count, size and checksum are those of the assembled index.        *)
ServeClose(b) ==
  /\ req[b].op = "close"
  /\ Holds(b)
  /\ IF session.wid = "open" /\ session.writer = req[b].csum
     THEN session' = [session EXCEPT !.wid = "closed"] /\ Reply(b, Answer("ok"))
     ELSE Reply(b, Answer("refused")) /\ UNCHANGED session
  /\ UNCHANGED <<clock, client, link, chunks, snaps>>

ServeBlob(b) ==
  /\ req[b].op = "blob"
  /\ Holds(b)
  /\ session' = [session EXCEPT !.manifest = [csum |-> req[b].csum, key |-> req[b].key]]
  /\ Reply(b, Answer("ok"))
  /\ UNCHANGED <<clock, client, link, chunks, snaps>>

(* The commit: no index still open, and a manifest to describe it.         *)
ServeFinish(b) ==
  /\ req[b].op = "finish"
  /\ Holds(b)
  /\ IF session.wid = "closed" /\ session.manifest # Nothing
     THEN /\ snaps' = [snaps EXCEPT ![job[b].time] =
                         [entries |-> session.writer, csum |-> session.manifest.csum,
                          key |-> session.manifest.key, by |-> b]]
          /\ session' = Nothing
          /\ Reply(b, Answer("ok"))
     ELSE Reply(b, Answer("refused")) /\ UNCHANGED <<session, snaps>>
  /\ UNCHANGED <<clock, client, link, chunks>>
-----------------------------------------------------------------------------
(* Any request may meet an error of the server's own (a full disk, ...).   *)
ServerError(b) ==
  /\ req[b] # NoRequest
  /\ Reply(b, Answer("error"))
  /\ UNCHANGED <<clock, client, link, server>>
-----------------------------------------------------------------------------
Client(b) ==
  \/ BeginBackup(b) \/ DownloadPrevious(b) \/ CreateDynamicIndex(b)
  \/ StreamChunk(b) \/ AppendChunks(b) \/ CloseDynamicIndex(b)
  \/ UploadManifest(b) \/ Finish(b) \/ ReturnSuccess(b) \/ ReturnError(b)

Serve(b) ==
  \/ ServeBegin(b) \/ ServePrevious(b) \/ ServeCreate(b) \/ ServePut(b)
  \/ ServeAppend(b) \/ ServeClose(b) \/ ServeBlob(b) \/ ServeFinish(b)

Faults(b) == Break(b) \/ Kill(b) \/ PipelineFails(b) \/ ServerError(b)

AllEnded == (\A b \in Backups : pc[b] \in Ended) /\ UNCHANGED vars

Next ==
  \/ \E b \in Backups : Client(b) \/ Serve(b) \/ DropConnection(b)
  \/ \E b \in Faulty : Faults(b)
  \/ Tick
  \/ AllEnded

Spec == Init /\ [][Next]_vars

(* The client and the server keep running: a request on an open connection *)
(* is answered, a broken connection is noticed.  The code has no timeout   *)
(* of its own, so nothing else ends a run whose server stays silent.       *)
FairSpec ==
  /\ Spec
  /\ \A b \in Backups : WF_vars(Client(b)) /\ WF_vars(Serve(b) \/ DropConnection(b))
-----------------------------------------------------------------------------
(* Properties. *)

TypeOK ==
  /\ clock \in Times
  /\ pc \in [Backups -> {"idle"} \union Live \union Ended]
  /\ job \in [Backups -> Job \union {Nothing}]
  /\ known \in [Backups -> SUBSET Digests]
  /\ idx \in [Backups -> Seq(Entry)]
  /\ sent \in [Backups -> Nat]
  /\ stats \in [Backups -> [unique : Nat, reused : Nat]]
  /\ link \in [Backups -> BOOLEAN]
  /\ req \in [Backups -> Requests]
  /\ resp \in [Backups -> Responses]
  /\ session \in Sessions \union {Nothing}
  /\ chunks \in [Digests -> Blobs \union {Nothing}]
  /\ snaps \in [Times -> Snapshot \union {Nothing}]

(* What the types rest on: a run at work has a job, as has one whose       *)
(* request is still on its way; an upload names one chunk; the append loop *)
(* never counts past the index.                                            *)
JobKnown == \A b \in Backups : pc[b] # "idle" \/ req[b].op # "none" => job[b] \in Job
OneChunkPerPut == \A b \in Backups : req[b].op = "put" => Len(req[b].refs) = 1
SentWithinIndex == \A b \in Backups : sent[b] <= Len(idx[b])

TypeInv ==
  /\ TypeOK
  /\ JobKnown
  /\ OneChunkPerPut
  /\ SentWithinIndex

(* What a restore of a snapshot reads: entry by entry, the plaintext of    *)
(* the blob stored under the digest, if the snapshot's key opens it.       *)
Opened(g, k) ==
  IF chunks[g] # Nothing /\ chunks[g].sealed = k THEN chunks[g].plain ELSE Nothing
ReadBack(s) == [i \in DOMAIN s.entries |-> Opened(s.entries[i].digest, s.key)]

(* The entries' ends are the running sum of the chunk sizes: restore sizes *)
(* each chunk by the difference of two ends.                               *)
Contiguous(entries) ==
  \A i \in DOMAIN entries :
    entries[i].end = StartOffset(entries, i) + Size[entries[i].digest.data]

(* Every committed snapshot can be restored: each chunk of its index is in *)
(* the datastore, sealed with the key its manifest names, the offsets are  *)
(* contiguous and the manifest carries the checksum of this index, though  *)
(* chunks are skipped when known or repeated, and runs fail or overlap.    *)
SnapshotsComplete ==
  \A t \in Times : snaps[t] # Nothing =>
    /\ \A i \in DOMAIN snaps[t].entries : Opened(snaps[t].entries[i].digest, snaps[t].key)
                                            = snaps[t].entries[i].digest.data
    /\ Contiguous(snaps[t].entries)
    /\ snaps[t].csum = snaps[t].entries

(* A run that reported success has its snapshot in the group, and reading  *)
(* it back under the run's key gives the archive it streamed.              *)
SuccessIsDurable ==
  \A b \in Backups : pc[b] = "ok" =>
    LET s == snaps[job[b].time]
    IN s # Nothing /\ s.key = job[b].key /\ ReadBack(s) = job[b].src

(* The client keeps to the server's rules in every interleaving: no        *)
(* request is refused for an unregistered digest, a wrong offset, a wrong  *)
(* checksum or a missing manifest, over any number of append batches.      *)
NeverRefused == \A b \in Backups : resp[b].status # "refused"

(* A digest the client will not upload again is one its session has        *)
(* registered: opts.Known and `seen` never run ahead of the server, but    *)
(* for the one chunk whose upload is not yet acknowledged.                 *)
Unacknowledged(b) ==
  IF pc[b] = "put" /\ resp[b].status # "ok" THEN {idx[b][Len(idx[b])].digest} ELSE {}
KnownIsRegistered ==
  \A b \in Backups : (pc[b] \in Live /\ Holds(b)) =>
    known[b] \union (DigestsOf(idx[b]) \ Unacknowledged(b)) \subseteq session.registered

(* The Result a run reports: Unique and Reused partition the distinct      *)
(* chunks of its index, and Reused counts those of the previous snapshot.  *)
ResultAdds ==
  \A b \in Backups : pc[b] \in Live =>
    LET all == DigestsOf(idx[b])
    IN /\ stats[b].unique + stats[b].reused = Cardinality(all)
       /\ stats[b].reused = Cardinality(all \cap known[b])

Committed(b) == snaps[job[b].time] # Nothing /\ snaps[job[b].time].by = b

(* What the abstract store is, seen in the server and in the runs: what a  *)
(* restore would read, what each run was given, and how far it is.         *)
StoreSeen == [t \in Times |-> IF snaps[t] = Nothing THEN Nothing
                              ELSE [src |-> ReadBack(snaps[t]), key |-> snaps[t].key]]
AskedOf(b) ==
  IF job[b] = Nothing THEN Nothing
  ELSE [content |-> [src |-> job[b].src, key |-> job[b].key], time |-> job[b].time]
PhaseOf(b) ==
  IF job[b] = Nothing THEN "idle"
  ELSE IF Committed(b) THEN "committed"
  ELSE IF pc[b] = "finish" \/ req[b].op = "finish" THEN "offered"
  ELSE "running"
ToldOf(b) ==
  IF pc[b] = "ok" THEN "ok" ELSE IF pc[b] \in Ended THEN "failed" ELSE "nothing"

(* Runs implement the abstract store: read back through the datastore,     *)
(* snapshots appear whole, once, newest last, and only for a run that      *)
(* asked for the commit; success is reported only after it.                *)
Abstract == INSTANCE SnapshotStore WITH
  Contents <- [src : Sources, key : AllKeys],
  NoContent <- Nothing,
  store <- StoreSeen,
  asked <- [b \in Backups |-> AskedOf(b)],
  phase <- [b \in Backups |-> PhaseOf(b)],
  told <- [b \in Backups |-> ToldOf(b)]

ImplementsStore == Abstract!Spec

(* Every run ends, with a success or an error, unless nothing ever answers *)
(* it: no call is left waiting once the connection or the server failed.   *)
RunsEnd == \A b \in Backups : pc[b] \in Live ~> pc[b] \in Ended

(* A run that holds the session and meets no fault of its own succeeds,    *)
(* whatever became of the runs before it and next to it.                   *)
SoundRunsSucceed == \A b \in Backups \ Faulty : pc[b] = "previous" ~> pc[b] = "ok"
=============================================================================
