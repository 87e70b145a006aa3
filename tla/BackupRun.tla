------------------------------ MODULE BackupRun ------------------------------
(***************************************************************************)
(* One `pbmac backup`, inside: cmdBackup opens its source, with --snapshot *)
(* an APFS snapshot that it creates and mounts and at the end unmounts and *)
(* deletes; backup.Run encodes the source on a goroutine of its own, which *)
(* hands the archive through an io.Pipe to the chunker of the main one.    *)
(* Other programs change the live files all the while.                     *)
(*                                                                         *)
(* The archive is cut down to units that cross the pipe one at a time: the *)
(* header of a file, which states the size that Stat saw, the file's data, *)
(* and the root's GOODBYE.  Directories and symlinks add no state.         *)
(***************************************************************************)
EXTENDS Integers, Sequences, FiniteSets

CONSTANTS Count,    \* the files 1 .. Count of the source, in archive order
          MaxSize,  \* a file has at most this many units of data
          Gone      \* the size of a file that does not exist

Files == 1 .. Count
Sizes == 0 .. MaxSize
Disk == [Files -> Sizes \union {Gone}]

ASSUME BackupRunAssumption == Count \in Nat /\ MaxSize \in Nat /\ Gone \notin Nat

VARIABLES
  disk,        \* the live files
  frozen,      \* the files of the snapshot
  snapshot,    \* was --snapshot given
  pc,          \* where the main goroutine is
  result,      \* how the run ended
  enc,         \* where the encoder goroutine is
  encErr,      \* the error Encode returned
  file,        \* the file the encoder is at
  listed,      \* the names ReadDir gave it
  claimed,     \* claimed[f]: the size Stat gave it
  copied,      \* data units of the current file that were written
  pipeClosed,  \* the reader closed the pipe
  received,    \* the units the chunker has read
  stored,      \* how many of them are in chunks that were put
  source,      \* snapDate and mount of the SnapshotSource: are they set
  host,        \* what the machine has: the snapshot, the mount, its directory
  trouble,     \* a teardown command failed with nothing in its way
  outlived     \* Run returned while its encoder was still at work

encoder == <<enc, encErr, file, listed, claimed, copied>>
pipe == <<pipeClosed, received, stored>>
teardown == <<source, host, trouble>>
vars == <<disk, frozen, snapshot, pc, result, encoder, pipe, teardown, outlived>>

Header(f, n) == <<"header", f, n>>
Datum(f) == <<"data", f>>
Goodbye == <<"goodbye">>
Units == ({"header"} \X Files \X Sizes) \union ({"data"} \X Files) \union {Goodbye}

Nowhere == [snapshot |-> FALSE, mounted |-> FALSE, dir |-> FALSE]

Init ==
  /\ disk \in [Files -> Sizes]
  /\ frozen = [f \in Files |-> Gone]
  /\ snapshot \in BOOLEAN
  /\ pc = IF snapshot THEN "localsnapshot" ELSE "prepare"
  /\ result = "none"
  /\ enc = "off" /\ encErr = FALSE
  /\ file = 1 /\ listed = {} /\ claimed = [f \in Files |-> 0] /\ copied = 0
  /\ pipeClosed = FALSE /\ received = <<>> /\ stored = 0
  /\ source = [date |-> FALSE, mount |-> FALSE]
  /\ host = Nowhere
  /\ trouble = FALSE /\ outlived = FALSE
-----------------------------------------------------------------------------
Ended == {"exited", "killed"}
Alive == pc \notin Ended

(* Where the deferred Close starts, given what was set up.                 *)
(* Mutant: only a mounted snapshot is torn down.                           *)
CloseIfMounted == IF source.mount THEN "unmount" ELSE "exited"
CloseFrom == IF source.mount THEN "unmount" ELSE IF source.date THEN "delete" ELSE "exited"

Fail == result' = "failed" /\ pc' = CloseFrom

(* Another program writes, truncates, creates or deletes a live file.      *)
Change ==
  /\ Alive
  /\ \E f \in Files, n \in Sizes \union {Gone} : n # disk[f] /\ disk' = [disk EXCEPT ![f] = n]
  /\ UNCHANGED <<frozen, snapshot, pc, result, encoder, pipe, teardown, outlived>>
-----------------------------------------------------------------------------
(* newSnapshotSource: each command may fail, and what is there by then is  *)
(* torn down.                                                              *)
Created ==
  /\ frozen' = disk
  /\ host' = [host EXCEPT !.snapshot = TRUE]
  /\ source' = [source EXCEPT !.date = TRUE]
  /\ pc' = "mkdtemp"

(* `tmutil localsnapshot`; one that prints no date has created nothing.    *)
LocalSnapshot ==
  /\ pc = "localsnapshot"
  /\ \/ Created /\ UNCHANGED result
     \/ pc' = "tmutil snapshot" /\ UNCHANGED <<frozen, host, source, result>>
     \/ Fail /\ UNCHANGED <<frozen, host, source>>
  /\ UNCHANGED <<disk, snapshot, encoder, pipe, trouble, outlived>>

TmutilSnapshot ==
  /\ pc = "tmutil snapshot"
  /\ \/ Created /\ UNCHANGED result
     \/ Fail /\ UNCHANGED <<frozen, host, source>>
  /\ UNCHANGED <<disk, snapshot, encoder, pipe, trouble, outlived>>

MkdirTemp ==
  /\ pc = "mkdtemp"
  /\ \/ /\ pc' = "mount"
        /\ source' = [source EXCEPT !.mount = TRUE]
        /\ host' = [host EXCEPT !.dir = TRUE]
        /\ UNCHANGED result
     \/ Fail /\ UNCHANGED <<source, host>>
  /\ UNCHANGED <<disk, frozen, snapshot, encoder, pipe, trouble, outlived>>

Mount ==
  /\ pc = "mount"
  /\ \/ /\ pc' = "root"
        /\ host' = [host EXCEPT !.mounted = TRUE]
        /\ UNCHANGED result
     \/ Fail /\ UNCHANGED host
  /\ UNCHANGED <<disk, frozen, snapshot, encoder, pipe, source, trouble, outlived>>

OpenRoot ==
  /\ pc = "root"
  /\ \/ pc' = "prepare" /\ UNCHANGED result
     \/ Fail
  /\ UNCHANGED <<disk, frozen, snapshot, encoder, pipe, teardown, outlived>>

(* The key, the excludes, the client and the session; then backup.Run      *)
(* starts the encoder and reads what it writes.                            *)
Prepare ==
  /\ pc = "prepare"
  /\ \/ pc' = "reading" /\ enc' = "list" /\ UNCHANGED result
     \/ Fail /\ UNCHANGED enc
  /\ UNCHANGED <<disk, frozen, snapshot, encErr, file, listed, claimed, copied, pipe,
                 teardown, outlived>>
-----------------------------------------------------------------------------
(* The encoder goroutine. *)

(* The source it reads: the live directory, or the copy in the snapshot    *)
(* for as long as that is mounted.                                         *)
(* Mutant: the encoder is left with the live directory.                    *)
LiveView(f) == disk[f]
View(f) == IF ~snapshot THEN disk[f] ELSE IF host.mounted THEN frozen[f] ELSE Gone

(* Encode returns, and the goroutine passes its error to the pipe.  The    *)
(* chunker takes io.EOF itself for the end of the archive, and only that.  *)
(* Mutant: the goroutine closes the pipe only after a success.             *)
CloseAfterSuccess(err) == enc' = (IF err THEN "off" ELSE "ended") /\ encErr' = err
EncodeReturns(err) == enc' = "ended" /\ encErr' = err

(* A Write to the pipe waits for the reader, or fails once it has closed.  *)
Send(unit) ==
  /\ pc = "reading"
  /\ received' = Append(received, unit)
  /\ UNCHANGED <<pipeClosed, stored>>

NextFile == IF \E f \in listed : f > file THEN CHOOSE f \in listed :
              f > file /\ \A g \in listed : g > file => f <= g ELSE Count + 1

ListDir ==
  /\ Alive /\ enc = "list"
  /\ listed' = {f \in Files : View(f) # Gone}
  /\ enc' = "stat"
  /\ file' = IF listed' = {} THEN Count + 1 ELSE CHOOSE f \in listed' : \A g \in listed' : f <= g
  /\ UNCHANGED <<disk, frozen, snapshot, pc, result, encErr, claimed, copied, pipe, teardown,
                 outlived>>

StatFile ==
  /\ Alive /\ enc = "stat" /\ file <= Count
  /\ View(file) # Gone
  /\ claimed' = [claimed EXCEPT ![file] = View(file)]
  /\ enc' = "header"
  /\ UNCHANGED <<disk, frozen, snapshot, pc, result, encErr, file, listed, copied, pipe,
                 teardown, outlived>>

WriteHeader ==
  /\ enc = "header"
  /\ Send(Header(file, claimed[file]))
  /\ enc' = "open"
  /\ UNCHANGED <<disk, frozen, snapshot, pc, result, encErr, file, listed, claimed, copied,
                 teardown, outlived>>

OpenFile ==
  /\ Alive /\ enc = "open"
  /\ View(file) # Gone
  /\ enc' = "copy" /\ copied' = 0
  /\ UNCHANGED <<disk, frozen, snapshot, pc, result, encErr, file, listed, claimed, pipe,
                 teardown, outlived>>

(* Mutant: io.Copy, to the end of the file whatever its stated size.       *)
CopyToEnd == TRUE
Remaining == copied < claimed[file]

(* io.CopyN: at most the stated size, though the file may have grown; a    *)
(* file deleted while it is open can still be read.                        *)
CopyData ==
  /\ enc = "copy" /\ Remaining
  /\ View(file) # Gone => copied < View(file)
  /\ Send(Datum(file))
  /\ copied' = copied + 1
  /\ UNCHANGED <<disk, frozen, snapshot, pc, result, enc, encErr, file, listed, claimed,
                 teardown, outlived>>

(* The file has shrunk: CopyN's io.EOF is wrapped, so it is an error.      *)
(* Mutant: writePayload returns the io.EOF as it is.                       *)
BareEOF == FALSE
ShortReadErr == TRUE
CopyShort ==
  /\ Alive /\ enc = "copy" /\ Remaining
  /\ View(file) # Gone /\ copied >= View(file)
  /\ EncodeReturns(ShortReadErr)
  /\ UNCHANGED <<disk, frozen, snapshot, pc, result, file, listed, claimed, copied, pipe,
                 teardown, outlived>>

CloseFile ==
  /\ Alive /\ enc = "copy" /\ ~Remaining
  /\ enc' = "stat" /\ file' = NextFile
  /\ UNCHANGED <<disk, frozen, snapshot, pc, result, encErr, listed, claimed, copied, pipe,
                 teardown, outlived>>

WriteGoodbye ==
  /\ enc = "stat" /\ file > Count
  /\ Send(Goodbye)
  /\ EncodeReturns(FALSE)
  /\ UNCHANGED <<disk, frozen, snapshot, pc, result, file, listed, claimed, copied, teardown,
                 outlived>>

(* ReadDir, Stat, Open or a read fails: the file is gone, pbmac has no      *)
(* permission for it, the disk has an error, ...                           *)
SourceError ==
  /\ Alive
  /\ \/ enc \in {"list", "open"}
     \/ enc = "stat" /\ file <= Count
     \/ enc = "copy" /\ Remaining
  /\ EncodeReturns(TRUE)
  /\ UNCHANGED <<disk, frozen, snapshot, pc, result, file, listed, claimed, copied, pipe,
                 teardown, outlived>>

WriteFails ==
  /\ Alive /\ pipeClosed
  /\ \/ enc = "header"
     \/ enc = "copy" /\ Remaining
     \/ enc = "stat" /\ file > Count
  /\ EncodeReturns(TRUE)
  /\ UNCHANGED <<disk, frozen, snapshot, pc, result, file, listed, claimed, copied, pipe,
                 teardown, outlived>>
-----------------------------------------------------------------------------
(* The main goroutine: chunker.Split, Run's callback, and after Run.       *)

(* A boundary after any unit, or the flush at the end of the archive.      *)
CutChunk ==
  /\ pc = "reading" /\ stored < Len(received)
  /\ pc' = "putting"
  /\ UNCHANGED <<disk, frozen, snapshot, result, encoder, pipe, teardown, outlived>>

PutChunk ==
  /\ pc = "putting"
  /\ pc' = "reading" /\ stored' = Len(received)
  /\ UNCHANGED <<disk, frozen, snapshot, result, encoder, pipeClosed, received, teardown,
                 outlived>>

(* Run closes the pipe on an error and returns; nobody waits for Encode.   *)
Abort ==
  /\ pipeClosed' = TRUE
  /\ outlived' = (enc # "ended")
  /\ Fail

PutFails ==
  /\ pc = "putting"
  /\ Abort
  /\ UNCHANGED <<disk, frozen, snapshot, encoder, received, stored, teardown>>

ReadError ==
  /\ pc = "reading" /\ enc = "ended" /\ encErr
  /\ Abort
  /\ UNCHANGED <<disk, frozen, snapshot, encoder, received, stored, teardown>>

ReadEOF ==
  /\ pc = "reading" /\ enc = "ended" /\ ~encErr /\ stored = Len(received)
  /\ pc' = "finishing"
  /\ UNCHANGED <<disk, frozen, snapshot, result, encoder, pipe, teardown, outlived>>

(* The rest of Upload: the index, the manifest and the finish.             *)
FinishUpload ==
  /\ pc = "finishing"
  /\ pc' = CloseFrom /\ result' \in {"ok", "failed"}
  /\ UNCHANGED <<disk, frozen, snapshot, encoder, pipe, teardown, outlived>>
-----------------------------------------------------------------------------
(* SnapshotSource.Close, deferred by cmdBackup: best effort, step by step. *)

(* macOS refuses to unmount what a process has a file open in.             *)
Busy == enc = "copy"
CanUnmount == host.mounted /\ ~Busy

Unmounted == host' = [host EXCEPT !.mounted = FALSE] /\ pc' = "remove" /\ UNCHANGED trouble

DiskutilUnmount ==
  /\ pc = "unmount"
  /\ \/ CanUnmount /\ Unmounted
     \/ pc' = "umount" /\ trouble' = (trouble \/ CanUnmount) /\ UNCHANGED host
  /\ UNCHANGED <<disk, frozen, snapshot, result, encoder, pipe, source, outlived>>

SudoUmount ==
  /\ pc = "umount"
  /\ \/ CanUnmount /\ Unmounted
     \/ pc' = "remove" /\ trouble' = (trouble \/ CanUnmount) /\ UNCHANGED host
  /\ UNCHANGED <<disk, frozen, snapshot, result, encoder, pipe, source, outlived>>

RemoveDir ==
  /\ pc = "remove"
  /\ pc' = IF source.date THEN "delete" ELSE "exited"
  /\ \/ ~host.mounted /\ host' = [host EXCEPT !.dir = FALSE] /\ UNCHANGED trouble
     \/ UNCHANGED host /\ trouble' = (trouble \/ ~host.mounted)
  /\ UNCHANGED <<disk, frozen, snapshot, result, encoder, pipe, source, outlived>>

DeleteSnapshot ==
  /\ pc = "delete"
  /\ pc' = "exited"
  /\ \/ ~host.mounted /\ host' = [host EXCEPT !.snapshot = FALSE] /\ UNCHANGED trouble
     \/ UNCHANGED host /\ trouble' = (trouble \/ ~host.mounted)
  /\ UNCHANGED <<disk, frozen, snapshot, result, encoder, pipe, source, outlived>>

Kill ==
  /\ Alive
  /\ pc' = "killed"
  /\ UNCHANGED <<disk, frozen, snapshot, result, encoder, pipe, teardown, outlived>>
-----------------------------------------------------------------------------
Open == LocalSnapshot \/ TmutilSnapshot \/ MkdirTemp \/ Mount \/ OpenRoot \/ Prepare
Encode ==
  \/ ListDir \/ StatFile \/ WriteHeader \/ OpenFile \/ CopyData \/ CopyShort \/ CloseFile
  \/ WriteGoodbye \/ SourceError \/ WriteFails
Split == CutChunk \/ PutChunk \/ PutFails \/ ReadError \/ ReadEOF \/ FinishUpload
Close == DiskutilUnmount \/ SudoUmount \/ RemoveDir \/ DeleteSnapshot

Over == ~Alive /\ UNCHANGED vars

Next == Change \/ Open \/ Encode \/ Split \/ Close \/ Kill \/ Over

Spec == Init /\ [][Next]_vars

(* Both goroutines are scheduled; no call of the run waits for ever.       *)
FairSpec == Spec /\ WF_vars(Encode) /\ WF_vars(Open \/ Split \/ Close)
-----------------------------------------------------------------------------
(* Properties. *)

TypeOK ==
  /\ disk \in Disk /\ frozen \in Disk /\ snapshot \in BOOLEAN
  /\ pc \in Ended \union {"localsnapshot", "tmutil snapshot", "mkdtemp", "mount", "root",
            "prepare", "reading", "putting", "finishing", "unmount", "umount", "remove",
            "delete"}
  /\ result \in {"none", "ok", "failed"}
  /\ enc \in {"off", "list", "stat", "header", "open", "copy", "ended"} /\ encErr \in BOOLEAN
  /\ file \in 1 .. Count + 1 /\ listed \subseteq Files
  /\ claimed \in [Files -> Sizes] /\ copied \in Sizes
  /\ pipeClosed \in BOOLEAN /\ received \in Seq(Units) /\ stored \in 0 .. Len(received)
  /\ source \in [date : BOOLEAN, mount : BOOLEAN]
  /\ host \in [snapshot : BOOLEAN, mounted : BOOLEAN, dir : BOOLEAN]
  /\ trouble \in BOOLEAN /\ outlived \in BOOLEAN

(* A stream the decoder can walk: every header is followed by the data it  *)
(* states and no more, and the GOODBYE comes last.                         *)
WellFormed(s) ==
  /\ s # <<>> /\ s[Len(s)] = Goodbye
  /\ \A i \in DOMAIN s : s[i][1] = "header" =>
       LET after == i + s[i][3] + 1
       IN /\ after \in DOMAIN s /\ s[after][1] # "data"
          /\ \A j \in i + 1 .. after - 1 : s[j] = Datum(s[i][2])

(* A run that ends well has stored a whole archive, though the live files  *)
(* shrank, grew or vanished while the encoder was at work.                 *)
SuccessMeansWhole == result = "ok" => WellFormed(SubSeq(received, 1, stored))

(* With --snapshot, what a successful run has stored is the source at one  *)
(* moment: every file it had when the snapshot was made, at its size then. *)
PointInTime ==
  snapshot /\ result = "ok" =>
    \A f \in Files, n \in Sizes :
      frozen[f] = n <=> \E i \in 1 .. stored : received[i] = Header(f, n)

(* A run that was not killed leaves no snapshot, mount or directory on the *)
(* machine, if the teardown commands work and the encoder was done.        *)
LeavesNothing == pc = "exited" /\ ~trouble /\ ~outlived => host = Nowhere

(* The run ends: neither goroutine waits for the other for ever, whichever *)
(* of them fails first.                                                    *)
RunEnds == pc = "reading" ~> ~Alive

(* cmdBackup's comment on the deferred Close: "unmount + delete, even if   *)
(* the backup later fails".                                                *)
TornDownEvenOnFailure == pc = "exited" /\ ~trouble => host = Nowhere
=============================================================================
