--------------------------- MODULE BackupRunProofs ---------------------------
(***************************************************************************)
(* Proofs about BackupRun, for every number of files of every size.        *)
(***************************************************************************)
EXTENDS BackupRun, WellFoundedInduction, TLAPS

(* The encoder is at a file of the source when it is at work on one.       *)
AtFile == enc \in {"header", "open", "copy"} => file \in Files
TypeInv == TypeOK /\ AtFile
-----------------------------------------------------------------------------
(* The operators. *)

LEMMA Numbers ==
  /\ Count \in Nat /\ MaxSize \in Nat /\ Gone \notin Sizes
  /\ Files \subseteq Nat /\ Sizes \subseteq Nat /\ Count + 1 \notin Files
  /\ \A f \in Files : f <= Count
BY BackupRunAssumption DEF Files, Sizes

(* A nonempty set of files has a first one.                                *)
LEMMA FirstExists ==
  ASSUME NEW S \in SUBSET Files, S # {}
  PROVE  \E f \in S : \A g \in S : f <= g
<1>1. S \subseteq Nat
  BY Numbers
<1>2. PICK f \in S : \A g \in S : ~(<<g, f>> \in OpToRel(<, Nat))
  BY <1>1, NatLessThanWellFounded, WFMin, Zenon
<1>3. ASSUME NEW g \in S PROVE f <= g
  <2>1. g \in Nat /\ f \in Nat
    BY <1>1
  <2>2. <<g, f>> \in OpToRel(<, Nat) <=> g < f
    BY <2>1 DEF OpToRel
  <2>3. ~(g < f)
    BY <1>2, <2>2, Zenon
  <2> QED
    BY <2>1, <2>3
<1> QED
  BY <1>3

LEMMA FirstIs ==
  ASSUME NEW S \in SUBSET Files, S # {},
         NEW first, first = CHOOSE f \in S : \A g \in S : f <= g
  PROVE  first \in S /\ \A g \in S : first <= g
BY FirstExists

(* The file that comes after the current one in the directory, if any.     *)
LEMMA NextFileIs ==
  ASSUME TypeOK, file \in Files
  PROVE  /\ NextFile \in listed \union {Count + 1} /\ NextFile \in 1 .. Count + 1
         /\ \A f \in listed : f <= file <=> f < NextFile
<1> DEFINE later == {f \in listed : f > file}
           first == CHOOSE f \in later : \A g \in later : f <= g
<1>0. listed \subseteq Files /\ file \in Nat /\ Count \in Nat
  BY Numbers DEF TypeOK
<1>1. CASE later # {}
  <2>1. first \in later /\ \A g \in later : first <= g
    <3>1. later \in SUBSET Files
      BY <1>0
    <3> HIDE DEF later
    <3> QED
      BY <1>1, <3>1, FirstIs
  <2>2. NextFile = CHOOSE f \in listed : f > file /\ \A g \in listed : g > file => f <= g
    BY <1>1 DEF NextFile
  <2>3. \E f \in listed : f > file /\ \A g \in listed : g > file => f <= g
    <3> HIDE DEF first
    <3> QED
      BY <2>1
  <2>4. /\ NextFile \in listed /\ NextFile > file
        /\ \A g \in listed : g > file => NextFile <= g
    BY <2>2, <2>3
  <2>5. NextFile \in Nat /\ NextFile \in Files /\ \A f \in listed : f \in Nat
    BY <1>0, <2>4, Numbers
  <2> HIDE DEF later, first
  <2>6. \A f \in listed : f <= file <=> f < NextFile
    BY <1>0, <2>4, <2>5
  <2>7. NextFile \in 1 .. Count + 1
    BY <1>0, <2>5 DEF Files
  <2> QED
    BY <2>4, <2>6, <2>7
<1>2. CASE later = {}
  <2>1. NextFile = Count + 1
    BY <1>2 DEF NextFile
  <2>2. \A f \in listed : f \in Nat /\ f <= file /\ f <= Count
    BY <1>0, <1>2, Numbers
  <2> QED
    BY <1>0, <2>1, <2>2
<1> QED
  BY <1>1, <1>2

(* The units, told apart by their first component.                         *)
LEMMA UnitForms ==
  /\ \A f \in Files, n \in Sizes :
       /\ Header(f, n) \in Units
       /\ Header(f, n)[1] = "header" /\ Header(f, n)[2] = f /\ Header(f, n)[3] = n
  /\ \A f \in Files : Datum(f) \in Units /\ Datum(f)[1] = "data" /\ Datum(f)[2] = f
  /\ Goodbye \in Units /\ Goodbye[1] = "goodbye"
  /\ \A u \in Units : u[1] = "header" =>
       u[2] \in Files /\ u[3] \in Sizes /\ u = Header(u[2], u[3])
<1>1. \A f \in Files, n \in Sizes : Header(f, n) \in Units
  BY DEF Header, Units
<1>2. \A f, n : Header(f, n)[1] = "header" /\ Header(f, n)[2] = f /\ Header(f, n)[3] = n
  BY DEF Header
<1>3. \A f \in Files : Datum(f) \in Units
  BY DEF Datum, Units
<1>4. \A f : Datum(f)[1] = "data" /\ Datum(f)[2] = f
  BY DEF Datum
<1>5. Goodbye \in Units /\ Goodbye[1] = "goodbye"
  BY DEF Goodbye, Units
<1>6. ASSUME NEW u \in Units, u[1] = "header"
      PROVE  u[2] \in Files /\ u[3] \in Sizes /\ u = Header(u[2], u[3])
  <2>1. u \notin {"data"} \X Files /\ u # Goodbye
    BY <1>5, <1>6
  <2>2. u \in {"header"} \X Files \X Sizes
    BY <2>1 DEF Units
  <2> QED
    BY <2>2 DEF Header
<1> QED
  BY <1>1, <1>2, <1>3, <1>4, <1>5, <1>6

LEMMA ViewTypes ==
  ASSUME TypeOK, NEW f \in Files
  PROVE  View(f) \in Sizes \union {Gone}
BY DEF TypeOK, View, Disk
-----------------------------------------------------------------------------
(* Types. *)

(* TypeOK, in parts that the steps leave alone or change as a whole.       *)
FilesTyped == disk \in Disk /\ frozen \in Disk /\ snapshot \in BOOLEAN
PlaceTyped ==
  /\ pc \in Ended \union {"localsnapshot", "tmutil snapshot", "mkdtemp", "mount", "root",
            "prepare", "reading", "putting", "finishing", "unmount", "umount", "remove",
            "delete"}
  /\ result \in {"none", "ok", "failed"}
  /\ outlived \in BOOLEAN
EncoderTyped ==
  /\ enc \in {"off", "list", "stat", "header", "open", "copy", "ended"} /\ encErr \in BOOLEAN
  /\ file \in 1 .. Count + 1 /\ listed \subseteq Files
  /\ claimed \in [Files -> Sizes] /\ copied \in Sizes
  /\ AtFile
PipeTyped ==
  pipeClosed \in BOOLEAN /\ received \in Seq(Units) /\ stored \in 0 .. Len(received)
MachineTyped ==
  /\ source \in [date : BOOLEAN, mount : BOOLEAN]
  /\ host \in [snapshot : BOOLEAN, mounted : BOOLEAN, dir : BOOLEAN]
  /\ trouble \in BOOLEAN
Typed == FilesTyped /\ PlaceTyped /\ EncoderTyped /\ PipeTyped /\ MachineTyped

LEMMA TypeInvIs == (TypeInv => Typed) /\ (Typed' => TypeInv') /\ (Typed => TypeInv)
BY DEF TypeInv, TypeOK, Typed, FilesTyped, PlaceTyped, EncoderTyped, PipeTyped, MachineTyped,
       AtFile

(* What a step leaves alone keeps its type.                                *)
LEMMA Untouched ==
  ASSUME Typed
  PROVE  /\ UNCHANGED <<disk, frozen, snapshot>> => FilesTyped'
         /\ UNCHANGED encoder => EncoderTyped'
         /\ UNCHANGED pipe => PipeTyped'
         /\ UNCHANGED teardown => MachineTyped'
         /\ UNCHANGED <<pc, result, outlived>> => PlaceTyped'
BY DEF Typed, FilesTyped, PlaceTyped, EncoderTyped, PipeTyped, MachineTyped, encoder, pipe,
       teardown, AtFile

LEMMA SendTypes ==
  ASSUME Typed, NEW unit \in Units, Send(unit)
  PROVE  PipeTyped'
<1>1. received \in Seq(Units) /\ stored \in 0 .. Len(received) /\ pipeClosed \in BOOLEAN
  BY DEF Typed, PipeTyped
<1>2. received' = Append(received, unit) /\ Len(received') = Len(received) + 1
  BY <1>1 DEF Send
<1>3. received' \in Seq(Units)
  BY <1>1, <1>2
<1>4. stored' \in 0 .. Len(received') /\ pipeClosed' \in BOOLEAN
  BY <1>1, <1>2 DEF Send
<1> QED
  BY <1>3, <1>4 DEF PipeTyped

LEMMA PlaceTypes ==
  ASSUME Typed,
         pc' \in {"mkdtemp", "tmutil snapshot", "mount", "root", "prepare", "reading", "putting",
                  "finishing", "unmount", "umount", "remove", "delete", "exited", "killed"},
         result' \in {result, "ok", "failed"}, outlived' \in BOOLEAN
  PROVE  PlaceTyped'
BY DEF Typed, PlaceTyped, Ended

LEMMA FailTypes ==
  Fail => result' = "failed" /\ pc' \in {"unmount", "delete", "exited"}
BY DEF Fail, CloseFrom

LEMMA MachineTypes ==
  ASSUME Typed, trouble' \in BOOLEAN,
         \/ source' = source
         \/ source' \in {[source EXCEPT !.date = TRUE], [source EXCEPT !.mount = TRUE]},
         \/ host' = host
         \/ \E b \in BOOLEAN :
              host' \in {[host EXCEPT !.snapshot = b], [host EXCEPT !.mounted = b],
                         [host EXCEPT !.dir = b]}
  PROVE  MachineTyped'
<1>1. source' \in [date : BOOLEAN, mount : BOOLEAN]
  BY DEF Typed, MachineTyped
<1>2. host' \in [snapshot : BOOLEAN, mounted : BOOLEAN, dir : BOOLEAN]
  BY DEF Typed, MachineTyped
<1> QED
  BY <1>1, <1>2 DEF MachineTyped

LEMMA TypeOfOpen ==
  ASSUME Typed, Open
  PROVE  Typed'
<1>0. disk \in Disk /\ snapshot \in BOOLEAN /\ outlived \in BOOLEAN /\ trouble \in BOOLEAN
  BY DEF Typed, FilesTyped, PlaceTyped, MachineTyped
<1>1. CASE LocalSnapshot \/ TmutilSnapshot
  <2>1. FilesTyped'
    BY <1>0, <1>1, Untouched DEF LocalSnapshot, TmutilSnapshot, Created, FilesTyped
  <2>2. PlaceTyped'
    BY <1>0, <1>1, FailTypes, PlaceTypes DEF LocalSnapshot, TmutilSnapshot, Created
  <2>3. MachineTyped'
    BY <1>0, <1>1, MachineTypes DEF LocalSnapshot, TmutilSnapshot, Created
  <2>4. UNCHANGED encoder /\ UNCHANGED pipe
    BY <1>1 DEF LocalSnapshot, TmutilSnapshot
  <2> QED
    BY <2>1, <2>2, <2>3, <2>4, Untouched DEF Typed
<1>2. CASE MkdirTemp \/ Mount \/ OpenRoot
  <2>1. PlaceTyped'
    BY <1>0, <1>2, FailTypes, PlaceTypes DEF MkdirTemp, Mount, OpenRoot
  <2>2. MachineTyped'
    BY <1>0, <1>2, MachineTypes DEF MkdirTemp, Mount, OpenRoot, teardown
  <2>3. UNCHANGED <<disk, frozen, snapshot, encoder, pipe>>
    BY <1>2 DEF MkdirTemp, Mount, OpenRoot
  <2> QED
    BY <2>1, <2>2, <2>3, Untouched DEF Typed
<1>3. CASE Prepare
  <2>1. PlaceTyped'
    BY <1>0, <1>3, FailTypes, PlaceTypes DEF Prepare
  <2>2. EncoderTyped'
    BY <1>3 DEF Prepare, Typed, EncoderTyped, AtFile
  <2>3. UNCHANGED <<disk, frozen, snapshot, pipe, teardown>>
    BY <1>3 DEF Prepare
  <2> QED
    BY <2>1, <2>2, <2>3, Untouched DEF Typed
<1> QED
  BY <1>1, <1>2, <1>3 DEF Open

LEMMA TypeOfClose ==
  ASSUME Typed, Close
  PROVE  Typed'
<1>0. /\ outlived \in BOOLEAN /\ trouble \in BOOLEAN /\ CanUnmount \in BOOLEAN
      /\ host.mounted \in BOOLEAN
  BY DEF Typed, PlaceTyped, MachineTyped, CanUnmount
<1>1. UNCHANGED <<disk, frozen, snapshot, encoder, pipe, source, result, outlived>>
  BY DEF Close, DiskutilUnmount, SudoUmount, RemoveDir, DeleteSnapshot
<1>2. PlaceTyped'
  <2>1. pc' \in {"umount", "remove", "delete", "exited"}
    BY DEF Close, DiskutilUnmount, SudoUmount, RemoveDir, DeleteSnapshot, Unmounted
  <2> QED
    BY <1>0, <1>1, <2>1, PlaceTypes
<1>3. MachineTyped'
  <2>1. trouble' \in BOOLEAN
    BY <1>0 DEF Close, DiskutilUnmount, SudoUmount, RemoveDir, DeleteSnapshot, Unmounted
  <2>2. \/ host' = host
        \/ \E b \in BOOLEAN :
             host' \in {[host EXCEPT !.snapshot = b], [host EXCEPT !.mounted = b],
                        [host EXCEPT !.dir = b]}
    BY DEF Close, DiskutilUnmount, SudoUmount, RemoveDir, DeleteSnapshot, Unmounted
  <2> QED
    BY <1>1, <2>1, <2>2, MachineTypes
<1> QED
  BY <1>1, <1>2, <1>3, Untouched DEF Typed

LEMMA TypeOfSplit ==
  ASSUME Typed, Split
  PROVE  Typed'
<1>0. outlived \in BOOLEAN
  BY DEF Typed, PlaceTyped
<1>1. UNCHANGED <<disk, frozen, snapshot, encoder, received, teardown>>
  BY DEF Split, CutChunk, PutChunk, PutFails, ReadError, ReadEOF, FinishUpload, pipe
<1>2. PlaceTyped'
  <2>1. pc' \in {"putting", "reading", "finishing", "unmount", "delete", "exited"}
    BY FailTypes DEF Split, CutChunk, PutChunk, PutFails, ReadError, ReadEOF, FinishUpload,
                     Abort, CloseFrom
  <2>2. result' \in {result, "ok", "failed"} /\ outlived' \in BOOLEAN
    BY <1>0, FailTypes DEF Split, CutChunk, PutChunk, PutFails, ReadError, ReadEOF,
                           FinishUpload, Abort
  <2> QED
    BY <2>1, <2>2, PlaceTypes
<1>3. PipeTyped'
  <2>1. stored' \in {stored, Len(received)} /\ pipeClosed' \in {pipeClosed, TRUE}
    BY DEF Split, CutChunk, PutChunk, PutFails, ReadError, ReadEOF, FinishUpload, Abort, pipe
  <2>2. /\ received \in Seq(Units) /\ Len(received) \in Nat
        /\ stored \in 0 .. Len(received) /\ pipeClosed \in BOOLEAN
    BY DEF Typed, PipeTyped
  <2>3. received' = received
    BY <1>1
  <2>4. stored' \in 0 .. Len(received)
    BY <2>1, <2>2
  <2>5. received' \in Seq(Units) /\ stored' \in 0 .. Len(received')
    BY <2>2, <2>3, <2>4
  <2>6. pipeClosed' \in BOOLEAN
    BY <2>1, <2>2
  <2> QED
    BY <2>5, <2>6 DEF PipeTyped
<1> QED
  BY <1>1, <1>2, <1>3, Untouched DEF Typed

LEMMA TypeOfEncode ==
  ASSUME Typed, Encode
  PROVE  Typed'
<1>0. /\ TypeOK /\ EncoderTyped /\ file \in 1 .. Count + 1 /\ listed \subseteq Files
      /\ claimed \in [Files -> Sizes] /\ Count \in Nat
  BY TypeInvIs, Numbers DEF TypeInv, Typed, EncoderTyped
<1>1. UNCHANGED <<disk, frozen, snapshot, pc, result, outlived, teardown>>
  BY DEF Encode, ListDir, StatFile, WriteHeader, OpenFile, CopyData, CopyShort, CloseFile,
         WriteGoodbye, SourceError, WriteFails
<1>2. SUFFICES EncoderTyped' /\ PipeTyped'
  BY <1>1, Untouched DEF Typed
<1>3. CASE ListDir
  <2>1. listed' \subseteq Files
    BY <1>3 DEF ListDir
  <2>2. file' \in 1 .. Count + 1
    <3>1. CASE listed' = {}
      BY <1>0, <1>3, <3>1 DEF ListDir
    <3>2. CASE listed' # {}
      <4>1. file' = CHOOSE f \in listed' : \A g \in listed' : f <= g
        BY <1>3, <3>2 DEF ListDir
      <4>2. file' \in Files
        BY <2>1, <3>2, <4>1, FirstIs
      <4> QED
        BY <1>0, <4>2 DEF Files
    <3> QED
      BY <3>1, <3>2
  <2>3. EncoderTyped'
    BY <1>0, <1>3, <2>1, <2>2 DEF ListDir, EncoderTyped, AtFile
  <2> QED
    BY <1>3, <2>3, Untouched DEF ListDir
<1>4. CASE StatFile
  <2>1. file \in Files
    BY <1>0, <1>4 DEF StatFile, Files
  <2>2. claimed' \in [Files -> Sizes]
    BY <1>0, <1>4, <2>1, ViewTypes DEF StatFile
  <2>3. EncoderTyped'
    BY <1>0, <1>4, <2>1, <2>2 DEF StatFile, EncodeReturns, EncoderTyped, AtFile
  <2> QED
    BY <1>4, <2>3, Untouched DEF StatFile
<1>5. CASE WriteHeader
  <2>1. Header(file, claimed[file]) \in Units
    BY <1>0, <1>5, UnitForms DEF WriteHeader, EncoderTyped, AtFile
  <2>2. PipeTyped'
    BY <1>5, <2>1, SendTypes DEF WriteHeader
  <2> QED
    BY <1>0, <1>5, <2>2 DEF WriteHeader, EncoderTyped, AtFile
<1>6. CASE OpenFile
  <2>1. 0 \in Sizes
    BY Numbers DEF Sizes
  <2>2. EncoderTyped'
    BY <1>0, <1>6, <2>1 DEF OpenFile, EncodeReturns, EncoderTyped, AtFile
  <2> QED
    BY <1>6, <2>2, Untouched DEF OpenFile
<1>7. CASE CopyData
  <2>1. file \in Files /\ Datum(file) \in Units
    BY <1>0, <1>7, UnitForms DEF CopyData, EncoderTyped, AtFile
  <2>2. PipeTyped'
    BY <1>7, <2>1, SendTypes DEF CopyData
  <2>3. copied' \in Sizes
    <3>1. copied \in Sizes /\ claimed[file] \in Sizes /\ copied < claimed[file]
      BY <1>0, <1>7, <2>1 DEF CopyData, Remaining, EncoderTyped
    <3> QED
      BY <1>7, <3>1, Numbers DEF CopyData, Sizes
  <2> QED
    BY <1>0, <1>7, <2>2, <2>3 DEF CopyData, EncoderTyped, AtFile
<1>8. CASE CopyShort
  <2>1. EncoderTyped'
    BY <1>0, <1>8 DEF CopyShort, EncodeReturns, ShortReadErr, EncoderTyped, AtFile
  <2> QED
    BY <1>8, <2>1, Untouched DEF CopyShort
<1>9. CASE CloseFile
  <2>1. file' \in 1 .. Count + 1
    BY <1>0, <1>9, NextFileIs DEF CloseFile, EncoderTyped, AtFile
  <2>2. EncoderTyped'
    BY <1>0, <1>9, <2>1 DEF CloseFile, EncoderTyped, AtFile
  <2> QED
    BY <1>9, <2>2, Untouched DEF CloseFile
<1>10. CASE WriteGoodbye
  <2>1. PipeTyped'
    BY <1>10, UnitForms, SendTypes DEF WriteGoodbye
  <2> QED
    BY <1>0, <1>10, <2>1 DEF WriteGoodbye, EncodeReturns, EncoderTyped, AtFile
<1>11. CASE SourceError \/ WriteFails
  <2>1. EncoderTyped'
    BY <1>0, <1>11 DEF SourceError, WriteFails, EncodeReturns, EncoderTyped, AtFile
  <2> QED
    BY <1>11, <2>1, Untouched DEF SourceError, WriteFails
<1> QED
  BY <1>3, <1>4, <1>5, <1>6, <1>7, <1>8, <1>9, <1>10, <1>11 DEF Encode

LEMMA TypeStep ==
  ASSUME TypeInv, [Next]_vars
  PROVE  TypeInv'
<1>0. Typed
  BY TypeInvIs
<1>1. CASE Change
  <2>1. disk' \in Disk
    BY <1>0, <1>1 DEF Change, Typed, FilesTyped, Disk
  <2>2. FilesTyped'
    BY <1>0, <1>1, <2>1 DEF Change, Typed, FilesTyped
  <2> QED
    BY <1>0, <1>1, <2>2, Untouched, TypeInvIs DEF Change, Typed
<1>2. CASE Kill
  <2>1. PlaceTyped'
    BY <1>0, <1>2 DEF Kill, Typed, PlaceTyped, Ended
  <2> QED
    BY <1>0, <1>2, <2>1, Untouched, TypeInvIs DEF Kill, Typed
<1>3. CASE UNCHANGED vars
  <2>1. UNCHANGED <<disk, frozen, snapshot, pc, result, encoder, pipe, teardown, outlived>>
    BY <1>3 DEF vars
  <2> QED
    BY <1>0, <2>1, Untouched, TypeInvIs DEF Typed
<1> QED
  BY <1>0, <1>1, <1>2, <1>3, TypeOfOpen, TypeOfEncode, TypeOfSplit, TypeOfClose, TypeInvIs
  DEF Next, Over

LEMMA TypeInit == Init => TypeInv
<1> SUFFICES ASSUME Init PROVE Typed
  BY TypeInvIs
<1>1. 0 \in Sizes /\ Count \in Nat /\ 1 \in 1 .. Count + 1
  BY Numbers DEF Sizes
<1>2. FilesTyped
  BY DEF Init, FilesTyped, Disk
<1>3. PlaceTyped
  BY DEF Init, PlaceTyped
<1>4. EncoderTyped
  BY <1>1 DEF Init, EncoderTyped, AtFile
<1>5. PipeTyped
  <2>1. received = <<>> /\ stored = 0 /\ pipeClosed = FALSE
    BY DEF Init
  <2>2. <<>> \in Seq(Units) /\ Len(<<>>) = 0
    OBVIOUS
  <2>3. stored \in 0 .. Len(received)
    BY <2>1, <2>2
  <2> QED
    BY <2>1, <2>2, <2>3 DEF PipeTyped
<1>6. MachineTyped
  BY DEF Init, Nowhere, MachineTyped
<1> QED
  BY <1>2, <1>3, <1>4, <1>5, <1>6 DEF Typed

LEMMA AlwaysTyped == Spec => []TypeInv
BY TypeInit, TypeStep, PTL DEF Spec

(* The run, its encoder, the pipe and the machine keep to their values.    *)
THEOREM TypeCorrect == Spec => []TypeOK
<1>1. TypeInv => TypeOK
  BY DEF TypeInv
<1> QED
  BY <1>1, AlwaysTyped, PTL
-----------------------------------------------------------------------------
(* The place of the main goroutine and that of the encoder. *)

Setup == {"localsnapshot", "tmutil snapshot", "mkdtemp", "mount", "root", "prepare"}
Uploading == {"reading", "putting", "finishing"}
TearingDown == {"unmount", "umount", "remove", "delete"}

(* Nothing is encoded before the upload starts, and a run that ends well   *)
(* has seen its encoder end without an error and has stored all it read.   *)
Phases ==
  /\ pc \in Setup => result = "none" /\ enc = "off" /\ ~encErr /\ received = <<>>
  /\ pc \in Uploading => result = "none" /\ enc # "off"
  /\ enc = "copy" => copied <= claimed[file]
  /\ encErr => enc = "ended"
  /\ pc = "finishing" \/ result = "ok" => enc = "ended" /\ ~encErr /\ stored = Len(received)

LEMMA PhasesOfOpen ==
  ASSUME Phases, Open
  PROVE  Phases'
<1>1. pc \in Setup
  BY DEF Open, LocalSnapshot, TmutilSnapshot, MkdirTemp, Mount, OpenRoot, Prepare, Setup
<1>2. result = "none" /\ enc = "off" /\ ~encErr /\ received = <<>>
  BY <1>1 DEF Phases
<1>3. received' = received /\ encErr' = encErr
  BY DEF Open, LocalSnapshot, TmutilSnapshot, MkdirTemp, Mount, OpenRoot, Prepare, encoder, pipe
<1>4. CASE Prepare
  <2>1. \/ pc' = "reading" /\ enc' = "list" /\ result' = result
        \/ pc' \in TearingDown \union {"exited"} /\ enc' = enc /\ result' = "failed"
    BY <1>4, FailTypes DEF Prepare, TearingDown
  <2> QED
    BY <1>2, <1>3, <2>1 DEF Phases, Setup, Uploading, TearingDown
<1>5. CASE ~Prepare
  <2>1. enc' = enc
    BY <1>5 DEF Open, LocalSnapshot, TmutilSnapshot, MkdirTemp, Mount, OpenRoot, encoder
  <2>2. \/ pc' \in Setup /\ result' = result
        \/ pc' \in TearingDown \union {"exited"} /\ result' = "failed"
    BY <1>5, FailTypes DEF Open, LocalSnapshot, TmutilSnapshot, MkdirTemp, Mount, OpenRoot,
                           Created, Setup, TearingDown
  <2> QED
    BY <1>2, <1>3, <2>1, <2>2 DEF Phases, Setup, Uploading, TearingDown
<1> QED
  BY <1>4, <1>5

LEMMA PhasesOfEncode ==
  ASSUME TypeInv, Phases, Encode
  PROVE  Phases'
<1>0. /\ enc \in {"list", "stat", "header", "open", "copy"} /\ enc' # "off" /\ ~encErr
      /\ UNCHANGED <<pc, result>>
  BY DEF Phases, Encode, ListDir, StatFile, WriteHeader, OpenFile, CopyData, CopyShort,
         CloseFile, WriteGoodbye, SourceError, WriteFails, EncodeReturns
<1>1. pc \notin Setup /\ ~(pc = "finishing" \/ result = "ok")
  BY <1>0 DEF Phases
<1>2. encErr' => enc' = "ended"
  BY <1>0 DEF Encode, ListDir, StatFile, WriteHeader, OpenFile, CopyData, CopyShort,
         CloseFile, WriteGoodbye, SourceError, WriteFails, EncodeReturns
<1>3. enc' = "copy" => copied' <= claimed'[file']
  <2>1. ASSUME OpenFile, enc' = "copy" PROVE copied' <= claimed'[file']
    <3>1. claimed[file] \in Nat
      BY <2>1, Numbers DEF OpenFile, TypeInv, TypeOK, AtFile
    <3>2. copied' = 0 /\ claimed' = claimed /\ file' = file
      BY <2>1 DEF OpenFile, EncodeReturns
    <3> QED
      BY <3>1, <3>2
  <2>2. ASSUME CopyData PROVE copied' <= claimed'[file']
    <3>1. claimed[file] \in Nat /\ copied \in Nat
      BY <2>2, Numbers DEF CopyData, TypeInv, TypeOK, AtFile
    <3>2. copied' = copied + 1 /\ claimed' = claimed /\ file' = file /\ copied < claimed[file]
      BY <2>2 DEF CopyData, Remaining
    <3> QED
      BY <3>1, <3>2
  <2> QED
    BY <2>1, <2>2 DEF Encode, ListDir, StatFile, WriteHeader, CopyShort, CloseFile,
                      WriteGoodbye, SourceError, WriteFails, EncodeReturns
<1> QED
  BY <1>0, <1>1, <1>2, <1>3 DEF Phases

LEMMA PhasesOfSplit ==
  ASSUME Phases, Split
  PROVE  Phases'
<1>0. UNCHANGED <<enc, encErr, file, claimed, copied, received>>
  BY DEF Split, CutChunk, PutChunk, PutFails, ReadError, ReadEOF, FinishUpload, encoder, pipe
<1>1. pc \in Uploading /\ result = "none" /\ enc # "off"
  BY DEF Split, CutChunk, PutChunk, PutFails, ReadError, ReadEOF, FinishUpload, Uploading, Phases
<1>2. pc' \in {"putting", "reading", "finishing", "unmount", "delete", "exited"}
  BY FailTypes DEF Split, CutChunk, PutChunk, PutFails, ReadError, ReadEOF, FinishUpload,
                   Abort, CloseFrom
<1>3. pc' \in Uploading => result' = "none"
  BY <1>1, FailTypes DEF Split, CutChunk, PutChunk, PutFails, ReadError, ReadEOF, FinishUpload,
                         Abort, CloseFrom, Uploading
<1>4. pc' = "finishing" \/ result' = "ok" => enc = "ended" /\ ~encErr /\ stored' = Len(received)
  <2>1. CASE CutChunk \/ PutChunk
    BY <1>1, <2>1 DEF CutChunk, PutChunk
  <2>2. CASE PutFails \/ ReadError
    BY <2>2, FailTypes DEF PutFails, ReadError, Abort
  <2>3. CASE ReadEOF
    BY <1>1, <2>3 DEF ReadEOF, pipe
  <2>4. CASE FinishUpload
    BY <2>4 DEF FinishUpload, CloseFrom, Phases, pipe
  <2> QED
    BY <2>1, <2>2, <2>3, <2>4 DEF Split
<1> QED
  BY <1>0, <1>1, <1>2, <1>3, <1>4 DEF Phases, Setup

LEMMA PhasesStep ==
  ASSUME TypeInv, Phases, [Next]_vars
  PROVE  Phases'
<1>1. CASE UNCHANGED vars
  BY <1>1 DEF vars, encoder, pipe, Phases
<1>2. CASE Change \/ Kill
  <2>1. /\ UNCHANGED <<result, enc, encErr, file, claimed, copied, received, stored>>
        /\ pc' \in {pc, "killed"}
    BY <1>2 DEF Change, Kill, encoder, pipe
  <2> QED
    BY <2>1 DEF Phases, Setup, Uploading
<1>3. CASE Close
  <2>1. /\ UNCHANGED <<result, enc, encErr, file, claimed, copied, received, stored>>
        /\ pc' \in TearingDown \union {"exited"}
    BY <1>3 DEF Close, DiskutilUnmount, SudoUmount, RemoveDir, DeleteSnapshot, Unmounted,
                encoder, pipe, TearingDown
  <2> QED
    BY <2>1 DEF Phases, Setup, Uploading, TearingDown
<1> QED
  BY <1>1, <1>2, <1>3, PhasesOfOpen, PhasesOfEncode, PhasesOfSplit DEF Next, Over

LEMMA PhasesInit == Init => Phases
<1> SUFFICES ASSUME Init PROVE Phases
  OBVIOUS
<1>1. pc \in {"localsnapshot", "prepare"} /\ result = "none" /\ enc = "off" /\ ~encErr
      /\ received = <<>>
  BY DEF Init
<1> QED
  BY <1>1 DEF Phases, Setup, Uploading
-----------------------------------------------------------------------------
(* The teardown. *)

(* Nothing is on the machine that Close does not know of; once Run has     *)
(* returned after its encoder, each step of Close has what the next relies *)
(* on, unless a command failed with nothing in its way.                    *)
Torn ==
  /\ host.snapshot => source.date
  /\ host.dir \/ host.mounted \/ pc = "mount" => source.mount
  /\ pc \in TearingDown \union {"exited"} /\ ~outlived => enc \in {"off", "ended"}
  /\ ~trouble /\ ~outlived =>
       /\ pc \in {"umount", "remove", "delete", "exited"} => ~host.mounted
       /\ pc \in {"delete", "exited"} => ~host.dir
       /\ pc = "exited" => ~host.snapshot

(* Where a failure starts the teardown, what it skips is not there.        *)
LEMMA CloseFromIs ==
  ASSUME Typed, host.snapshot => source.date, host.dir \/ host.mounted => source.mount
  PROVE  /\ CloseFrom \in {"unmount", "delete", "exited"}
         /\ CloseFrom # "unmount" => ~host.mounted /\ ~host.dir
         /\ CloseFrom = "exited" => ~host.snapshot
BY DEF CloseFrom

LEMMA TornOfOpen ==
  ASSUME Typed, Phases, Torn, Open
  PROVE  Torn'
<1>1. pc \in Setup /\ enc = "off"
  BY DEF Phases, Open, LocalSnapshot, TmutilSnapshot, MkdirTemp, Mount, OpenRoot, Prepare, Setup
<1>2. /\ host \in [snapshot : BOOLEAN, mounted : BOOLEAN, dir : BOOLEAN]
      /\ source \in [date : BOOLEAN, mount : BOOLEAN]
  BY DEF Typed, MachineTyped
<1>3. /\ host.snapshot => source.date
      /\ host.dir \/ host.mounted => source.mount
  BY DEF Torn
<1>4. CASE Fail /\ UNCHANGED <<host, source>>
  <2>1. enc' = enc
    BY <1>4, FailTypes DEF Open, LocalSnapshot, TmutilSnapshot, MkdirTemp, Mount, OpenRoot,
                           Prepare, Created, encoder
  <2> QED
    BY <1>1, <1>3, <1>4, <2>1, CloseFromIs DEF Torn, Fail
<1>5. CASE pc' \in Setup \union {"reading"}
  <2>1. pc' \notin TearingDown \union {"exited"} /\ pc' \notin {"umount", "remove", "delete"}
    BY <1>5 DEF Setup, TearingDown
  <2>2. /\ host'.snapshot => source'.date
        /\ host'.dir \/ host'.mounted \/ pc' = "mount" => source'.mount
    <3>1. CASE (LocalSnapshot \/ TmutilSnapshot) /\ Created
      BY <1>2, <1>3, <3>1 DEF Created
    <3>2. CASE MkdirTemp
      BY <1>2, <1>3, <1>5, <3>2, FailTypes DEF MkdirTemp, Setup
    <3>3. CASE Mount
      <4>1. host' = [host EXCEPT !.mounted = TRUE] /\ source' = source
        BY <1>5, <3>3, FailTypes DEF Mount, Setup
      <4>2. source.mount
        BY <3>3 DEF Mount, Torn
      <4> QED
        BY <1>2, <1>3, <4>1, <4>2
    <3>4. CASE pc' # "mount" /\ UNCHANGED <<host, source>>
      BY <1>3, <3>4
    <3> QED
      BY <1>5, <3>1, <3>2, <3>3, <3>4, FailTypes
      DEF Open, LocalSnapshot, TmutilSnapshot, OpenRoot, Prepare, teardown
  <2> QED
    BY <2>1, <2>2 DEF Torn
<1> QED
  BY <1>4, <1>5 DEF Open, LocalSnapshot, TmutilSnapshot, MkdirTemp, Mount, OpenRoot, Prepare,
                    Created, Setup, teardown

LEMMA TornOfEncode ==
  ASSUME Phases, Torn, Encode
  PROVE  Torn'
<1>1. /\ enc \in {"list", "stat", "header", "open", "copy"}
      /\ UNCHANGED <<pc, source, host, trouble, outlived>>
  BY DEF Encode, ListDir, StatFile, WriteHeader, OpenFile, CopyData, CopyShort, CloseFile,
         WriteGoodbye, SourceError, WriteFails, teardown
<1>2. ~(pc \in TearingDown \union {"exited"} /\ ~outlived)
  BY <1>1 DEF Torn
<1> QED
  BY <1>1, <1>2 DEF Torn

LEMMA TornOfSplit ==
  ASSUME Typed, Phases, Torn, Split
  PROVE  Torn'
<1>0. /\ UNCHANGED <<enc, source, host, trouble>>
      /\ host.snapshot => source.date
      /\ host.dir \/ host.mounted => source.mount
  BY DEF Split, CutChunk, PutChunk, PutFails, ReadError, ReadEOF, FinishUpload, encoder,
         teardown, Torn
<1>1. CASE CutChunk \/ PutChunk \/ ReadEOF
  <2>1. pc' \in Uploading
    BY <1>1 DEF CutChunk, PutChunk, ReadEOF, Uploading
  <2> QED
    BY <1>0, <2>1 DEF Torn, Uploading, TearingDown
<1>2. CASE PutFails \/ ReadError \/ FinishUpload
  <2>1. pc' = CloseFrom /\ (~outlived' => enc = "ended")
    BY <1>2 DEF PutFails, ReadError, FinishUpload, Abort, Fail, Phases
  <2> QED
    BY <1>0, <2>1, CloseFromIs DEF Torn
<1> QED
  BY <1>1, <1>2 DEF Split

LEMMA TornOfClose ==
  ASSUME Typed, Torn, Close
  PROVE  Torn'
<1>0. /\ UNCHANGED <<enc, source, outlived>> /\ pc \in TearingDown
      /\ host \in [snapshot : BOOLEAN, mounted : BOOLEAN, dir : BOOLEAN]
      /\ trouble \in BOOLEAN
  BY DEF Close, DiskutilUnmount, SudoUmount, RemoveDir, DeleteSnapshot, encoder, TearingDown,
         Typed, MachineTyped
<1>1. ~outlived => enc \in {"off", "ended"} /\ CanUnmount = host.mounted
  BY <1>0 DEF Torn, CanUnmount, Busy
<1>2. /\ host.snapshot => source.date
      /\ host.dir \/ host.mounted => source.mount
  BY DEF Torn
<1>3. CASE Unmounted
  <2>1. /\ pc' = "remove" /\ host'.mounted = FALSE
        /\ host'.snapshot = host.snapshot /\ host'.dir = host.dir
    BY <1>0, <1>3 DEF Unmounted
  <2> QED
    BY <1>0, <1>1, <1>2, <2>1 DEF Torn
<1>4. CASE DiskutilUnmount /\ ~Unmounted
  <2>1. /\ pc' = "umount" /\ host' = host /\ trouble' = (trouble \/ CanUnmount)
    BY <1>4 DEF DiskutilUnmount
  <2> QED
    BY <1>0, <1>1, <1>2, <2>1 DEF Torn
<1>5. CASE SudoUmount /\ ~Unmounted
  <2>1. /\ pc' = "remove" /\ host' = host /\ trouble' = (trouble \/ CanUnmount)
    BY <1>5 DEF SudoUmount
  <2> QED
    BY <1>0, <1>1, <1>2, <2>1 DEF Torn
<1>6. CASE RemoveDir
  <2>1. /\ pc = "remove"
        /\ pc' = (IF source.date THEN "delete" ELSE "exited")
        /\ host'.mounted = host.mounted /\ host'.snapshot = host.snapshot
        /\ host'.dir => host.dir
        /\ \/ ~host'.dir /\ trouble' = trouble
           \/ trouble' = (trouble \/ ~host.mounted)
    BY <1>0, <1>6 DEF RemoveDir
  <2> QED
    BY <1>0, <1>1, <1>2, <2>1 DEF Torn
<1>7. CASE DeleteSnapshot
  <2>1. /\ pc = "delete" /\ pc' = "exited"
        /\ host'.mounted = host.mounted /\ host'.dir = host.dir
        /\ host'.snapshot => host.snapshot
        /\ \/ ~host'.snapshot /\ trouble' = trouble
           \/ trouble' = (trouble \/ ~host.mounted)
    BY <1>0, <1>7 DEF DeleteSnapshot
  <2> QED
    BY <1>0, <1>1, <1>2, <2>1 DEF Torn
<1> QED
  BY <1>3, <1>4, <1>5, <1>6, <1>7 DEF Close

TeardownInv == TypeInv /\ Phases /\ Torn

LEMMA TeardownStep ==
  ASSUME TeardownInv, [Next]_vars
  PROVE  TeardownInv'
<1>0. TypeInv /\ Typed /\ Phases /\ Torn
  BY TypeInvIs DEF TeardownInv
<1>1. ASSUME UNCHANGED vars PROVE Torn'
  BY <1>0, <1>1 DEF vars, encoder, teardown, Torn
<1>2. ASSUME Change \/ Kill PROVE Torn'
  <2>1. UNCHANGED <<enc, source, host, trouble, outlived>> /\ pc' \in {pc, "killed"}
    BY <1>2 DEF Change, Kill, encoder, teardown
  <2> QED
    BY <1>0, <2>1 DEF Torn, TearingDown
<1>3. Torn'
  BY <1>0, <1>1, <1>2, TornOfOpen, TornOfEncode, TornOfSplit, TornOfClose DEF Next, Over
<1> QED
  BY <1>0, <1>3, TypeStep, PhasesStep DEF TeardownInv

LEMMA TeardownInit == Init => TeardownInv
<1> SUFFICES ASSUME Init PROVE TypeInv /\ Phases /\ Torn
  BY DEF TeardownInv
<1>1. Torn
  BY DEF Init, Nowhere, Torn, TearingDown
<1> QED
  BY <1>1, TypeInit, PhasesInit

LEMMA AlwaysTorn == Spec => []TeardownInv
BY TeardownInit, TeardownStep, PTL DEF Spec

(* A run that ends by itself, whichever of its steps fails, leaves neither *)
(* its snapshot nor the mount and its directory behind, unless a teardown  *)
(* command fails or Run has left its encoder at work.                      *)
THEOREM NothingIsLeft == Spec => []LeavesNothing
<1>1. TeardownInv => LeavesNothing
  <2> SUFFICES ASSUME TeardownInv, pc = "exited", ~trouble, ~outlived PROVE host = Nowhere
    BY DEF LeavesNothing
  <2>1. ~host.snapshot /\ ~host.mounted /\ ~host.dir
    BY DEF TeardownInv, Torn
  <2>2. host \in [snapshot : BOOLEAN, mounted : BOOLEAN, dir : BOOLEAN]
    BY DEF TeardownInv, TypeInv, TypeOK
  <2> QED
    BY <2>1, <2>2 DEF Nowhere
<1> QED
  BY <1>1, AlwaysTorn, PTL
-----------------------------------------------------------------------------
(* The stream. *)

(* The header at i is followed by the data it states, and no more so far.  *)
Complete(s, i) ==
  /\ i + s[i][3] <= Len(s)
  /\ \A j \in i + 1 .. i + s[i][3] : s[j] = Datum(s[i][2])
  /\ i + s[i][3] < Len(s) => s[i + s[i][3] + 1][1] # "data"
AllComplete(s, last) == \A i \in 1 .. last : s[i][1] = "header" => Complete(s, i)

(* s ends in the header of f, which states n units, and k units of data.   *)
InFile(s, f, n, k) ==
  LET o == Len(s) - k
  IN /\ o \in 1 .. Len(s) /\ s[o] = Header(f, n)
     /\ \A j \in o + 1 .. Len(s) : s[j] = Datum(f)
     /\ AllComplete(s, o - 1)

LEMMA Appended ==
  ASSUME NEW s \in Seq(Units), NEW u \in Units
  PROVE  /\ Append(s, u) \in Seq(Units) /\ Len(Append(s, u)) = Len(s) + 1
         /\ Append(s, u)[Len(s) + 1] = u
         /\ \A i \in 1 .. Len(s) : Append(s, u)[i] = s[i]
OBVIOUS

LEMMA HeaderAt ==
  ASSUME NEW s \in Seq(Units), NEW i \in 1 .. Len(s), s[i][1] = "header"
  PROVE  s[i][2] \in Files /\ s[i][3] \in Nat
<1>1. s[i] \in Units
  OBVIOUS
<1> QED
  BY <1>1, UnitForms, Numbers

(* A complete item stays complete, unless it is the last and data follows. *)
LEMMA StaysComplete ==
  ASSUME NEW s \in Seq(Units), NEW u \in Units, NEW i \in 1 .. Len(s), s[i][1] = "header",
         Complete(s, i), u[1] # "data" \/ i + s[i][3] < Len(s)
  PROVE  Complete(Append(s, u), i)
<1> DEFINE t == Append(s, u)
           e == i + s[i][3]
<1>1. /\ Len(t) = Len(s) + 1 /\ t[Len(s) + 1] = u /\ Len(s) \in Nat
      /\ \A j \in 1 .. Len(s) : t[j] = s[j]
  BY Appended
<1>2. s[i][3] \in Nat /\ i \in Nat /\ t[i] = s[i]
  BY <1>1, HeaderAt
<1>3. /\ e <= Len(s) /\ e \in Nat
      /\ \A j \in i + 1 .. e : s[j] = Datum(s[i][2])
      /\ e < Len(s) => s[e + 1][1] # "data"
  BY <1>2 DEF Complete
<1> HIDE DEF t
<1>4. \A j \in i + 1 .. e : t[j] = Datum(t[i][2])
  BY <1>1, <1>2, <1>3
<1>5. t[e + 1][1] # "data"
  <2>1. CASE e < Len(s)
    BY <1>1, <1>3, <2>1
  <2>2. CASE e = Len(s)
    BY <1>1, <1>3, <2>2
  <2> QED
    BY <1>1, <1>3, <2>1, <2>2
<1>6. Complete(t, i)
  BY <1>1, <1>2, <1>3, <1>4, <1>5 DEF Complete
<1> QED
  BY <1>6 DEF t

(* A header, or the GOODBYE, may follow complete items.                    *)
LEMMA StayComplete ==
  ASSUME NEW s \in Seq(Units), NEW u \in Units, u[1] # "data", AllComplete(s, Len(s))
  PROVE  AllComplete(Append(s, u), Len(s))
<1> SUFFICES ASSUME NEW i \in 1 .. Len(s), Append(s, u)[i][1] = "header"
             PROVE  Complete(Append(s, u), i)
  BY DEF AllComplete
<1>1. s[i][1] = "header"
  BY Appended
<1>2. Complete(s, i)
  BY <1>1 DEF AllComplete
<1> QED
  BY <1>1, <1>2, StaysComplete

LEMMA FileStarts ==
  ASSUME NEW s \in Seq(Units), AllComplete(s, Len(s)), NEW f \in Files, NEW n \in Sizes
  PROVE  InFile(Append(s, Header(f, n)), f, n, 0)
<1> DEFINE t == Append(s, Header(f, n))
<1>1. Header(f, n) \in Units /\ Header(f, n)[1] # "data"
  BY UnitForms
<1>2. Len(t) = Len(s) + 1 /\ t[Len(t)] = Header(f, n) /\ Len(s) \in Nat
  BY <1>1, Appended
<1>3. AllComplete(t, Len(s))
  BY <1>1, StayComplete
<1> HIDE DEF t
<1>4. Len(t) - 0 = Len(t) /\ Len(t) - 1 = Len(s) /\ Len(t) \in 1 .. Len(t)
  BY <1>2
<1>5. InFile(t, f, n, 0)
  BY <1>2, <1>3, <1>4 DEF InFile
<1> QED
  BY <1>5 DEF t

LEMMA FileGoesOn ==
  ASSUME NEW s \in Seq(Units), NEW f \in Files, NEW n \in Sizes, NEW k \in Nat,
         InFile(s, f, n, k)
  PROVE  InFile(Append(s, Datum(f)), f, n, k + 1)
<1> DEFINE t == Append(s, Datum(f))
           o == Len(s) - k
<1>1. Datum(f) \in Units
  BY UnitForms
<1>2. /\ Len(t) = Len(s) + 1 /\ t[Len(s) + 1] = Datum(f) /\ Len(s) \in Nat
      /\ \A i \in 1 .. Len(s) : t[i] = s[i]
  BY <1>1, Appended
<1>3. /\ o \in 1 .. Len(s) /\ s[o] = Header(f, n)
      /\ \A j \in o + 1 .. Len(s) : s[j] = Datum(f)
      /\ AllComplete(s, o - 1)
  BY DEF InFile
<1>4. ASSUME NEW i \in 1 .. o - 1, t[i][1] = "header" PROVE Complete(t, i)
  <2>1. s[i][1] = "header" /\ i \in 1 .. Len(s)
    BY <1>2, <1>3, <1>4
  <2>2. Complete(s, i)
    BY <1>3, <2>1 DEF AllComplete
  <2>3. s[i][3] \in Nat /\ s[i][2] \in Files
    BY <2>1, HeaderAt
  <2>4. i + s[i][3] < o
    <3>1. SUFFICES ASSUME o \in i + 1 .. i + s[i][3] PROVE FALSE
      BY <1>2, <1>3, <2>3
    <3>2. s[o] = Datum(s[i][2])
      <4>1. \A j \in i + 1 .. i + s[i][3] : s[j] = Datum(s[i][2])
        BY <2>2 DEF Complete
      <4> HIDE DEF o
      <4> QED
        BY <3>1, <4>1
    <3>3. s[o][1] = "header" /\ s[o][1] = "data"
      <4>1. s[o][1] = "header"
        BY <1>3, UnitForms
      <4>2. s[o][1] = "data"
        BY <2>3, <3>2, UnitForms
      <4> QED
        BY <4>1, <4>2
    <3> QED
      BY <3>3
  <2>5. i + s[i][3] < Len(s)
    BY <1>2, <1>3, <2>3, <2>4
  <2> QED
    BY <1>1, <2>1, <2>2, <2>5, StaysComplete
<1>5. AllComplete(t, o - 1)
  <2> HIDE DEF t, o
  <2> QED
    BY <1>4 DEF AllComplete
<1> HIDE DEF t
<1>6. Len(t) - (k + 1) = o
  BY <1>2
<1>7. t[o] = Header(f, n) /\ o \in 1 .. Len(t)
  <2> HIDE DEF o
  <2> QED
    BY <1>2, <1>3
<1>8. \A j \in o + 1 .. Len(t) : t[j] = Datum(f)
  <2> SUFFICES ASSUME NEW j \in o + 1 .. Len(t) PROVE t[j] = Datum(f)
    OBVIOUS
  <2> HIDE DEF o
  <2>1. j \in o + 1 .. Len(s) \/ j = Len(s) + 1
    BY <1>2, <1>3
  <2>2. o \in Nat /\ (j \in o + 1 .. Len(s) => j \in 1 .. Len(s))
    BY <1>3
  <2> QED
    BY <1>2, <1>3, <2>1, <2>2
<1>9. InFile(t, f, n, k + 1)
  <2> HIDE DEF o
  <2> QED
    BY <1>5, <1>6, <1>7, <1>8 DEF InFile
<1> QED
  BY <1>9 DEF t

LEMMA FileEnds ==
  ASSUME NEW s \in Seq(Units), NEW f \in Files, NEW n \in Sizes, InFile(s, f, n, n)
  PROVE  AllComplete(s, Len(s))
<1> DEFINE o == Len(s) - n
<1>1. /\ o \in 1 .. Len(s) /\ s[o] = Header(f, n) /\ Len(s) \in Nat /\ n \in Nat
      /\ \A j \in o + 1 .. Len(s) : s[j] = Datum(f)
      /\ AllComplete(s, o - 1)
  BY Numbers DEF InFile
<1>2. s[o][2] = f /\ s[o][3] = n
  BY <1>1, UnitForms
<1>3. Complete(s, o)
  BY <1>1, <1>2 DEF Complete
<1>4. ASSUME NEW i \in o + 1 .. Len(s) PROVE s[i][1] # "header"
  <2>1. s[i] = Datum(f)
    BY <1>1
  <2> QED
    BY <2>1, UnitForms
<1>5. ASSUME NEW i \in 1 .. Len(s), s[i][1] = "header" PROVE Complete(s, i)
  <2>1. i \in 1 .. o - 1 \/ i = o
    BY <1>1, <1>4, <1>5
  <2> QED
    BY <1>1, <1>3, <1>5, <2>1 DEF AllComplete
<1> QED
  BY <1>5 DEF AllComplete

LEMMA ArchiveEnds ==
  ASSUME NEW s \in Seq(Units), AllComplete(s, Len(s))
  PROVE  AllComplete(Append(s, Goodbye), Len(Append(s, Goodbye)))
<1> DEFINE t == Append(s, Goodbye)
<1>1. Goodbye \in Units /\ Goodbye[1] = "goodbye"
  BY UnitForms
<1>2. Len(t) = Len(s) + 1 /\ t[Len(s) + 1] = Goodbye /\ Len(s) \in Nat
  BY <1>1, Appended
<1>3. AllComplete(t, Len(s))
  BY <1>1, StayComplete
<1> HIDE DEF t
<1>4. AllComplete(t, Len(t))
  BY <1>1, <1>2, <1>3 DEF AllComplete
<1> QED
  BY <1>4 DEF t

LEMMA WholeIs ==
  ASSUME NEW s \in Seq(Units), AllComplete(s, Len(s)), s # <<>>, s[Len(s)] = Goodbye
  PROVE  WellFormed(s)
<1>0. Len(s) \in Nat /\ Goodbye[1] = "goodbye"
  BY UnitForms
<1>1. ASSUME NEW i \in DOMAIN s, s[i][1] = "header"
      PROVE  LET after == i + s[i][3] + 1
             IN /\ after \in DOMAIN s /\ s[after][1] # "data"
                /\ \A j \in i + 1 .. after - 1 : s[j] = Datum(s[i][2])
  <2>1. i \in 1 .. Len(s) /\ s[i][3] \in Nat /\ s[i][2] \in Files
    BY <1>1, HeaderAt
  <2>2. Complete(s, i)
    BY <1>1, <2>1 DEF AllComplete
  <2>3. i + s[i][3] # Len(s)
    <3>1. SUFFICES ASSUME i + s[i][3] = Len(s) PROVE FALSE
      OBVIOUS
    <3>2. CASE s[i][3] = 0
      BY <1>0, <1>1, <2>1, <3>1, <3>2
    <3>3. CASE s[i][3] # 0
      <4>1. Len(s) \in i + 1 .. i + s[i][3]
        BY <1>0, <2>1, <3>1, <3>3
      <4>2. Goodbye = Datum(s[i][2])
        BY <2>2, <4>1 DEF Complete
      <4>3. Goodbye[1] = "data"
        BY <2>1, <4>2, UnitForms
      <4> QED
        BY <1>0, <4>3
    <3> QED
      BY <3>2, <3>3
  <2>4. i + s[i][3] + 1 \in DOMAIN s /\ s[i + s[i][3] + 1][1] # "data"
    BY <1>0, <2>1, <2>2, <2>3 DEF Complete
  <2>5. \A j \in i + 1 .. (i + s[i][3] + 1) - 1 : s[j] = Datum(s[i][2])
    BY <2>1, <2>2 DEF Complete
  <2> QED
    BY <2>4, <2>5
<1> QED
  BY <1>1 DEF WellFormed

(* What the chunker has read, by the place of the encoder: whole items, or *)
(* whole items and the file that the encoder is at.                        *)
Stream ==
  ~encErr =>
    /\ enc \notin {"open", "copy"} => AllComplete(received, Len(received))
    /\ enc = "open" => InFile(received, file, claimed[file], 0)
    /\ enc = "copy" => InFile(received, file, claimed[file], copied)
    /\ enc = "ended" => received # <<>> /\ received[Len(received)] = Goodbye

StreamInv == TypeInv /\ Phases /\ Stream

LEMMA StreamOfEncode ==
  ASSUME StreamInv, Encode
  PROVE  Stream'
<1>0. /\ received \in Seq(Units) /\ ~encErr /\ AtFile
      /\ claimed \in [Files -> Sizes] /\ copied \in Nat
  BY Numbers DEF StreamInv, TypeInv, TypeOK, Phases, Encode, ListDir, StatFile, WriteHeader,
                 OpenFile, CopyData, CopyShort, CloseFile, WriteGoodbye, SourceError, WriteFails
<1>1. SUFFICES ASSUME ~encErr' PROVE Stream'
  BY DEF Stream
<1>2. CASE ListDir \/ StatFile
  <2>1. /\ AllComplete(received, Len(received)) /\ received' = received
        /\ enc' \notin {"open", "copy", "ended"}
    BY <1>0, <1>1, <1>2 DEF ListDir, StatFile, EncodeReturns, pipe, StreamInv, Stream
  <2> QED
    BY <2>1 DEF Stream
<1>3. CASE WriteHeader
  <2>1. /\ AllComplete(received, Len(received)) /\ file \in Files /\ claimed[file] \in Sizes
        /\ received' = Append(received, Header(file, claimed[file]))
    BY <1>0, <1>3 DEF WriteHeader, Send, StreamInv, Stream, AtFile
  <2>2. InFile(received', file, claimed[file], 0)
    BY <1>0, <2>1, FileStarts
  <2> QED
    BY <1>3, <2>2 DEF WriteHeader, Stream
<1>4. CASE OpenFile
  <2>1. /\ InFile(received, file, claimed[file], 0)
        /\ UNCHANGED <<received, file, claimed>> /\ copied' = 0 /\ enc' = "copy"
    BY <1>0, <1>1, <1>4 DEF OpenFile, EncodeReturns, pipe, StreamInv, Stream
  <2> QED
    BY <2>1 DEF Stream
<1>5. CASE CopyData
  <2>1. /\ InFile(received, file, claimed[file], copied)
        /\ file \in Files /\ claimed[file] \in Sizes
        /\ received' = Append(received, Datum(file))
    BY <1>0, <1>5 DEF CopyData, Send, StreamInv, Stream, AtFile
  <2>2. InFile(received', file, claimed[file], copied + 1)
    BY <1>0, <2>1, FileGoesOn
  <2> QED
    BY <1>5, <2>2 DEF CopyData, Stream
<1>6. CASE CopyShort \/ SourceError \/ WriteFails
  BY <1>1, <1>6 DEF CopyShort, SourceError, WriteFails, EncodeReturns, ShortReadErr
<1>7. CASE CloseFile
  <2>1. file \in Files /\ claimed[file] \in Sizes /\ copied = claimed[file]
    <3>1. file \in Files /\ claimed[file] \in Nat /\ claimed[file] \in Sizes
      BY <1>0, <1>7, Numbers DEF CloseFile, AtFile
    <3>2. copied <= claimed[file] /\ ~(copied < claimed[file])
      BY <1>7 DEF CloseFile, Remaining, StreamInv, Phases
    <3> QED
      BY <1>0, <3>1, <3>2
  <2>2. InFile(received, file, claimed[file], claimed[file])
    BY <1>0, <1>7, <2>1 DEF CloseFile, StreamInv, Stream
  <2>3. AllComplete(received, Len(received))
    BY <1>0, <2>1, <2>2, FileEnds
  <2>4. received' = received /\ enc' = "stat"
    BY <1>7 DEF CloseFile, pipe
  <2> QED
    BY <2>3, <2>4 DEF Stream
<1>8. CASE WriteGoodbye
  <2>1. /\ AllComplete(received, Len(received)) /\ enc' = "ended"
        /\ received' = Append(received, Goodbye)
    BY <1>0, <1>8 DEF WriteGoodbye, Send, EncodeReturns, StreamInv, Stream
  <2>2. AllComplete(received', Len(received'))
    BY <1>0, <2>1, ArchiveEnds
  <2>3. received' # <<>> /\ received'[Len(received')] = Goodbye
    BY <1>0, <2>1, UnitForms, Appended
  <2> QED
    BY <2>1, <2>2, <2>3 DEF Stream
<1> QED
  BY <1>2, <1>3, <1>4, <1>5, <1>6, <1>7, <1>8 DEF Encode

LEMMA StreamStep ==
  ASSUME StreamInv, [Next]_vars
  PROVE  StreamInv'
<1>1. ASSUME UNCHANGED <<enc, encErr, file, claimed, copied, received>> PROVE Stream'
  BY <1>1 DEF StreamInv, Stream
<1>2. ASSUME Change \/ Kill \/ Split \/ Close \/ UNCHANGED vars PROVE Stream'
  <2>1. UNCHANGED <<enc, encErr, file, claimed, copied, received>>
    BY <1>2 DEF Change, Kill, Split, Close, CutChunk, PutChunk, PutFails, ReadError, ReadEOF,
                FinishUpload, DiskutilUnmount, SudoUmount, RemoveDir, DeleteSnapshot, vars,
                encoder, pipe
  <2> QED
    BY <1>1, <2>1
<1>3. ASSUME Open PROVE Stream'
  <2>1. /\ UNCHANGED <<encErr, file, claimed, copied, received>>
        /\ enc' = enc \/ (enc' = "list" /\ enc = "off")
    BY <1>3 DEF Open, LocalSnapshot, TmutilSnapshot, MkdirTemp, Mount, OpenRoot, Prepare,
                encoder, pipe, StreamInv, Phases, Setup
  <2> QED
    BY <2>1 DEF StreamInv, Stream
<1>4. Stream'
  BY <1>2, <1>3, StreamOfEncode DEF Next, Over
<1> QED
  BY <1>4, TypeStep, PhasesStep DEF StreamInv

LEMMA StreamInit == Init => StreamInv
<1> SUFFICES ASSUME Init PROVE Stream
  BY TypeInit, PhasesInit DEF StreamInv
<1>1. received = <<>> /\ enc = "off"
  BY DEF Init
<1>2. AllComplete(<<>>, Len(<<>>))
  BY DEF AllComplete
<1> QED
  BY <1>1, <1>2 DEF Stream

LEMMA AlwaysStreaming == Spec => []StreamInv
BY StreamInit, StreamStep, PTL DEF Spec

(* However the live files shrink, grow or vanish under the encoder, and    *)
(* wherever the chunker cuts: what a run that ends well has stored is an   *)
(* archive that the decoder can walk to its GOODBYE.                       *)
THEOREM SuccessesAreWhole == Spec => []SuccessMeansWhole
<1>1. StreamInv => SuccessMeansWhole
  <2> SUFFICES ASSUME StreamInv, result = "ok" PROVE WellFormed(SubSeq(received, 1, stored))
    BY DEF SuccessMeansWhole
  <2>1. enc = "ended" /\ ~encErr /\ stored = Len(received) /\ received \in Seq(Units)
    BY DEF StreamInv, Phases, TypeInv, TypeOK
  <2>2. WellFormed(received)
    BY <2>1, WholeIs DEF StreamInv, Stream
  <2>3. SubSeq(received, 1, Len(received)) = received
    BY <2>1
  <2> QED
    BY <2>1, <2>2, <2>3
<1> QED
  BY <1>1, AlwaysStreaming, PTL
-----------------------------------------------------------------------------
(* The snapshot. *)

(* The headers in s are those of the files in S, with their sizes in fr.   *)
HeadersAre(s, fr, S) ==
  \A f \in Files, n \in Sizes :
    (\E i \in 1 .. Len(s) : s[i] = Header(f, n)) <=> f \in S /\ fr[f] = n

LEMMA NoHeaders == \A fr : HeadersAre(<<>>, fr, {})
BY DEF HeadersAre

LEMMA NoNewHeader ==
  ASSUME NEW s \in Seq(Units), NEW fr, NEW S, HeadersAre(s, fr, S),
         NEW u \in Units, u[1] # "header"
  PROVE  HeadersAre(Append(s, u), fr, S)
<1> DEFINE t == Append(s, u)
<1>1. /\ Len(t) = Len(s) + 1 /\ t[Len(s) + 1] = u /\ Len(s) \in Nat
      /\ \A i \in 1 .. Len(s) : t[i] = s[i]
  BY Appended
<1> HIDE DEF t
<1>2. ASSUME NEW f \in Files, NEW n \in Sizes
      PROVE  (\E i \in 1 .. Len(t) : t[i] = Header(f, n)) <=>
               (\E i \in 1 .. Len(s) : s[i] = Header(f, n))
  <2>1. u # Header(f, n)
    BY UnitForms
  <2> QED
    BY <1>1, <2>1
<1>3. HeadersAre(t, fr, S)
  BY <1>2 DEF HeadersAre
<1> QED
  BY <1>3 DEF t

LEMMA NewHeader ==
  ASSUME NEW s \in Seq(Units), NEW fr, NEW S, HeadersAre(s, fr, S),
         NEW g \in Files, fr[g] \in Sizes
  PROVE  HeadersAre(Append(s, Header(g, fr[g])), fr, S \union {g})
<1> DEFINE u == Header(g, fr[g])
           t == Append(s, u)
<1>0. u \in Units
  BY UnitForms
<1>1. /\ Len(t) = Len(s) + 1 /\ t[Len(s) + 1] = u /\ Len(s) \in Nat
      /\ \A i \in 1 .. Len(s) : t[i] = s[i]
  BY <1>0, Appended
<1>2. ASSUME NEW f \in Files, NEW n \in Sizes PROVE u = Header(f, n) <=> f = g /\ fr[g] = n
  <2>1. u[2] = g /\ u[3] = fr[g] /\ Header(f, n)[2] = f /\ Header(f, n)[3] = n
    BY UnitForms
  <2> QED
    BY <2>1
<1> HIDE DEF t, u
<1>3. ASSUME NEW f \in Files, NEW n \in Sizes
      PROVE  (\E i \in 1 .. Len(t) : t[i] = Header(f, n)) <=>
               (\E i \in 1 .. Len(s) : s[i] = Header(f, n)) \/ u = Header(f, n)
  BY <1>1
<1>4. HeadersAre(t, fr, S \union {g})
  BY <1>2, <1>3 DEF HeadersAre
<1> QED
  BY <1>4 DEF t, u

(* The files whose header the encoder has written.                         *)
Written ==
  {f \in listed : \/ enc \in {"stat", "header"} /\ f < file
                  \/ enc \in {"open", "copy"} /\ f <= file
                  \/ enc = "ended"}
Running == pc \in Uploading \/ result = "ok"

(* The snapshot stays mounted while the encoder may read it, and what has  *)
(* been written until now is what it holds.                                *)
FromSnapshot ==
  snapshot =>
    /\ pc \in Uploading \union {"root", "prepare"} => host.mounted
    /\ Running /\ ~encErr =>
         /\ enc \notin {"off", "list"} => listed = {f \in Files : frozen[f] # Gone}
         /\ enc \in {"header", "open", "copy"} => claimed[file] = frozen[file] /\ file \in listed
         /\ HeadersAre(received, frozen, Written)
SnapshotInv == TypeInv /\ Phases /\ FromSnapshot

LEMMA SnapshotOfEncode ==
  ASSUME SnapshotInv, Encode
  PROVE  FromSnapshot'
<1>1. /\ UNCHANGED <<frozen, snapshot, pc, result, host>> /\ ~encErr
      /\ enc \in {"list", "stat", "header", "open", "copy"}
  BY DEF SnapshotInv, Phases, Encode, ListDir, StatFile, WriteHeader, OpenFile, CopyData,
         CopyShort, CloseFile, WriteGoodbye, SourceError, WriteFails, teardown
<1>2. SUFFICES ASSUME snapshot, Running, ~encErr'
               PROVE  /\ enc' # "list" => listed' = {f \in Files : frozen[f] # Gone}
                      /\ enc' \in {"header", "open", "copy"} =>
                           claimed'[file'] = frozen[file'] /\ file' \in listed'
                      /\ HeadersAre(received', frozen, Written')
  BY <1>1 DEF SnapshotInv, FromSnapshot, Running
<1>3. pc \in Uploading /\ host.mounted
  BY <1>1, <1>2 DEF SnapshotInv, Phases, FromSnapshot, Running
<1>4. \A f \in Files : View(f) = frozen[f]
  BY <1>2, <1>3 DEF View
<1>5. /\ enc # "list" => listed = {f \in Files : frozen[f] # Gone}
      /\ enc \in {"header", "open", "copy"} => claimed[file] = frozen[file] /\ file \in listed
      /\ HeadersAre(received, frozen, Written)
  BY <1>1, <1>2 DEF SnapshotInv, FromSnapshot
<1>6. /\ TypeOK /\ received \in Seq(Units) /\ listed \subseteq Files
      /\ file \in 1 .. Count + 1 /\ Count \in Nat /\ claimed \in [Files -> Sizes]
      /\ enc \in {"header", "open", "copy"} => file \in Files
      /\ \A f \in Files : f \in Nat /\ f <= Count
  BY Numbers DEF SnapshotInv, TypeInv, TypeOK, AtFile
<1>7. CASE ListDir
  <2>1. /\ listed' = {f \in Files : frozen[f] # Gone} /\ enc' = "stat" /\ received' = received
    BY <1>4, <1>7 DEF ListDir, pipe
  <2>2. Written = {}
    BY <1>7 DEF ListDir, Written
  <2>3. Written' = {}
    <3>1. \A f \in listed' : ~(f < file')
      <4>1. CASE listed' = {}
        BY <4>1
      <4>2. CASE listed' # {}
        <5>1. listed' \in SUBSET Files /\ file' = CHOOSE f \in listed' : \A g \in listed' : f <= g
          BY <1>7, <2>1, <4>2 DEF ListDir
        <5>2. file' \in listed' /\ \A g \in listed' : file' <= g
          BY <4>2, <5>1, FirstIs
        <5>3. \A f \in listed' : f \in Nat
          BY <1>6, <5>1
        <5> QED
          BY <5>2, <5>3
      <4> QED
        BY <4>1, <4>2
    <3> QED
      BY <2>1, <3>1 DEF Written
  <2> QED
    BY <1>5, <2>1, <2>2, <2>3
<1>8. CASE StatFile
  <2>1. /\ UNCHANGED <<file, listed, received>> /\ enc = "stat" /\ enc' = "header"
        /\ file \in Files /\ frozen[file] # Gone
        /\ claimed' = [claimed EXCEPT ![file] = frozen[file]]
    <3>1. /\ UNCHANGED <<file, listed, received>> /\ enc = "stat" /\ enc' = "header"
          /\ file <= Count /\ View(file) # Gone
          /\ claimed' = [claimed EXCEPT ![file] = View(file)]
      BY <1>8 DEF StatFile, pipe
    <3>2. file \in Files
      BY <1>6, <3>1 DEF Files
    <3>3. View(file) = frozen[file]
      BY <1>4, <3>2
    <3> QED
      BY <3>1, <3>2, <3>3
  <2>2. claimed'[file] = frozen[file] /\ file \in listed
    BY <1>5, <1>6, <2>1
  <2>3. Written' = Written
    BY <2>1 DEF Written
  <2> QED
    BY <1>5, <2>1, <2>2, <2>3
<1>9. CASE WriteHeader
  <2>1. /\ UNCHANGED <<file, listed, claimed>> /\ enc = "header" /\ enc' = "open"
        /\ received' = Append(received, Header(file, frozen[file]))
        /\ file \in listed /\ frozen[file] = claimed[file] /\ frozen[file] \in Sizes
        /\ file \in Files
    BY <1>5, <1>6, <1>9 DEF WriteHeader, Send
  <2>2. HeadersAre(received', frozen, Written \union {file})
    BY <1>5, <1>6, <2>1, NewHeader
  <2>3. Written' = Written \union {file}
    <3>1. Written = {f \in listed : f < file} /\ Written' = {f \in listed : f <= file}
      BY <2>1 DEF Written
    <3>2. \A f \in listed : f \in Nat
      BY <1>6
    <3>3. \A f \in listed : f <= file <=> f < file \/ f = file
      BY <1>6, <2>1, <3>2
    <3> QED
      BY <2>1, <3>1, <3>3
  <2> QED
    BY <1>5, <2>1, <2>2, <2>3
<1>10. CASE OpenFile
  <2>1. /\ UNCHANGED <<file, listed, claimed, received>> /\ enc = "open" /\ enc' = "copy"
    BY <1>2, <1>10 DEF OpenFile, EncodeReturns, pipe
  <2>2. Written' = Written
    BY <2>1 DEF Written
  <2> QED
    BY <1>5, <2>1, <2>2
<1>11. CASE CopyData
  <2>1. /\ UNCHANGED <<file, listed, claimed, enc>> /\ enc = "copy" /\ file \in Files
        /\ received' = Append(received, Datum(file))
    BY <1>6, <1>11 DEF CopyData, Send
  <2>2. Written' = Written
    BY <2>1 DEF Written
  <2>3. Datum(file) \in Units /\ Datum(file)[1] # "header"
    BY <2>1, UnitForms
  <2>4. HeadersAre(received', frozen, Written)
    BY <1>5, <1>6, <2>1, <2>3, NoNewHeader
  <2> QED
    BY <1>5, <2>1, <2>2, <2>4
<1>12. CASE CopyShort \/ SourceError \/ WriteFails
  BY <1>2, <1>12 DEF CopyShort, SourceError, WriteFails, EncodeReturns, ShortReadErr
<1>13. CASE CloseFile
  <2>1. /\ UNCHANGED <<listed, claimed, received>> /\ enc = "copy" /\ enc' = "stat"
        /\ file' = NextFile /\ file \in Files
    BY <1>6, <1>13 DEF CloseFile, pipe
  <2>2. \A f \in listed : f <= file <=> f < file'
    BY <1>6, <2>1, NextFileIs
  <2>3. Written' = Written
    BY <2>1, <2>2 DEF Written
  <2> QED
    BY <1>5, <2>1, <2>3
<1>14. CASE WriteGoodbye
  <2>1. /\ UNCHANGED <<listed, claimed, file>> /\ enc = "stat" /\ enc' = "ended"
        /\ file > Count /\ received' = Append(received, Goodbye)
    BY <1>14 DEF WriteGoodbye, Send, EncodeReturns
  <2>2. \A f \in listed : f < file
    BY <1>6, <2>1
  <2>3. Written' = Written
    BY <2>1, <2>2 DEF Written
  <2>4. HeadersAre(received', frozen, Written)
    BY <1>5, <1>6, <2>1, UnitForms, NoNewHeader
  <2> QED
    BY <1>5, <2>1, <2>3, <2>4
<1> QED
  BY <1>7, <1>8, <1>9, <1>10, <1>11, <1>12, <1>13, <1>14 DEF Encode

LEMMA SnapshotOfOpen ==
  ASSUME SnapshotInv, Open
  PROVE  FromSnapshot'
<1>1. /\ pc \in Setup /\ result = "none" /\ enc = "off" /\ received = <<>>
      /\ UNCHANGED <<snapshot, listed, file, claimed, received>>
  BY DEF SnapshotInv, Phases, Open, LocalSnapshot, TmutilSnapshot, MkdirTemp, Mount, OpenRoot,
         Prepare, Setup, encoder, pipe
<1>2. enc' \in {"off", "list"} /\ HeadersAre(received', frozen', Written')
  <2>1. enc' \in {"off", "list"}
    BY <1>1 DEF Open, LocalSnapshot, TmutilSnapshot, MkdirTemp, Mount, OpenRoot, Prepare,
                encoder
  <2>2. Written' = {}
    BY <2>1 DEF Written
  <2> QED
    BY <1>1, <2>1, <2>2, NoHeaders
<1>3. ASSUME snapshot, pc' \in Uploading \union {"root", "prepare"} PROVE host'.mounted
  <2>1. /\ ~Fail /\ pc' \notin {"mkdtemp", "mount", "tmutil snapshot"}
    BY <1>3, FailTypes DEF Uploading
  <2>2. CASE Mount
    BY <2>1, <2>2 DEF Mount, SnapshotInv, TypeInv, TypeOK
  <2>3. CASE OpenRoot \/ Prepare
    <3>1. pc \in {"root", "prepare"} /\ host' = host
      BY <2>3 DEF OpenRoot, Prepare, teardown
    <3> QED
      BY <1>3, <3>1 DEF SnapshotInv, FromSnapshot
  <2>4. ~(LocalSnapshot \/ TmutilSnapshot \/ MkdirTemp)
    BY <2>1 DEF LocalSnapshot, TmutilSnapshot, MkdirTemp, Created
  <2> QED
    BY <2>2, <2>3, <2>4 DEF Open
<1> QED
  BY <1>1, <1>2, <1>3 DEF FromSnapshot

LEMMA SnapshotStep ==
  ASSUME SnapshotInv, [Next]_vars
  PROVE  SnapshotInv'
<1>1. ASSUME UNCHANGED <<frozen, snapshot, encoder, received, host>>,
             pc' \in Uploading \union {"root", "prepare"} => pc \in Uploading \union {"root", "prepare"},
             Running' => Running
      PROVE  FromSnapshot'
  <2>1. UNCHANGED <<frozen, snapshot, enc, encErr, file, listed, claimed, received, host>>
    BY <1>1 DEF encoder
  <2>2. Written' = Written
    BY <2>1 DEF Written
  <2> QED
    BY <1>1, <2>1, <2>2 DEF SnapshotInv, FromSnapshot
<1>2. ASSUME UNCHANGED vars PROVE FromSnapshot'
  BY <1>1, <1>2 DEF vars, pipe, teardown, Running
<1>3. ASSUME Change \/ Kill PROVE FromSnapshot'
  BY <1>1, <1>3 DEF Change, Kill, pipe, teardown, Running, Uploading
<1>4. ASSUME Split PROVE FromSnapshot'
  <2>1. UNCHANGED <<frozen, snapshot, encoder, received, host>> /\ pc \in Uploading
    BY <1>4 DEF Split, CutChunk, PutChunk, PutFails, ReadError, ReadEOF, FinishUpload, pipe,
                teardown, Uploading
  <2> QED
    BY <1>1, <2>1 DEF Running
<1>5. ASSUME Close PROVE FromSnapshot'
  <2>1. /\ UNCHANGED <<frozen, snapshot, encoder, received, result>>
        /\ pc' \in TearingDown \union {"exited"}
    BY <1>5 DEF Close, DiskutilUnmount, SudoUmount, RemoveDir, DeleteSnapshot, Unmounted, pipe,
                TearingDown
  <2>2. pc' \notin Uploading \union {"root", "prepare"}
    BY <2>1 DEF TearingDown, Uploading
  <2>3. UNCHANGED <<enc, encErr, file, listed, claimed>>
    BY <2>1 DEF encoder
  <2>4. Written' = Written /\ (Running' => Running)
    BY <2>1, <2>2, <2>3 DEF Written, Running
  <2> QED
    BY <2>1, <2>2, <2>3, <2>4 DEF SnapshotInv, FromSnapshot
<1>6. FromSnapshot'
  BY <1>2, <1>3, <1>4, <1>5, SnapshotOfOpen, SnapshotOfEncode DEF Next, Over
<1> QED
  BY <1>6, TypeStep, PhasesStep DEF SnapshotInv

LEMMA SnapshotInit == Init => SnapshotInv
<1> SUFFICES ASSUME Init PROVE FromSnapshot
  BY TypeInit, PhasesInit DEF SnapshotInv
<1>1. snapshot => pc = "localsnapshot"
  BY DEF Init
<1>2. result = "none"
  BY DEF Init
<1> QED
  BY <1>1, <1>2 DEF FromSnapshot, Running, Uploading

LEMMA AlwaysFromSnapshot == Spec => []SnapshotInv
BY SnapshotInit, SnapshotStep, PTL DEF Spec

(* With --snapshot a run that ends well has stored every file of the       *)
(* source as it was when the snapshot was made, and no other: the live     *)
(* files may change all the while.                                         *)
THEOREM SnapshotsAreOneMoment == Spec => []PointInTime
<1>1. SnapshotInv => PointInTime
  <2> SUFFICES ASSUME SnapshotInv, snapshot, result = "ok", NEW f \in Files, NEW n \in Sizes
               PROVE  frozen[f] = n <=> \E i \in 1 .. stored : received[i] = Header(f, n)
    BY DEF PointInTime
  <2>1. enc = "ended" /\ ~encErr /\ stored = Len(received)
    BY DEF SnapshotInv, Phases
  <2>2. /\ listed = {g \in Files : frozen[g] # Gone}
        /\ HeadersAre(received, frozen, Written)
    BY <2>1 DEF SnapshotInv, FromSnapshot, Running
  <2>3. Written = listed
    BY <2>1 DEF Written
  <2>4. (\E i \in 1 .. Len(received) : received[i] = Header(f, n)) <=>
          f \in listed /\ frozen[f] = n
    BY <2>2, <2>3 DEF HeadersAre
  <2>5. n # Gone
    BY Numbers
  <2> QED
    BY <2>1, <2>2, <2>4, <2>5
<1> QED
  BY <1>1, AlwaysFromSnapshot, PTL
=============================================================================
