--------------------------- MODULE AppModelProofs ---------------------------
(***************************************************************************)
(* Proofs about AppModel, for every set of snapshots and archives and any  *)
(* number of pbmac processes under way.                                    *)
(***************************************************************************)
EXTENDS AppModel, FiniteSetTheorems, WellFoundedInduction, TLAPS

(* What the tasks that wait for `pbmac archives` are loading.              *)
ArchivesTyped == \A t \in Slots : tasks[t].call = "archives" => tasks[t].snap \in Snapshots
TypeInv == TypeOK /\ ArchivesTyped
-----------------------------------------------------------------------------
(* The operators. *)

(* A nonempty set of numbers has a least element.                          *)
LEMMA LeastExists ==
  ASSUME NEW S \in SUBSET Nat, S # {}
  PROVE  \E i \in S : \A j \in S : i <= j
<1>1. \E i \in S : \A j \in S : ~(<<j, i>> \in OpToRel(<, Nat))
  BY NatLessThanWellFounded, WFMin, Zenon
<1>2. PICK i \in S : \A j \in S : ~(<<j, i>> \in OpToRel(<, Nat))
  BY <1>1
<1>3. ASSUME NEW j \in S PROVE i <= j
  <2>1. <<j, i>> \in OpToRel(<, Nat) <=> j < i
    BY DEF OpToRel
  <2>2. ~(j < i)
    BY <1>2, <2>1, Zenon
  <2> QED
    BY <2>2
<1> QED
  BY <1>3

(* The archive that selectSnapshot picks is one of the snapshot's.         *)
LEMMA DefaultArchiveType ==
  ASSUME NEW s \in Snapshots
  PROVE  DefaultArchive(s) \in Names \union {None}
<1> DEFINE files == {i \in DOMAIN ArchivesOf[s] : ArchivesOf[s][i] \in Browsable}
           first == CHOOSE i \in files : \A j \in files : i <= j
<1>1. ArchivesOf[s] \in Seq(Names)
  BY AppAssumption
<1>2. CASE files # {}
  <2>1. files \in SUBSET Nat
    BY <1>1
  <2>2. first \in files
    <3> HIDE DEF files
    <3> QED
      BY <1>2, <2>1, LeastExists
  <2>3. ArchivesOf[s][first] \in Names
    <3> HIDE DEF first
    <3> QED
      BY <1>1, <2>2
  <2> QED
    BY <1>2, <2>3 DEF DefaultArchive
<1>3. CASE files = {}
  BY <1>1, <1>3 DEF DefaultArchive
<1> QED
  BY <1>2, <1>3

(* There is a token for every selection: a slot that is free leaves one    *)
(* that neither the current selection nor a listing under way holds.       *)
LEMMA Fresh ==
  ASSUME TypeOK, NEW t \in Slots, ~Listing(t)
  PROVE  /\ FreshToken \in Tokens /\ FreshToken # browseToken
         /\ \A u \in Slots : Listing(u) => tasks[u].token # FreshToken
<1> DEFINE Others == Slots \ {t}
           held == {tasks[u].token : u \in Others}
           taken == held \union {browseToken}
           token == [u \in Others |-> tasks[u].token]
<1>1. IsFiniteSet(Slots) /\ Cardinality(Slots) \in Nat
  BY AppAssumption, FS_CardinalityType
<1>2. IsFiniteSet(Others) /\ Cardinality(Others) = Cardinality(Slots) - 1
  BY <1>1, FS_RemoveElement
<1>3. token \in Surjection(Others, held)
  BY DEF Surjection
<1>4. IsFiniteSet(held) /\ Cardinality(held) <= Cardinality(Others) /\ Cardinality(held) \in Nat
  <2> HIDE DEF Others, held, token
  <2>1. IsFiniteSet(held) /\ Cardinality(held) <= Cardinality(Others)
    BY <1>2, <1>3, FS_Surjection
  <2> QED
    BY <2>1, FS_CardinalityType
<1>5. IsFiniteSet(taken) /\ Cardinality(taken) <= Cardinality(Slots)
  <2>1. /\ IsFiniteSet(taken)
        /\ Cardinality(taken) = IF browseToken \in held THEN Cardinality(held)
                                                        ELSE Cardinality(held) + 1
    <3> HIDE DEF held
    <3> QED
      BY <1>4, FS_AddElement
  <2> HIDE DEF held, taken, Others
  <2> QED
    BY <2>1, <1>1, <1>2, <1>4
<1>6. IsFiniteSet(Tokens) /\ Cardinality(Tokens) = Cardinality(Slots) + 1
  <2>1. /\ IsFiniteSet(0 .. Cardinality(Slots))
        /\ Cardinality(0 .. Cardinality(Slots)) =
             IF 0 > Cardinality(Slots) THEN 0 ELSE Cardinality(Slots) - 0 + 1
    BY <1>1, FS_Interval
  <2> QED
    BY <1>1, <2>1 DEF Tokens
<1>7. ~(Tokens \subseteq taken)
  <2> HIDE DEF taken
  <2>1. SUFFICES ASSUME Tokens \subseteq taken PROVE FALSE
    OBVIOUS
  <2>2. Cardinality(Tokens) <= Cardinality(taken)
    BY <2>1, <1>5, FS_Subset
  <2>3. Cardinality(taken) \in Nat
    BY <1>5, FS_CardinalityType
  <2> QED
    BY <2>2, <2>3, <1>1, <1>5, <1>6
<1>8. \E k \in Tokens : k # browseToken /\ \A u \in Slots : Listing(u) => tasks[u].token # k
  BY <1>7
<1> QED
  BY <1>8 DEF FreshToken
-----------------------------------------------------------------------------
(* Types. *)

(* A task that its call leaves well formed.                                *)
GoodTask(task) ==
  /\ task \in Task
  /\ task.call \in {"tree", "restore"} => [snap |-> task.snap, name |-> task.name] \in Archive
  /\ task.call = "archives" => task.snap \in Snapshots
GoodTasks(ts) == ts \in [Slots -> Task] /\ \A t \in Slots : GoodTask(ts[t])

LEMMA TokensHold == 0 \in Tokens
BY AppAssumption, FS_CardinalityType DEF Tokens

LEMMA TaskForms ==
  ASSUME NEW call \in Calls, NEW token \in Tokens, NEW s \in Snapshots \union {None},
         NEW n \in Names \union {None}, NEW id \in Snapshots \union {None},
         NEW path \in Archive \union {None}
  PROVE  /\ Free \in Task /\ Waiting(call) \in Task
         /\ [Waiting(call) EXCEPT !.then = id] \in Task
         /\ Loading(call, token, s, n) \in Task
         /\ [Loading(call, token, s, n) EXCEPT !.path = path] \in Task
BY TokensHold DEF Task, Free, Waiting, Loading, Calls

LEMMA LoadingIs ==
  ASSUME NEW call, NEW token, NEW s, NEW n
  PROVE  /\ Loading(call, token, s, n).call = call
         /\ Loading(call, token, s, n).token = token
         /\ Loading(call, token, s, n).snap = s
         /\ Loading(call, token, s, n).name = n
BY DEF Loading, Waiting, Free

LEMMA WaitingIs ==
  ASSUME NEW call, NEW id
  PROVE  /\ Waiting(call).call = call /\ Free.call = "none"
         /\ [Waiting(call) EXCEPT !.then = id].call = call
BY DEF Waiting, Free

LEMMA RestoringIs ==
  ASSUME NEW token, NEW s, NEW n, NEW path
  PROVE  LET task == [Loading("restore", token, s, n) EXCEPT !.path = path]
         IN task.call = "restore" /\ task.snap = s /\ task.name = n /\ task.path = path
BY DEF Loading, Waiting, Free

LEMMA GoodForms ==
  /\ GoodTask(Free)
  /\ \A call \in {"ping", "login", "command", "list"} : GoodTask(Waiting(call))
  /\ \A id \in Snapshots \union {None} : GoodTask([Waiting("list") EXCEPT !.then = id])
  /\ \A token \in Tokens, s \in Snapshots : GoodTask(Loading("archives", token, s, None))
  /\ \A token \in Tokens, s \in Snapshots, n \in Names : GoodTask(Loading("tree", token, s, n))
  /\ \A s \in Snapshots, n \in Names, path \in Archive \union {None} :
       GoodTask([Loading("restore", 0, s, n) EXCEPT !.path = path])
<1>1. GoodTask(Free)
  BY TokensHold, TaskForms, WaitingIs DEF GoodTask, Calls
<1>2. ASSUME NEW call \in {"ping", "login", "command", "list"} PROVE GoodTask(Waiting(call))
  <2>1. Waiting(call) \in Task
    BY TokensHold, TaskForms DEF Calls
  <2> QED
    BY <2>1, WaitingIs DEF GoodTask
<1>3. ASSUME NEW id \in Snapshots \union {None}
      PROVE  GoodTask([Waiting("list") EXCEPT !.then = id])
  <2>1. [Waiting("list") EXCEPT !.then = id] \in Task
    BY TokensHold, TaskForms DEF Calls
  <2> QED
    BY <2>1, WaitingIs DEF GoodTask
<1>4. ASSUME NEW token \in Tokens, NEW s \in Snapshots
      PROVE  GoodTask(Loading("archives", token, s, None))
  <2>1. Loading("archives", token, s, None) \in Task
    BY TokensHold, TaskForms DEF Calls
  <2> QED
    BY <2>1, LoadingIs DEF GoodTask
<1>5. ASSUME NEW token \in Tokens, NEW s \in Snapshots, NEW n \in Names
      PROVE  GoodTask(Loading("tree", token, s, n))
  <2>1. Loading("tree", token, s, n) \in Task
    BY TokensHold, TaskForms DEF Calls
  <2> QED
    BY <2>1, LoadingIs DEF GoodTask, Archive
<1>6. ASSUME NEW s \in Snapshots, NEW n \in Names, NEW path \in Archive \union {None}
      PROVE  GoodTask([Loading("restore", 0, s, n) EXCEPT !.path = path])
  <2>1. [Loading("restore", 0, s, n) EXCEPT !.path = path] \in Task
    BY TokensHold, TaskForms DEF Calls
  <2> QED
    BY <2>1, RestoringIs DEF GoodTask, Archive
<1> QED
  BY <1>1, <1>2, <1>3, <1>4, <1>5, <1>6

(* What an Await changes.                                                  *)
LEMMA Awaits ==
  ASSUME NEW t \in Slots, NEW task, tasks \in [Slots -> Task], Await(t, task)
  PROVE  /\ tasks'[t] = task /\ \A u \in Slots \ {t} : tasks'[u] = tasks[u]
         /\ GoodTasks(tasks) /\ GoodTask(task) => GoodTasks(tasks')
<1>1. tasks'[t] = task /\ \A u \in Slots \ {t} : tasks'[u] = tasks[u]
  BY DEF Await
<1>2. ASSUME GoodTasks(tasks), GoodTask(task) PROVE GoodTasks(tasks')
  <2>1. tasks' \in [Slots -> Task]
    BY <1>2 DEF Await, GoodTask
  <2>2. \A u \in Slots : GoodTask(tasks'[u])
    BY <1>1, <1>2 DEF GoodTasks
  <2> QED
    BY <2>1, <2>2 DEF GoodTasks
<1> QED
  BY <1>1, <1>2

LEMMA TypeInvSplits ==
  TypeInv => GoodTasks(tasks) /\ tasks \in [Slots -> Task]
BY DEF TypeInv, TypeOK, ArchivesTyped, GoodTasks, GoodTask

(* TypeInv without the tasks.                                              *)
StateTyped ==
  /\ snapshots \subseteq Snapshots
  /\ selectedSnapshotID \in Snapshots \union {None} /\ seen \in Snapshots \union {None}
  /\ archives \in Snapshots \union {None} /\ selectedArchiveID \in Names \union {None}
  /\ tree \in Archive \union {None} /\ focusedNode \in Archive \union {None}
  /\ busy \in BOOLEAN /\ lastError \in BOOLEAN
  /\ connection \in {"unknown", "connecting", "connected", "failed"}
  /\ browseToken \in Tokens
  /\ turn \in Turns \union {None} /\ ahead \subseteq Slots
  /\ sheet \in BOOLEAN

LEMMA TypeInvIs == TypeInv <=> StateTyped /\ GoodTasks(tasks)
BY DEF TypeInv, TypeOK, StateTyped, ArchivesTyped, GoodTasks, GoodTask

LEMMA TypeInvNext == StateTyped' /\ GoodTasks(tasks)' => TypeInv'
BY DEF TypeInv, TypeOK, StateTyped, ArchivesTyped, GoodTasks, GoodTask

(* What the computed properties can be.                                    *)
LEMMA Lookups ==
  ASSUME TypeInv
  PROVE  /\ selectedSnapshot # None =>
              selectedSnapshot = selectedSnapshotID /\ selectedSnapshot \in Snapshots
         /\ \A id \in Names \union {None} : ArchiveAmong(id, archives) # None =>
              ArchiveAmong(id, archives) = id /\ id \in Names /\ archives # None
BY DEF TypeInv, TypeOK, selectedSnapshot, ArchiveAmong, Among

(* The turn that is taken, by its kind.                                    *)
LEMMA TurnTypes ==
  ASSUME TypeInv, turn # None
  PROVE  /\ turn.call = "selectSnapshot" => turn.id \in Snapshots \union {None}
         /\ turn.call = "selectArchive" => turn.id \in Names
         /\ turn.call = "restore" => turn.id \in Archive \union {None}
         /\ turn.call \in {"selectSnapshot", "selectArchive", "restore"}
<1>1. turn \in Turns
  BY DEF TypeInv, TypeOK
<1> QED
  BY <1>1 DEF Turns

LEMMA TurnForms ==
  /\ \A id \in Snapshots \union {None} : Turn("selectSnapshot", id) \in Turns
  /\ \A n \in Names : Turn("selectArchive", n) \in Turns
  /\ \A path \in Archive \union {None} : Turn("restore", path) \in Turns
  /\ \A call, id : Turn(call, id).call = call /\ Turn(call, id).id = id
  /\ \A call, id : Turn(call, id) \in Turns => Turn(call, id) # None
<1>1. /\ \A id \in Snapshots \union {None} : Turn("selectSnapshot", id) \in Turns
      /\ \A n \in Names : Turn("selectArchive", n) \in Turns
  BY DEF Turn, Turns
<1>2. \A path \in Archive \union {None} : Turn("restore", path) \in Turns
  BY DEF Turn, Turns
<1>3. \A call, id : Turn(call, id).call = call /\ Turn(call, id).id = id
  BY DEF Turn
<1>4. \A call, id : Turn(call, id) \in Turns => Turn(call, id) # None
  BY NilAssumption
<1> QED
  BY <1>1, <1>2, <1>3, <1>4

(* selectSnapshot leaves what it sets well typed.                          *)
LEMMA SelectTypes ==
  ASSUME TypeInv, NEW t \in Slots, ~Listing(t), NEW id \in Snapshots \union {None},
         NEW listed, listed \subseteq Snapshots, NEW spinning \in BOOLEAN,
         SelectSnapshot(t, id, listed, spinning)
  PROVE  /\ browseToken' \in Tokens /\ selectedSnapshotID' \in Snapshots \union {None}
         /\ archives' = None /\ selectedArchiveID' = None /\ tree' = None /\ focusedNode' = None
         /\ busy' \in BOOLEAN /\ GoodTasks(tasks')
<1>1. FreshToken \in Tokens
  BY Fresh DEF TypeInv
<1>2. CASE id \in listed
  <2>1. Await(t, Loading("archives", FreshToken, id, None))
    BY <1>2 DEF SelectSnapshot
  <2>2. GoodTask(Loading("archives", FreshToken, id, None))
    BY <1>1, <1>2, GoodForms
  <2>3. GoodTasks(tasks')
    BY <2>1, <2>2, TypeInvSplits, Awaits
  <2> QED
    BY <1>1, <1>2, <2>3 DEF SelectSnapshot, ClearTree
<1>3. CASE id \notin listed
  <2>1. GoodTasks(tasks')
    BY <1>3, GoodForms, TypeInvSplits, Awaits DEF SelectSnapshot, Return
  <2> QED
    BY <1>1, <1>3, <2>1 DEF SelectSnapshot, ClearTree
<1> QED
  BY <1>2, <1>3

LEMMA TypeOfUser ==
  ASSUME TypeInv, User \/ ViewUpdate
  PROVE  TypeInv'
<1> USE DEF StateTyped, browsing
<1>0. StateTyped /\ GoodTasks(tasks) /\ tasks \in [Slots -> Task]
  BY TypeInvIs, TypeInvSplits
<1>1. CASE ClickSnapshot
  <2>1. PICK id \in snapshots \union {None} :
          selectedSnapshotID' = id /\ seen' = id /\ Enqueue("selectSnapshot", id)
    BY <1>1 DEF ClickSnapshot
  <2>2. turn' \in Turns /\ ahead' \subseteq Slots
    BY <1>0, <2>1, TurnForms DEF Enqueue
  <2>3. StateTyped' /\ GoodTasks(tasks)'
    BY <1>0, <1>1, <2>1, <2>2 DEF ClickSnapshot
  <2> QED
    BY <2>3, TypeInvNext
<1>2. CASE PickArchive
  <2>1. PICK n \in Range(ArchivesOf[archives]) \ {selectedArchiveID} :
          Enqueue("selectArchive", n)
    BY <1>2 DEF PickArchive
  <2>2. n \in Names
    <3>1. archives \in Snapshots
      BY <1>0, <1>2 DEF PickArchive
    <3>2. ArchivesOf[archives] \in Seq(Names)
      BY <3>1, AppAssumption
    <3> QED
      BY <2>1, <3>2 DEF Range
  <2>3. turn' \in Turns /\ ahead' \subseteq Slots
    BY <2>1, <2>2, TurnForms DEF Enqueue
  <2>4. StateTyped' /\ GoodTasks(tasks)'
    BY <1>0, <1>2, <2>3 DEF PickArchive
  <2> QED
    BY <2>4, TypeInvNext
<1>3. CASE FocusRow
  <2>1. StateTyped' /\ GoodTasks(tasks)'
    BY <1>0, <1>3 DEF FocusRow
  <2> QED
    BY <2>1, TypeInvNext
<1>4. CASE PressRestore
  <2>1. PICK path \in {focusedNode, None} : Enqueue("restore", path)
    BY <1>4 DEF PressRestore
  <2>2. turn' \in Turns /\ ahead' \subseteq Slots
    BY <1>0, <2>1, TurnForms DEF Enqueue
  <2>3. StateTyped' /\ GoodTasks(tasks)'
    BY <1>0, <1>4, <2>2 DEF PressRestore
  <2> QED
    BY <2>3, TypeInvNext
<1>5. CASE DismissAlert \/ OpenSheet \/ CloseSheet
  <2>1. StateTyped' /\ GoodTasks(tasks)'
    BY <1>0, <1>5 DEF DismissAlert, OpenSheet, CloseSheet
  <2> QED
    BY <2>1, TypeInvNext
<1>6. ASSUME NEW t \in Slots, Refresh(t) PROVE TypeInv'
  <2>1. PICK link \in Snapshots \union {None} : LoadSnapshots(t, link)
    BY <1>6 DEF Refresh
  <2>2. GoodTasks(tasks')
    BY <1>0, <2>1, GoodForms, Awaits DEF LoadSnapshots
  <2>3. StateTyped' /\ GoodTasks(tasks)'
    BY <1>0, <1>6, <2>1, <2>2 DEF Refresh, LoadSnapshots
  <2> QED
    BY <2>3, TypeInvNext
<1>7. ASSUME NEW t \in Slots, Connect(t) PROVE TypeInv'
  <2>1. GoodTasks(tasks')
    BY <1>0, <1>7, GoodForms, Awaits DEF Connect
  <2>2. StateTyped' /\ GoodTasks(tasks)'
    BY <1>0, <1>7, <2>1 DEF Connect
  <2> QED
    BY <2>2, TypeInvNext
<1>8. ASSUME NEW t \in Slots, RunPbmac(t) PROVE TypeInv'
  <2>1. PICK call \in {"login", "command"} : Await(t, Waiting(call))
    BY <1>8 DEF RunPbmac
  <2>2. GoodTasks(tasks')
    BY <1>0, <2>1, GoodForms, Awaits
  <2>3. StateTyped' /\ GoodTasks(tasks)'
    BY <1>0, <1>8, <2>2 DEF RunPbmac
  <2> QED
    BY <2>3, TypeInvNext
<1>9. CASE ViewUpdate
  <2>1. turn' \in Turns /\ ahead' \subseteq Slots
    BY <1>0, <1>9, TurnForms DEF ViewUpdate, Enqueue
  <2>2. StateTyped' /\ GoodTasks(tasks)'
    BY <1>0, <1>9, <2>1 DEF ViewUpdate
  <2> QED
    BY <2>2, TypeInvNext
<1> QED
  BY <1>1, <1>2, <1>3, <1>4, <1>5, <1>6, <1>7, <1>8, <1>9 DEF User

LEMMA TypeOfTurn ==
  ASSUME TypeInv, NEW t \in Slots, RunTurn(t)
  PROVE  TypeInv'
<1> USE DEF StateTyped, browsing
<1>0. StateTyped /\ GoodTasks(tasks) /\ tasks \in [Slots -> Task] /\ TypeOK
  BY TypeInvIs, TypeInvSplits DEF TypeInv
<1>1. CASE TurnSelectSnapshot(t)
  <2>1. ~Listing(t)
    BY <1>1 DEF TurnSelectSnapshot, Idle, Listing, Free
  <2>2. turn.id \in Snapshots \union {None}
    BY <1>1, TurnTypes DEF TurnSelectSnapshot
  <2>3. SelectSnapshot(t, turn.id, snapshots, busy)
    BY <1>1 DEF TurnSelectSnapshot
  <2>4. /\ browseToken' \in Tokens /\ selectedSnapshotID' \in Snapshots \union {None}
        /\ archives' = None /\ selectedArchiveID' = None /\ tree' = None /\ focusedNode' = None
        /\ busy' \in BOOLEAN /\ GoodTasks(tasks')
    BY <1>0, <2>1, <2>2, <2>3, SelectTypes
  <2>5. StateTyped' /\ GoodTasks(tasks)'
    BY <1>0, <1>1, <2>4 DEF TurnSelectSnapshot
  <2> QED
    BY <2>5, TypeInvNext
<1>2. CASE TurnSelectArchive(t)
  <2> DEFINE n == ArchiveAmong(turn.id, archives)
  <2>1. ~Listing(t)
    BY <1>2 DEF TurnSelectArchive, Idle, Listing, Free
  <2>2. FreshToken \in Tokens /\ turn.id \in Names
    BY <1>0, <1>2, <2>1, Fresh, TurnTypes DEF TurnSelectArchive
  <2>3. busy' \in BOOLEAN /\ GoodTasks(tasks')
    <3>1. CASE Browses(selectedSnapshot, n)
      <4>1. selectedSnapshot \in Snapshots /\ n \in Names
        BY <3>1, Lookups, AppAssumption DEF Browses
      <4>2. busy' = TRUE /\ Await(t, Loading("tree", FreshToken, selectedSnapshot, n))
        BY <1>2, <3>1 DEF TurnSelectArchive, LoadTree
      <4>3. GoodTask(Loading("tree", FreshToken, selectedSnapshot, n))
        BY <4>1, <2>2, GoodForms
      <4> QED
        BY <1>0, <4>2, <4>3, Awaits
    <3>2. CASE ~Browses(selectedSnapshot, n)
      BY <1>0, <1>2, <3>2 DEF TurnSelectArchive
    <3> QED
      BY <3>1, <3>2
  <2>4. StateTyped' /\ GoodTasks(tasks)'
    BY <1>0, <1>2, <2>2, <2>3 DEF TurnSelectArchive, ClearTree
  <2> QED
    BY <2>4, TypeInvNext
<1>3. CASE TurnRestore(t)
  <2>1. turn.id \in Archive \union {None}
    BY <1>3, TurnTypes DEF TurnRestore
  <2>2. lastError' \in BOOLEAN /\ GoodTasks(tasks')
    <3>1. CASE selectedSnapshot # None /\ selectedArchive # None
      <4>1. selectedSnapshot \in Snapshots /\ selectedArchive \in Names
        BY <1>0, <3>1, Lookups DEF selectedArchive
      <4>2. /\ Await(t, [Loading("restore", 0, selectedSnapshot, selectedArchive)
                          EXCEPT !.path = turn.id])
            /\ lastError' = lastError
        BY <1>3, <3>1 DEF TurnRestore
      <4>3. GoodTask([Loading("restore", 0, selectedSnapshot, selectedArchive)
                       EXCEPT !.path = turn.id])
        BY <4>1, <2>1, GoodForms
      <4> QED
        BY <1>0, <4>2, <4>3, Awaits
    <3>2. CASE ~(selectedSnapshot # None /\ selectedArchive # None)
      BY <1>0, <1>3, <3>2 DEF TurnRestore
    <3> QED
      BY <3>1, <3>2
  <2>3. StateTyped' /\ GoodTasks(tasks)'
    BY <1>0, <1>3, <2>2 DEF TurnRestore
  <2> QED
    BY <2>3, TypeInvNext
<1> QED
  BY <1>1, <1>2, <1>3 DEF RunTurn

LEMMA TypeOfResume ==
  ASSUME TypeInv, NEW t \in Slots, Resume(t)
  PROVE  TypeInv'
<1> USE DEF StateTyped, browsing
<1>0. /\ StateTyped /\ GoodTasks(tasks) /\ tasks \in [Slots -> Task] /\ TypeOK
      /\ GoodTask(tasks[t]) /\ tasks[t] \in Task
  BY TypeInvIs, TypeInvSplits DEF TypeInv, GoodTasks
<1>1. ahead' \subseteq Slots
  BY <1>0 DEF Resume
<1>2. CASE LoginDone(t)
  <2>1. connection' \in {"connecting", "failed"} /\ GoodTasks(tasks')
    BY <1>0, <1>2, GoodForms, Awaits DEF LoginDone, Return
  <2>2. StateTyped' /\ GoodTasks(tasks)'
    BY <1>0, <1>1, <1>2, <2>1 DEF LoginDone
  <2> QED
    BY <2>2, TypeInvNext
<1>3. CASE PingDone(t)
  <2>1. /\ connection' \in {"connected", "failed"} /\ busy' \in BOOLEAN
        /\ GoodTasks(tasks')
    BY <1>0, <1>3, GoodForms, Awaits DEF PingDone, LoadSnapshots, Return
  <2>2. StateTyped' /\ GoodTasks(tasks)'
    BY <1>0, <1>1, <1>3, <2>1 DEF PingDone
  <2> QED
    BY <2>2, TypeInvNext
<1>4. CASE CommandDone(t)
  <2>1. /\ busy' \in BOOLEAN /\ lastError' \in BOOLEAN
        /\ GoodTasks(tasks')
    BY <1>0, <1>4, GoodForms, Awaits DEF CommandDone, LoadSnapshots, Return
  <2>2. StateTyped' /\ GoodTasks(tasks)'
    BY <1>0, <1>1, <1>4, <2>1 DEF CommandDone
  <2> QED
    BY <2>2, TypeInvNext
<1>5. CASE RestoreDone(t)
  <2>1. GoodTasks(tasks')
    BY <1>0, <1>5, GoodForms, Awaits DEF RestoreDone, Return
  <2>2. /\ lastError' \in BOOLEAN
        /\ UNCHANGED <<snapshots, selectedSnapshotID, browsing, busy, connection, browseToken,
                      turn, seen, sheet>>
    BY <1>0, <1>5 DEF RestoreDone
  <2>3. StateTyped' /\ GoodTasks(tasks)'
    BY <1>0, <1>1, <2>1, <2>2
  <2> QED
    BY <2>3, TypeInvNext
<1>6. CASE ListDone(t)
  <2>1. snapshots' \subseteq Snapshots /\ lastError' \in BOOLEAN
    BY <1>0, <1>6, AppAssumption DEF ListDone
  <2>2. CASE tasks[t].then = None
    <3>1. GoodTasks(tasks')
      BY <1>0, <1>6, <2>2, GoodForms, Awaits DEF ListDone, Return
    <3>2. StateTyped' /\ GoodTasks(tasks)'
      BY <1>0, <1>1, <1>6, <2>1, <2>2, <3>1 DEF ListDone
    <3> QED
      BY <3>2, TypeInvNext
  <2>3. CASE tasks[t].then # None
    <3>1. SelectSnapshot(t, tasks[t].then, snapshots', FALSE)
      BY <1>6, <2>3 DEF ListDone
    <3>2. ~Listing(t) /\ tasks[t].then \in Snapshots \union {None}
      BY <1>0, <1>6 DEF ListDone, Listing, Task
    <3>3. /\ browseToken' \in Tokens /\ selectedSnapshotID' \in Snapshots \union {None}
          /\ archives' = None /\ selectedArchiveID' = None /\ tree' = None
          /\ focusedNode' = None /\ busy' \in BOOLEAN /\ GoodTasks(tasks')
      BY <2>1, <3>1, <3>2, SelectTypes
    <3>4. StateTyped' /\ GoodTasks(tasks)'
      BY <1>0, <1>1, <1>6, <2>1, <3>3 DEF ListDone
    <3> QED
      BY <3>4, TypeInvNext
  <2> QED
    BY <2>2, <2>3
<1>7. CASE ArchivesDone(t)
  <2>1. tasks[t].snap \in Snapshots /\ tasks[t].token \in Tokens
    BY <1>0, <1>7 DEF ArchivesDone, GoodTask, Task
  <2>2. DefaultArchive(tasks[t].snap) \in Names \union {None}
    BY <2>1, DefaultArchiveType
  <2>3. /\ archives' \in Snapshots \union {None} /\ selectedArchiveID' \in Names \union {None}
        /\ lastError' \in BOOLEAN
    BY <1>0, <1>7, <2>1, <2>2 DEF ArchivesDone
  <2>4. busy' \in BOOLEAN /\ GoodTasks(tasks')
    <3>1. CASE Return(t) /\ busy' \in BOOLEAN
      BY <1>0, <3>1, GoodForms, Awaits DEF Return
    <3>2. CASE /\ selectedArchiveID' = DefaultArchive(tasks[t].snap)
               /\ Browses(selectedSnapshot, selectedArchiveID')
               /\ LoadTree(t, tasks[t].token, selectedSnapshot, selectedArchiveID')
      <4>1. selectedSnapshot \in Snapshots /\ selectedArchiveID' \in Names
        BY <3>2, Lookups, AppAssumption DEF Browses
      <4>2. GoodTask(Loading("tree", tasks[t].token, selectedSnapshot, selectedArchiveID'))
        BY <2>1, <4>1, GoodForms
      <4> QED
        BY <1>0, <3>2, <4>2, Awaits DEF LoadTree
    <3> QED
      BY <1>0, <1>7, <3>1, <3>2 DEF ArchivesDone
  <2>5. /\ busy' \in BOOLEAN /\ lastError' \in BOOLEAN
        /\ UNCHANGED <<snapshots, selectedSnapshotID, tree, focusedNode, connection,
                      browseToken, turn, seen, sheet>>
    BY <1>0, <1>7 DEF ArchivesDone, LoadTree
  <2>6. StateTyped' /\ GoodTasks(tasks)'
    BY <1>0, <1>1, <2>3, <2>4, <2>5
  <2> QED
    BY <2>6, TypeInvNext
<1>8. CASE TreeDone(t)
  <2>1. GoodTasks(tasks')
    BY <1>0, <1>8, GoodForms, Awaits DEF TreeDone, Return
  <2>2. [snap |-> tasks[t].snap, name |-> tasks[t].name] \in Archive
    BY <1>0, <1>8 DEF TreeDone, GoodTask
  <2>3. /\ tree' \in Archive \union {None} /\ busy' \in BOOLEAN /\ lastError' \in BOOLEAN
        /\ UNCHANGED <<snapshots, selectedSnapshotID, archives, selectedArchiveID, focusedNode,
                      connection, browseToken, turn, seen, sheet>>
    BY <1>0, <1>8, <2>2 DEF TreeDone
  <2>4. StateTyped' /\ GoodTasks(tasks)'
    BY <1>0, <1>1, <2>1, <2>3
  <2> QED
    BY <2>4, TypeInvNext
<1> QED
  BY <1>2, <1>3, <1>4, <1>5, <1>6, <1>7, <1>8 DEF Resume

LEMMA TypeStep ==
  ASSUME TypeInv, [Next]_vars
  PROVE  TypeInv'
<1>1. CASE UNCHANGED vars
  BY <1>1 DEF TypeInv, TypeOK, ArchivesTyped, vars, browsing
<1> QED
  BY <1>1, TypeOfUser, TypeOfTurn, TypeOfResume DEF Next

LEMMA TypeInit == Init => TypeInv
<1> SUFFICES ASSUME Init PROVE TypeInv
  OBVIOUS
<1>1. GoodTasks(tasks)
  <2>1. GoodTask(Free)
    BY GoodForms
  <2> QED
    BY <2>1 DEF Init, GoodTasks, GoodTask
<1>2. StateTyped
  BY TokensHold DEF Init, StateTyped
<1> QED
  BY <1>1, <1>2, TypeInvIs

LEMMA AlwaysTyped == Spec => []TypeInv
BY TypeInit, TypeStep, PTL DEF Spec

(* Every variable of the app keeps to its values: what an async function   *)
(* stores when it resumes is what the types of AppModel.swift say.         *)
THEOREM TypeCorrect == Spec => []TypeOK
<1>1. TypeInv => TypeOK
  BY DEF TypeInv
<1> QED
  BY <1>1, AlwaysTyped, PTL
-----------------------------------------------------------------------------
(* What a step may do to the browser.  Loads names the calls whose results *)
(* a browser or the restore sheet is waiting for.                          *)

Loads == {"archives", "tree", "restore"}
Kept(ts) == \A u \in ts : tasks'[u].call \in Loads => tasks'[u] = tasks[u]

(* Nothing that the browser shows or is waiting for changes.               *)
Quiet ==
  /\ UNCHANGED <<browsing, browseToken>> /\ Kept(Slots)
  /\ Settled' => Settled /\ selectedSnapshotID' = selectedSnapshotID

(* The selection in the sidebar, and in the picker, is replaced.           *)
Selects(t, id) ==
  /\ ~Listing(t) /\ browseToken' = FreshToken
  /\ selectedSnapshotID' = id /\ archives' = None /\ selectedArchiveID' = None /\ ClearTree
  /\ Kept(Slots \ {t})
  /\ tasks'[t].call \in Loads => tasks'[t] = Loading("archives", FreshToken, id, None)
Picks(t) ==
  /\ ~Listing(t) /\ browseToken' = FreshToken
  /\ UNCHANGED <<selectedSnapshotID, archives>> /\ ClearTree
  /\ Kept(Slots \ {t})
  /\ tasks'[t].call \in Loads =>
       tasks'[t] = Loading("tree", FreshToken, selectedSnapshotID, selectedArchiveID')
  /\ Settled' => Settled

(* The archives of the selection, or the files of the archive, arrive.     *)
Lists(t) ==
  /\ tasks[t].call = "archives" /\ Current(t)
  /\ archives' = tasks[t].snap
  /\ UNCHANGED <<selectedSnapshotID, tree, focusedNode, browseToken>>
  /\ Kept(Slots \ {t})
  /\ tasks'[t].call \in Loads =>
       tasks'[t] = Loading("tree", tasks[t].token, selectedSnapshotID, selectedArchiveID')
  /\ Settled' => Settled
Shows(t) ==
  /\ tasks[t].call = "tree" /\ Current(t)
  /\ tree' = [snap |-> tasks[t].snap, name |-> tasks[t].name]
  /\ UNCHANGED <<selectedSnapshotID, archives, selectedArchiveID, focusedNode, browseToken>>
  /\ Kept(Slots \ {t}) /\ tasks'[t].call \notin Loads
  /\ Settled' => Settled

(* A restore starts, of what is selected.                                  *)
Restores(t) ==
  /\ turn # None /\ turn.call = "restore"
  /\ UNCHANGED <<browsing, browseToken, selectedSnapshotID>>
  /\ Kept(Slots \ {t})
  /\ tasks'[t].call \in Loads =>
       /\ tasks'[t].call = "restore" /\ selectedArchiveID # None
       /\ tasks'[t].snap = selectedSnapshotID /\ tasks'[t].name = selectedArchiveID
       /\ tasks'[t].path = turn.id
  /\ Settled' => Settled

LEMMA AwaitKeeps ==
  ASSUME TypeInv, NEW t \in Slots, NEW task, Await(t, task)
  PROVE  /\ Kept(Slots \ {t}) /\ tasks'[t] = task
         /\ task.call \notin Loads => Kept(Slots)
BY TypeInvSplits, Awaits DEF Kept

LEMMA QuietCalls ==
  /\ Free.call \notin Loads
  /\ \A call \in {"ping", "login", "command", "list"} : Waiting(call).call \notin Loads
  /\ \A id : [Waiting("list") EXCEPT !.then = id].call \notin Loads
BY DEF Free, Waiting, Loads

LEMMA SelectShape ==
  ASSUME TypeInv, NEW t \in Slots, ~Listing(t), NEW id, NEW listed, NEW spinning,
         SelectSnapshot(t, id, listed, spinning)
  PROVE  Selects(t, id)
<1>1. CASE id \in listed
  <2>1. Await(t, Loading("archives", FreshToken, id, None))
    BY <1>1 DEF SelectSnapshot
  <2> QED
    BY <2>1, AwaitKeeps DEF SelectSnapshot, Selects
<1>2. CASE id \notin listed
  <2>1. Await(t, Free)
    BY <1>2 DEF SelectSnapshot, Return
  <2> QED
    BY <2>1, AwaitKeeps, QuietCalls DEF SelectSnapshot, Selects
<1> QED
  BY <1>1, <1>2

(* What the user and SwiftUI set off disturbs nothing by itself.           *)
LEMMA UserShape ==
  ASSUME TypeInv, User \/ ViewUpdate
  PROVE  Quiet \/ FocusRow
<1> USE DEF Quiet, browsing
<1>1. CASE ClickSnapshot
  <2>1. PICK id \in snapshots \union {None} : Enqueue("selectSnapshot", id)
    BY <1>1 DEF ClickSnapshot
  <2>2. turn' # None /\ turn'.call = "selectSnapshot"
    BY <2>1, TurnForms DEF Enqueue, TypeInv, TypeOK
  <2>3. UNCHANGED <<browsing, browseToken, tasks>>
    BY <1>1 DEF ClickSnapshot
  <2> QED
    BY <2>2, <2>3 DEF Kept, Settled
<1>2. CASE PickArchive
  BY <1>2 DEF PickArchive, Kept, Settled, Event
<1>3. CASE PressRestore
  BY <1>3 DEF PressRestore, Kept, Settled, Event
<1>4. CASE DismissAlert \/ OpenSheet \/ CloseSheet
  BY <1>4 DEF DismissAlert, OpenSheet, CloseSheet, Kept, Settled
<1>5. ASSUME NEW t \in Slots, Refresh(t) PROVE Quiet
  <2>1. PICK link \in Snapshots \union {None} : LoadSnapshots(t, link)
    BY <1>5 DEF Refresh
  <2>2. Kept(Slots)
    BY <2>1, AwaitKeeps, QuietCalls DEF LoadSnapshots
  <2> QED
    BY <1>5, <2>2 DEF Refresh, Settled
<1>6. ASSUME NEW t \in Slots, Connect(t) PROVE Quiet
  <2>1. Kept(Slots)
    BY <1>6, AwaitKeeps, QuietCalls DEF Connect
  <2> QED
    BY <1>6, <2>1 DEF Connect, Settled
<1>7. ASSUME NEW t \in Slots, RunPbmac(t) PROVE Quiet
  <2>1. Kept(Slots)
    BY <1>7, AwaitKeeps, QuietCalls DEF RunPbmac
  <2> QED
    BY <1>7, <2>1 DEF RunPbmac, Settled
<1>8. CASE ViewUpdate
  <2>1. turn' # None /\ turn'.call = "selectSnapshot"
    BY <1>8, TurnForms DEF ViewUpdate, Enqueue, TypeInv, TypeOK
  <2>2. UNCHANGED <<browsing, browseToken, tasks>>
    BY <1>8 DEF ViewUpdate
  <2> QED
    BY <2>1, <2>2 DEF Kept, Settled
<1> QED
  BY <1>1, <1>2, <1>3, <1>4, <1>5, <1>6, <1>7, <1>8 DEF User

LEMMA TurnShape ==
  ASSUME TypeInv, NEW t \in Slots, RunTurn(t)
  PROVE  Selects(t, turn.id) \/ Picks(t) \/ Restores(t)
<1>1. Idle(t) => ~Listing(t) /\ tasks[t].call \notin Loads
  BY DEF Idle, Listing, Free, Loads
<1>2. CASE TurnSelectSnapshot(t)
  <2>1. SelectSnapshot(t, turn.id, snapshots, busy) /\ ~Listing(t)
    BY <1>1, <1>2 DEF TurnSelectSnapshot
  <2> QED
    BY <2>1, SelectShape
<1>3. CASE TurnSelectArchive(t)
  <2> DEFINE n == ArchiveAmong(turn.id, archives)
  <2>1. CASE Browses(selectedSnapshot, n)
    <3>1. turn.id \in Names
      BY <1>3, TurnTypes DEF TurnSelectArchive
    <3>2. n # None
      BY <2>1, AppAssumption DEF Browses
    <3>3. n = selectedArchiveID' /\ selectedSnapshot = selectedSnapshotID
      BY <1>3, <2>1, <3>1, <3>2, Lookups DEF Browses, TurnSelectArchive
    <3>4. Await(t, Loading("tree", FreshToken, selectedSnapshotID, selectedArchiveID'))
      BY <1>3, <2>1, <3>3 DEF TurnSelectArchive, LoadTree
    <3>5. /\ Kept(Slots \ {t})
          /\ tasks'[t] = Loading("tree", FreshToken, selectedSnapshotID, selectedArchiveID')
      BY <3>4, AwaitKeeps
    <3> QED
      BY <1>1, <1>3, <3>5 DEF TurnSelectArchive, Picks, Settled
  <2>2. CASE ~Browses(selectedSnapshot, n)
    <3>1. tasks' = tasks
      BY <1>3, <2>2 DEF TurnSelectArchive
    <3> QED
      BY <1>1, <1>3, <3>1 DEF TurnSelectArchive, Picks, Kept, Settled
  <2> QED
    BY <2>1, <2>2
<1>4. CASE TurnRestore(t)
  <2> DEFINE task == [Loading("restore", 0, selectedSnapshot, selectedArchive)
                       EXCEPT !.path = turn.id]
  <2>1. CASE selectedSnapshot # None /\ selectedArchive # None
    <3>1. Await(t, task)
      BY <1>4, <2>1 DEF TurnRestore
    <3>2. Kept(Slots \ {t}) /\ tasks'[t] = task
      <4> HIDE DEF task
      <4> QED
        BY <3>1, AwaitKeeps
    <3>3. /\ task.call = "restore" /\ task.path = turn.id
          /\ task.snap = selectedSnapshot /\ task.name = selectedArchive
      BY RestoringIs
    <3>4. selectedArchiveID \in Names \union {None}
      BY DEF TypeInv, TypeOK
    <3>5. /\ selectedSnapshot = selectedSnapshotID /\ selectedArchive = selectedArchiveID
          /\ selectedArchiveID # None
      BY <2>1, <3>4, Lookups DEF selectedArchive
    <3> HIDE DEF task
    <3> QED
      BY <1>4, <3>2, <3>3, <3>5 DEF TurnRestore, Restores, Settled
  <2>2. CASE ~(selectedSnapshot # None /\ selectedArchive # None)
    <3>1. tasks' = tasks
      BY <1>4, <2>2 DEF TurnRestore
    <3> QED
      BY <1>1, <1>4, <3>1 DEF TurnRestore, Restores, Kept, Settled
  <2> QED
    BY <2>1, <2>2
<1> QED
  BY <1>2, <1>3, <1>4 DEF RunTurn

LEMMA ResumeShape ==
  ASSUME TypeInv, NEW t \in Slots, Resume(t)
  PROVE  Quiet \/ Selects(t, tasks[t].then) \/ Lists(t) \/ Shows(t)
<1> USE DEF Quiet, browsing
<1>0. /\ Return(t) => Kept(Slots) /\ Kept(Slots \ {t}) /\ tasks'[t].call \notin Loads
      /\ \A call \in {"ping", "login", "command", "list"} : Await(t, Waiting(call)) => Kept(Slots)
      /\ \A link : LoadSnapshots(t, link) => Kept(Slots)
  BY AwaitKeeps, QuietCalls DEF Return, LoadSnapshots
<1>1. CASE LoginDone(t)
  BY <1>0, <1>1 DEF LoginDone, Settled
<1>2. CASE PingDone(t)
  BY <1>0, <1>2 DEF PingDone, Settled
<1>3. CASE CommandDone(t)
  BY <1>0, <1>3 DEF CommandDone, Settled
<1>4. CASE RestoreDone(t)
  BY <1>0, <1>4 DEF RestoreDone, Settled
<1>5. CASE ListDone(t)
  <2>1. CASE tasks[t].then = None
    BY <1>0, <1>5, <2>1 DEF ListDone, Settled
  <2>2. CASE tasks[t].then # None
    <3>1. SelectSnapshot(t, tasks[t].then, snapshots', FALSE) /\ ~Listing(t)
      BY <1>5, <2>2 DEF ListDone, Listing
    <3> QED
      BY <3>1, SelectShape
  <2> QED
    BY <2>1, <2>2
<1>6. CASE ArchivesDone(t)
  <2>1. CASE archives' = archives /\ selectedArchiveID' = selectedArchiveID /\ Return(t)
    BY <1>0, <1>6, <2>1 DEF ArchivesDone, Settled
  <2>2. CASE Current(t) /\ archives' = tasks[t].snap /\ Return(t)
    BY <1>0, <1>6, <2>2 DEF ArchivesDone, Lists, Settled
  <2>3. CASE /\ Current(t) /\ archives' = tasks[t].snap
             /\ Browses(selectedSnapshot, selectedArchiveID')
             /\ LoadTree(t, tasks[t].token, selectedSnapshot, selectedArchiveID')
    <3>1. selectedSnapshot = selectedSnapshotID
      BY <2>3, Lookups DEF Browses
    <3>2. Await(t, Loading("tree", tasks[t].token, selectedSnapshotID, selectedArchiveID'))
      BY <2>3, <3>1 DEF LoadTree
    <3>3. /\ Kept(Slots \ {t})
          /\ tasks'[t] = Loading("tree", tasks[t].token, selectedSnapshotID, selectedArchiveID')
      BY <3>2, AwaitKeeps
    <3> QED
      BY <1>6, <2>3, <3>3 DEF ArchivesDone, Lists, Settled
  <2> QED
    BY <1>6, <2>1, <2>2, <2>3 DEF ArchivesDone
<1>7. CASE TreeDone(t)
  <2>1. CASE tree' = tree
    BY <1>0, <1>7, <2>1 DEF TreeDone, Settled
  <2>2. CASE tree' # tree
    BY <1>0, <1>7, <2>2 DEF TreeDone, Shows, Settled
  <2> QED
    BY <2>1, <2>2
<1> QED
  BY <1>1, <1>2, <1>3, <1>4, <1>5, <1>6, <1>7 DEF Resume

(* Every step, by what it does to the browser.                             *)
LEMMA StepShape ==
  ASSUME TypeInv, [Next]_vars
  PROVE  \/ Quiet \/ FocusRow
         \/ \E t \in Slots : \/ \E id : Selects(t, id)
                             \/ Picks(t) \/ Restores(t) \/ Lists(t) \/ Shows(t)
<1>1. CASE UNCHANGED vars
  BY <1>1 DEF vars, Quiet, Kept, Settled
<1>2. CASE User \/ ViewUpdate
  BY <1>2, UserShape
<1>3. ASSUME NEW t \in Slots, RunTurn(t)
      PROVE  Selects(t, turn.id) \/ Picks(t) \/ Restores(t)
  BY <1>3, TurnShape
<1>4. ASSUME NEW t \in Slots, Resume(t)
      PROVE  Quiet \/ Selects(t, tasks[t].then) \/ Lists(t) \/ Shows(t)
  BY <1>4, ResumeShape
<1> QED
  BY <1>1, <1>2, <1>3, <1>4 DEF Next
-----------------------------------------------------------------------------
(* The browser and the selection. *)

(* Of the listings under way, only the one that a selection starts is      *)
(* current after it.                                                       *)
LEMMA NewSelection ==
  ASSUME TypeInv, NEW t \in Slots, ~Listing(t), browseToken' = FreshToken, Kept(Slots \ {t})
  PROVE  \A u \in Slots \ {t} : ~(Listing(u)' /\ Current(u)')
<1>1. \A u \in Slots : Listing(u) => tasks[u].token # FreshToken
  BY Fresh DEF TypeInv
<1> QED
  BY <1>1 DEF Kept, Loads, Listing, Current

(* While the token stays, a listing that is current was so before.         *)
LEMMA SameSelection ==
  ASSUME TypeInv, browseToken' = browseToken, NEW ts \in SUBSET Slots, Kept(ts)
  PROVE  \A u \in ts : Listing(u)' /\ Current(u)' =>
           Listing(u) /\ Current(u) /\ tasks'[u] = tasks[u]
BY DEF Kept, Loads, Listing, Current

LEMMA OneListingStep ==
  ASSUME TypeInv, OneListing, [Next]_vars
  PROVE  OneListing'
<1> DEFINE Live(u) == Listing(u) /\ Current(u)
<1>1. SUFFICES ASSUME NEW u \in Slots, NEW v \in Slots, Live(u)', Live(v)' PROVE u = v
  BY DEF OneListing
<1>2. CASE Quiet \/ FocusRow
  <2>1. browseToken' = browseToken /\ Kept(Slots)
    BY <1>2 DEF Quiet, FocusRow, Kept
  <2>2. Live(u) /\ Live(v)
    BY <1>1, <2>1, SameSelection
  <2> QED
    BY <2>2 DEF OneListing
<1>3. ASSUME NEW t \in Slots, NEW id, Selects(t, id) \/ Picks(t) PROVE u = v
  BY <1>1, <1>3, NewSelection DEF Selects, Picks
<1>4. ASSUME NEW t \in Slots, Restores(t) PROVE u = v
  <2>1. browseToken' = browseToken /\ Kept(Slots \ {t}) /\ ~Listing(t)'
    BY <1>4 DEF Restores, Listing, Loads
  <2>2. Live(u) /\ Live(v)
    BY <1>1, <2>1, SameSelection
  <2> QED
    BY <2>2 DEF OneListing
<1>5. ASSUME NEW t \in Slots, Lists(t) \/ Shows(t) PROVE u = v
  <2>1. browseToken' = browseToken /\ Kept(Slots \ {t}) /\ Live(t)
    BY <1>5 DEF Lists, Shows, Listing
  <2>2. (u # t => Live(u)) /\ (v # t => Live(v))
    BY <1>1, <2>1, SameSelection
  <2> QED
    BY <2>1, <2>2 DEF OneListing
<1> QED
  BY <1>2, <1>3, <1>4, <1>5, StepShape

(* A listing of archives for the current selection has nothing shown yet,  *)
(* and a listing that is current is of what is selected.                   *)
ListingCleared ==
  \A t \in Slots : tasks[t].call = "archives" /\ Current(t) => tree = None /\ focusedNode = None
LoadsSelection ==
  Settled => \A t \in Slots : Listing(t) /\ Current(t) =>
    /\ tasks[t].snap = selectedSnapshotID
    /\ tasks[t].call = "tree" => tasks[t].name = selectedArchiveID
BrowserInv ==
  TypeInv /\ OneListing /\ ListingCleared /\ LoadsSelection /\ BrowserMatchesSelection

LEMMA BrowserQuiet ==
  ASSUME BrowserInv, Quiet
  PROVE  ListingCleared' /\ LoadsSelection' /\ BrowserMatchesSelection'
<1>1. /\ browseToken' = browseToken /\ Kept(Slots)
      /\ UNCHANGED <<archives, selectedArchiveID, tree, focusedNode>>
      /\ Settled' => Settled /\ selectedSnapshotID' = selectedSnapshotID
  BY DEF Quiet, browsing
<1>2. \A u \in Slots : Listing(u)' /\ Current(u)' =>
        Listing(u) /\ Current(u) /\ tasks'[u] = tasks[u]
  BY <1>1, SameSelection DEF BrowserInv
<1>3. ListingCleared'
  BY <1>1, <1>2 DEF BrowserInv, ListingCleared, Listing
<1>4. LoadsSelection'
  BY <1>1, <1>2 DEF BrowserInv, LoadsSelection
<1>5. BrowserMatchesSelection'
  BY <1>1 DEF BrowserInv, BrowserMatchesSelection
<1> QED
  BY <1>3, <1>4, <1>5

(* A focused row is one of the tree that is shown.                         *)
LEMMA BrowserFocus ==
  ASSUME BrowserInv, FocusRow
  PROVE  ListingCleared' /\ LoadsSelection' /\ BrowserMatchesSelection'
<1>1. /\ UNCHANGED <<selectedSnapshotID, archives, selectedArchiveID, tree, browseToken, tasks,
                     turn, seen>>
      /\ tree # None /\ focusedNode' = tree
  BY DEF FocusRow
<1>2. ListingCleared'
  BY <1>1 DEF BrowserInv, ListingCleared, Current
<1>3. LoadsSelection'
  BY <1>1 DEF BrowserInv, LoadsSelection, Settled, Listing, Current
<1>4. BrowserMatchesSelection'
  BY <1>1 DEF BrowserInv, BrowserMatchesSelection, Settled
<1> QED
  BY <1>2, <1>3, <1>4

LEMMA BrowserSelects ==
  ASSUME BrowserInv, NEW t \in Slots, NEW id, Selects(t, id)
  PROVE  ListingCleared' /\ LoadsSelection' /\ BrowserMatchesSelection'
<1>1. \A u \in Slots \ {t} : ~(Listing(u)' /\ Current(u)')
  BY NewSelection DEF BrowserInv, Selects
<1>2. /\ tree' = None /\ focusedNode' = None /\ archives' = None
      /\ selectedSnapshotID' = id
  BY DEF Selects, ClearTree
<1>3. Listing(t)' => tasks'[t].call = "archives" /\ tasks'[t].snap = id
  BY LoadingIs DEF Selects, Listing, Loads
<1>4. LoadsSelection'
  BY <1>1, <1>2, <1>3 DEF LoadsSelection
<1> QED
  BY <1>2, <1>4 DEF ListingCleared, BrowserMatchesSelection

LEMMA BrowserPicks ==
  ASSUME BrowserInv, NEW t \in Slots, Picks(t)
  PROVE  ListingCleared' /\ LoadsSelection' /\ BrowserMatchesSelection'
<1>1. \A u \in Slots \ {t} : ~(Listing(u)' /\ Current(u)')
  BY NewSelection DEF BrowserInv, Picks
<1>2. /\ tree' = None /\ focusedNode' = None
      /\ UNCHANGED <<archives, selectedSnapshotID>>
      /\ Settled' => Settled
  BY DEF Picks, ClearTree
<1>3. Listing(t)' => /\ tasks'[t].call = "tree" /\ tasks'[t].snap = selectedSnapshotID
                     /\ tasks'[t].name = selectedArchiveID'
  BY LoadingIs DEF Picks, Listing, Loads
<1>4. LoadsSelection'
  BY <1>1, <1>2, <1>3 DEF LoadsSelection
<1> QED
  BY <1>2, <1>4 DEF BrowserInv, ListingCleared, BrowserMatchesSelection

LEMMA BrowserRestores ==
  ASSUME BrowserInv, NEW t \in Slots, Restores(t)
  PROVE  ListingCleared' /\ LoadsSelection' /\ BrowserMatchesSelection'
<1>1. /\ browseToken' = browseToken /\ Kept(Slots \ {t}) /\ ~Listing(t)'
      /\ UNCHANGED <<archives, selectedArchiveID, tree, focusedNode, selectedSnapshotID>>
      /\ Settled' => Settled
  BY DEF Restores, browsing, Listing, Loads
<1>2. \A u \in Slots : Listing(u)' /\ Current(u)' =>
        Listing(u) /\ Current(u) /\ tasks'[u] = tasks[u]
  BY <1>1, SameSelection DEF BrowserInv
<1>3. ListingCleared'
  BY <1>1, <1>2 DEF BrowserInv, ListingCleared, Listing
<1>4. LoadsSelection'
  BY <1>1, <1>2 DEF BrowserInv, LoadsSelection
<1>5. BrowserMatchesSelection'
  BY <1>1 DEF BrowserInv, BrowserMatchesSelection
<1> QED
  BY <1>3, <1>4, <1>5

(* The archives that arrive are those of the selection, and no tree is     *)
(* shown that the new archive could differ from.                           *)
LEMMA BrowserLists ==
  ASSUME BrowserInv, NEW t \in Slots, Lists(t)
  PROVE  ListingCleared' /\ LoadsSelection' /\ BrowserMatchesSelection'
<1>1. /\ browseToken' = browseToken /\ Kept(Slots \ {t}) /\ Listing(t) /\ Current(t)
      /\ UNCHANGED <<selectedSnapshotID, tree, focusedNode>>
      /\ archives' = tasks[t].snap
      /\ Settled' => Settled
  BY DEF Lists, Listing
<1>2. tree = None /\ focusedNode = None
  BY DEF BrowserInv, ListingCleared, Lists
<1>3. \A u \in Slots \ {t} : ~(Listing(u)' /\ Current(u)')
  <2>1. \A u \in Slots \ {t} : Listing(u)' /\ Current(u)' => Listing(u) /\ Current(u)
    BY <1>1, SameSelection DEF BrowserInv
  <2> QED
    BY <1>1, <2>1 DEF BrowserInv, OneListing
<1>4. Listing(t)' => /\ tasks'[t].call = "tree" /\ tasks'[t].snap = selectedSnapshotID
                     /\ tasks'[t].name = selectedArchiveID'
  BY LoadingIs DEF Lists, Listing, Loads
<1>5. ListingCleared'
  BY <1>1, <1>2 DEF ListingCleared
<1>6. LoadsSelection'
  BY <1>1, <1>3, <1>4 DEF LoadsSelection
<1>7. BrowserMatchesSelection'
  BY <1>1, <1>2 DEF BrowserInv, LoadsSelection, BrowserMatchesSelection
<1> QED
  BY <1>5, <1>6, <1>7

LEMMA BrowserShows ==
  ASSUME BrowserInv, NEW t \in Slots, Shows(t)
  PROVE  ListingCleared' /\ LoadsSelection' /\ BrowserMatchesSelection'
<1>1. /\ browseToken' = browseToken /\ Kept(Slots \ {t}) /\ ~Listing(t)'
      /\ tasks[t].call = "tree" /\ Listing(t) /\ Current(t)
      /\ UNCHANGED <<selectedSnapshotID, archives, selectedArchiveID, focusedNode>>
      /\ tree' = [snap |-> tasks[t].snap, name |-> tasks[t].name]
      /\ Settled' => Settled
  BY DEF Shows, Listing, Loads
<1>2. \A u \in Slots : ~(Listing(u)' /\ Current(u)')
  <2>1. \A u \in Slots \ {t} : Listing(u)' /\ Current(u)' => Listing(u) /\ Current(u)
    BY <1>1, SameSelection DEF BrowserInv
  <2> QED
    BY <1>1, <2>1 DEF BrowserInv, OneListing
<1>3. ListingCleared'
  BY <1>2 DEF ListingCleared, Listing
<1>4. LoadsSelection'
  BY <1>2 DEF LoadsSelection
<1>5. BrowserMatchesSelection'
  <2>1. SUFFICES ASSUME Settled
                 PROVE  /\ archives' \in {None, selectedSnapshotID'}
                        /\ tree' \in {None, [snap |-> selectedSnapshotID',
                                             name |-> selectedArchiveID']}
                        /\ focusedNode' \in {None, tree'}
    BY <1>1 DEF BrowserMatchesSelection
  <2>2. tasks[t].snap = selectedSnapshotID /\ tasks[t].name = selectedArchiveID
    BY <1>1, <2>1 DEF BrowserInv, LoadsSelection
  <2>3. /\ archives \in {None, selectedSnapshotID} /\ focusedNode \in {None, tree}
        /\ tree \in {None, [snap |-> selectedSnapshotID, name |-> selectedArchiveID]}
    BY <2>1 DEF BrowserInv, BrowserMatchesSelection
  <2> QED
    BY <1>1, <2>2, <2>3
<1> QED
  BY <1>3, <1>4, <1>5

LEMMA BrowserStep ==
  ASSUME BrowserInv, [Next]_vars
  PROVE  BrowserInv'
<1>1. ListingCleared' /\ LoadsSelection' /\ BrowserMatchesSelection'
  <2>1. TypeInv
    BY DEF BrowserInv
  <2> QED
    BY <2>1, StepShape, BrowserQuiet, BrowserFocus, BrowserSelects, BrowserPicks,
       BrowserRestores, BrowserLists, BrowserShows
<1>2. TypeInv' /\ OneListing'
  BY TypeStep, OneListingStep DEF BrowserInv
<1> QED
  BY <1>1, <1>2 DEF BrowserInv

LEMMA BrowserInit == Init => BrowserInv
<1> SUFFICES ASSUME Init PROVE BrowserInv
  OBVIOUS
<1>1. \A t \in Slots : tasks[t].call = "none"
  BY WaitingIs DEF Init
<1>2. OneListing /\ ListingCleared /\ LoadsSelection
  BY <1>1 DEF OneListing, ListingCleared, LoadsSelection, Listing
<1>3. BrowserMatchesSelection
  BY DEF Init, BrowserMatchesSelection
<1> QED
  BY <1>2, <1>3, TypeInit DEF BrowserInv

LEMMA AlwaysBrowsing == Spec => []BrowserInv
BY BrowserInit, BrowserStep, PTL DEF Spec

(* However selections and results overlap, one listing at most is under    *)
(* way for the current selection: the token of AppModel.swift is enough.   *)
THEOREM OneListingAtATime == Spec => []OneListing
<1>1. BrowserInv => OneListing
  BY DEF BrowserInv
<1> QED
  BY <1>1, AlwaysBrowsing, PTL

(* The archives, the tree and the focused row are always those of the      *)
(* selection that the sidebar and the picker show.                         *)
THEOREM BrowserFollowsSelection == Spec => []BrowserMatchesSelection
<1>1. BrowserInv => BrowserMatchesSelection
  BY DEF BrowserInv
<1> QED
  BY <1>1, AlwaysBrowsing, PTL
-----------------------------------------------------------------------------
(* A restore reads what was focused. *)

(* A row that a restore was asked for is of the archive that is selected   *)
(* until the restore has its turn, or no archive is: what was under way    *)
(* before it cannot select another.  (Without a row the sheet may be over  *)
(* a tree that is gone, and another archive be on its way.)                *)
RestoreTurn ==
  turn # None /\ turn.call = "restore" /\ turn.id # None =>
    /\ \/ turn.id = [snap |-> selectedSnapshotID, name |-> selectedArchiveID]
       \/ selectedArchiveID = None
    /\ \A t \in ahead : ~(tasks[t].call = "archives" /\ Current(t))
FocusInv == BrowserInv /\ RestoreTurn /\ RestoresWhatWasFocused

LEMMA RestoreTurnOfUser ==
  ASSUME FocusInv, User \/ ViewUpdate
  PROVE  RestoreTurn'
<1> USE DEF browsing
<1>0. \A call, id : turn' = Turn(call, id) => turn'.call = call /\ turn'.id = id
  BY TurnForms
<1>1. CASE ClickSnapshot
  <2>1. PICK id \in snapshots \union {None} : Enqueue("selectSnapshot", id)
    BY <1>1 DEF ClickSnapshot
  <2> QED
    BY <1>0, <2>1 DEF Enqueue, RestoreTurn
<1>2. CASE PickArchive
  <2>1. PICK n \in Range(ArchivesOf[archives]) \ {selectedArchiveID} :
          Enqueue("selectArchive", n)
    BY <1>2 DEF PickArchive
  <2> QED
    BY <1>0, <2>1 DEF Enqueue, RestoreTurn
<1>3. CASE PressRestore
  <2>1. PICK path \in {focusedNode, None} : Enqueue("restore", path)
    BY <1>3 DEF PressRestore
  <2>2. turn'.id \in {focusedNode, None} /\ ahead' \subseteq Slots
    BY <1>0, <2>1 DEF Enqueue
  <2>3. UNCHANGED <<selectedSnapshotID, selectedArchiveID, browseToken, tasks>> /\ Settled
    BY <1>3 DEF PressRestore, Event, Settled
  <2>4. CASE turn'.id = None
    BY <2>4 DEF RestoreTurn
  <2>5. CASE focusedNode # None /\ turn'.id = focusedNode
    <3>1. /\ tree # None
          /\ focusedNode = [snap |-> selectedSnapshotID, name |-> selectedArchiveID]
      BY <2>3, <2>5 DEF FocusInv, BrowserInv, BrowserMatchesSelection
    <3>2. \A t \in Slots : ~(tasks[t].call = "archives" /\ Current(t))
      BY <2>3, <3>1 DEF FocusInv, BrowserInv, ListingCleared
    <3> QED
      BY <2>2, <2>3, <2>5, <3>1, <3>2 DEF RestoreTurn, Current
  <2> QED
    BY <2>2, <2>4, <2>5
<1>4. CASE FocusRow \/ DismissAlert \/ OpenSheet \/ CloseSheet
  BY <1>4 DEF FocusRow, DismissAlert, OpenSheet, CloseSheet, FocusInv, RestoreTurn, Current
<1>5. ASSUME NEW t \in Slots, Refresh(t) \/ Connect(t) \/ RunPbmac(t) PROVE RestoreTurn'
  <2>1. turn' = None
    BY <1>5 DEF Refresh, Connect, RunPbmac, Event
  <2> QED
    BY <2>1 DEF RestoreTurn
<1>6. CASE ViewUpdate
  BY <1>0, <1>6 DEF ViewUpdate, Enqueue, RestoreTurn
<1> QED
  BY <1>1, <1>2, <1>3, <1>4, <1>5, <1>6 DEF User

LEMMA RestoreTurnOfResume ==
  ASSUME FocusInv, NEW t \in Slots, Resume(t)
  PROVE  RestoreTurn'
<1>1. turn' = turn
  BY DEF Resume, LoginDone, PingDone, CommandDone, RestoreDone, ListDone, ArchivesDone, TreeDone
<1>2. SUFFICES ASSUME turn # None, turn.call = "restore", turn.id # None
               PROVE  /\ \/ turn.id = [snap |-> selectedSnapshotID',
                                       name |-> selectedArchiveID']
                         \/ selectedArchiveID' = None
                      /\ \A u \in ahead' : ~(Listing(u)' /\ tasks'[u].call = "archives"
                                               /\ Current(u)')
  BY <1>1 DEF RestoreTurn, Listing
<1>3. t \in ahead /\ ahead' = ahead \ {t} /\ ahead' \subseteq Slots \ {t}
  BY <1>2 DEF Resume, FocusInv, BrowserInv, TypeInv, TypeOK
<1>4. /\ \/ turn.id = [snap |-> selectedSnapshotID, name |-> selectedArchiveID]
         \/ selectedArchiveID = None
      /\ \A u \in ahead : ~(tasks[u].call = "archives" /\ Current(u))
  BY <1>2 DEF FocusInv, RestoreTurn
<1>5. TypeInv
  BY DEF FocusInv, BrowserInv
<1>6. CASE Selects(t, tasks[t].then)
  <2>1. \A u \in Slots \ {t} : ~(Listing(u)' /\ Current(u)')
    BY <1>5, <1>6, NewSelection DEF Selects
  <2> QED
    BY <1>3, <1>6, <2>1 DEF Selects
<1>7. CASE Quiet \/ Shows(t)
  <2>1. /\ browseToken' = browseToken /\ selectedArchiveID' = selectedArchiveID
        /\ Kept(Slots \ {t})
    BY <1>7 DEF Quiet, Shows, browsing, Kept
  <2>2. \A u \in Slots \ {t} : Listing(u)' /\ Current(u)' => Current(u) /\ tasks'[u] = tasks[u]
    BY <1>5, <2>1, SameSelection
  <2>3. selectedSnapshotID' = selectedSnapshotID \/ selectedArchiveID' = None
    BY <1>7 DEF Shows, Resume, LoginDone, PingDone, CommandDone, RestoreDone, ListDone,
                ArchivesDone, TreeDone, SelectSnapshot
  <2> QED
    BY <1>3, <1>4, <2>1, <2>2, <2>3
<1>8. CASE Lists(t)
  BY <1>3, <1>4, <1>8 DEF Lists
<1> QED
  BY <1>5, <1>6, <1>7, <1>8, ResumeShape

LEMMA RestoreTurnStep ==
  ASSUME FocusInv, [Next]_vars
  PROVE  RestoreTurn'
<1>1. CASE UNCHANGED vars
  BY <1>1 DEF vars, browsing, FocusInv, RestoreTurn, Current
<1>2. ASSUME NEW t \in Slots, RunTurn(t) PROVE RestoreTurn'
  BY <1>2 DEF RunTurn, TurnSelectSnapshot, TurnSelectArchive, TurnRestore, RestoreTurn
<1> QED
  BY <1>1, <1>2, RestoreTurnOfUser, RestoreTurnOfResume DEF Next

LEMMA FocusedStep ==
  ASSUME FocusInv, [Next]_vars
  PROVE  RestoresWhatWasFocused'
<1> DEFINE Right(task) == task.path \in {None, [snap |-> task.snap, name |-> task.name]}
<1>1. SUFFICES ASSUME NEW u \in Slots, tasks'[u].call = "restore" PROVE Right(tasks'[u])
  BY DEF RestoresWhatWasFocused
<1>2. tasks'[u] = tasks[u] => Right(tasks'[u])
  BY <1>1 DEF FocusInv, RestoresWhatWasFocused
<1>3. CASE Quiet \/ FocusRow
  BY <1>1, <1>2, <1>3 DEF Quiet, FocusRow, Kept, Loads
<1>4. ASSUME NEW t \in Slots, NEW id,
             Selects(t, id) \/ Picks(t) \/ Lists(t) \/ Shows(t)
      PROVE  Right(tasks'[u])
  <2>1. Kept(Slots \ {t}) /\ tasks'[t].call # "restore"
    BY <1>4, LoadingIs DEF Selects, Picks, Lists, Shows, Loads
  <2> QED
    BY <1>1, <1>2, <2>1 DEF Kept, Loads
<1>5. ASSUME NEW t \in Slots, Restores(t) PROVE Right(tasks'[u])
  <2>1. CASE u # t
    BY <1>1, <1>2, <1>5, <2>1 DEF Restores, Kept, Loads
  <2>2. CASE u = t
    <3>1. /\ selectedArchiveID # None
          /\ tasks'[u].snap = selectedSnapshotID /\ tasks'[u].name = selectedArchiveID
          /\ tasks'[u].path = turn.id
      BY <1>1, <1>5, <2>2 DEF Restores, Loads
    <3>2. turn.id \in {None, [snap |-> selectedSnapshotID, name |-> selectedArchiveID]}
      BY <1>5, <3>1 DEF FocusInv, RestoreTurn, Restores
    <3> QED
      BY <3>1, <3>2
  <2> QED
    BY <2>1, <2>2
<1>6. TypeInv
  BY DEF FocusInv, BrowserInv
<1> QED
  BY <1>3, <1>4, <1>5, <1>6, StepShape

LEMMA FocusInit == Init => FocusInv
BY BrowserInit, WaitingIs DEF Init, FocusInv, RestoreTurn, RestoresWhatWasFocused

LEMMA FocusStep ==
  ASSUME FocusInv, [Next]_vars
  PROVE  FocusInv'
<1>1. BrowserInv'
  BY BrowserStep DEF FocusInv
<1> QED
  BY <1>1, RestoreTurnStep, FocusedStep DEF FocusInv

(* A row is never restored out of another archive than it was listed in,   *)
(* although the sheet's path and the selection are read at different       *)
(* times, with listings and links under way.                               *)
THEOREM RestoresTheFocused == Spec => []RestoresWhatWasFocused
<1>1. FocusInv => RestoresWhatWasFocused
  BY DEF FocusInv
<1> QED
  BY <1>1, FocusInit, FocusStep, PTL DEF Spec
=============================================================================
