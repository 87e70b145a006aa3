------------------------------ MODULE AppModel ------------------------------
(***************************************************************************)
(* AppModel.swift: the state of the SwiftUI app and the async functions    *)
(* that run `pbmac` for it.  Everything here runs on the main actor; an    *)
(* `await client.run` gives it up until that pbmac process has ended, so   *)
(* an async function is one action up to its first await and one action    *)
(* per await after that, and other functions run in between.               *)
(*                                                                         *)
(* SwiftUI (external) is modelled by what the views ask of it: an event or *)
(* a view update enqueues at most one Task, which runs before the next     *)
(* event is handled.  The main queue is first in, first out: only what was *)
(* under way when the Task was enqueued can go on before it.               *)
(***************************************************************************)
EXTENDS Naturals, FiniteSets, Sequences, Functions

CONSTANTS Snapshots,      \* snapshot ids, listed or not
          Names,          \* archive file names
          Browsable,      \* those that end in .pxar
          ArchivesOf,     \* ArchivesOf[s]: what `pbmac archives s` lists
          Listings,       \* the sets of snapshots `pbmac list` may return
          Slots,          \* bounds the pbmac processes under way
          None            \* nil

ASSUME AppAssumption ==
  /\ Browsable \subseteq Names
  /\ ArchivesOf \in [Snapshots -> Seq(Names)]
  /\ Listings \subseteq SUBSET Snapshots
  /\ IsFiniteSet(Slots)
  /\ None \notin Snapshots \union Names

VARIABLES
  snapshots,           \* the sidebar's snapshots
  selectedSnapshotID,  \* the sidebar's selection, bound to the List
  archives,            \* the snapshot whose archives are listed; None: none are
  selectedArchiveID,
  tree,                \* the archive whose files are shown
  focusedNode,         \* the archive the focused row was listed in
  busy,                \* the spinner
  lastError,           \* is the alert up
  connection,
  browseToken,         \* replaced per selection
  tasks,               \* tasks[t]: an async function waiting for its pbmac
  turn,                \* a Task that has not had its turn on the main actor
  ahead,               \* the tasks that may go on before it
  seen,                \* the selection that onChange last saw
  sheet                \* is the restore sheet up

browsing == <<archives, selectedArchiveID, tree, focusedNode>>
vars == <<snapshots, selectedSnapshotID, browsing, busy, lastError, connection,
          browseToken, tasks, turn, ahead, seen, sheet>>

(* An archive in a snapshot: what a tree lists and what a restore reads.   *)
Archive == [snap : Snapshots, name : Names]

(* A task waits in one of the calls; `then` is the deep link it follows.   *)
(* browseToken counts selections in the code; it is only ever compared, so *)
(* here a selection takes any number that no task holds.                   *)
Calls == {"none", "ping", "login", "command", "list", "archives", "tree", "restore"}
Tokens == 0 .. Cardinality(Slots)
Task == [call : Calls, token : Tokens, snap : Snapshots \union {None},
         name : Names \union {None}, then : Snapshots \union {None}, path : Archive \union {None}]
Free == [call |-> "none", token |-> 0, snap |-> None, name |-> None, then |-> None,
         path |-> None]
Waiting(call) == [Free EXCEPT !.call = call]
Loading(call, token, s, n) == [Waiting(call) EXCEPT !.token = token, !.snap = s, !.name = n]

Turns == [call : {"selectSnapshot"}, id : Snapshots \union {None}]
           \union [call : {"selectArchive"}, id : Names]
           \union [call : {"restore"}, id : Archive \union {None}]
Turn(call, id) == [call |-> call, id |-> id]

ASSUME NilAssumption == None \notin Archive \union Turns

Init ==
  /\ snapshots = {}
  /\ selectedSnapshotID = None /\ seen = None
  /\ archives = None /\ selectedArchiveID = None
  /\ tree = None /\ focusedNode = None
  /\ busy = FALSE /\ lastError = FALSE
  /\ connection = "unknown"
  /\ browseToken = 0
  /\ tasks = [t \in Slots |-> Free]
  /\ turn = None /\ ahead = {}
  /\ sheet = FALSE
-----------------------------------------------------------------------------
(* The two computed properties, and the archive selectSnapshot picks.      *)
Among(id, ids) == IF id \in ids THEN id ELSE None
selectedSnapshot == Among(selectedSnapshotID, snapshots)
ArchiveAmong(id, s) == IF s = None THEN None ELSE Among(id, Range(ArchivesOf[s]))
selectedArchive == ArchiveAmong(selectedArchiveID, archives)

DefaultArchive(s) ==
  LET files == {i \in DOMAIN ArchivesOf[s] : ArchivesOf[s][i] \in Browsable}
  IN IF files # {} THEN ArchivesOf[s][CHOOSE i \in files : \A j \in files : i <= j]
     ELSE IF ArchivesOf[s] # <<>> THEN Head(ArchivesOf[s]) ELSE None

Listing(t) == tasks[t].call \in {"archives", "tree"}
Await(t, task) == tasks' = [tasks EXCEPT ![t] = task]
Return(t) == Await(t, Free)

(* loadSnapshots up to its await; a deep link goes on to select a snapshot. *)
LoadSnapshots(t, link) ==
  /\ busy' = TRUE
  /\ Await(t, [Waiting("list") EXCEPT !.then = link])

(* Mutant: the selection does not bump the token.                          *)
SameToken == browseToken
FreshToken ==
  CHOOSE k \in Tokens : k # browseToken /\ \A t \in Slots : Listing(t) => tasks[t].token # k

(* Mutant: the focused row outlives the tree it was in.                    *)
KeepFocus == tree' = None /\ UNCHANGED focusedNode
ClearTree == tree' = None /\ focusedNode' = None

(* selectSnapshot up to its await, in a state whose sidebar is `listed`    *)
(* and whose spinner is `spinning`.                                        *)
SelectSnapshot(t, id, listed, spinning) ==
  /\ browseToken' = FreshToken
  /\ selectedSnapshotID' = id
  /\ archives' = None /\ selectedArchiveID' = None
  /\ ClearTree
  /\ IF id \in listed
     THEN busy' = TRUE /\ Await(t, Loading("archives", FreshToken, id, None))
     ELSE busy' = spinning /\ Return(t)

(* loadTree up to its await, and the guard it has passed then.             *)
(* Mutant: loadTree takes a token of its own.                              *)
LoadTreeAnew(t, token, s, n) == busy' = TRUE /\ Await(t, Loading("tree", FreshToken, s, n))
LoadTree(t, token, s, n) == busy' = TRUE /\ Await(t, Loading("tree", token, s, n))
(* Mutant: the snapshot is not looked up in the sidebar.                   *)
BrowsesName(s, n) == n \in Browsable
Browses(s, n) == s # None /\ n \in Browsable

(* `guard token == browseToken`: has no newer selection superseded this.   *)
(* Mutant: stale results are applied.                                      *)
AnyToken(t) == TRUE
Current(t) == tasks[t].token = browseToken
-----------------------------------------------------------------------------
(* What the user, a deep link or the app's start sets off. *)

Idle(t) == tasks[t] = Free
Event == turn = None /\ seen = selectedSnapshotID
Enqueue(call, id) ==
  /\ \E t \in Slots : Idle(t)
  /\ turn' = Turn(call, id)
  /\ ahead' = {t \in Slots : ~Idle(t)}

ClickSnapshot ==
  /\ Event
  /\ \E id \in snapshots \union {None} :
       /\ id # selectedSnapshotID
       /\ selectedSnapshotID' = id /\ seen' = id
       /\ Enqueue("selectSnapshot", id)
  /\ UNCHANGED <<snapshots, browsing, busy, lastError, connection, browseToken,
                 tasks, sheet>>

PickArchive ==
  /\ Event
  /\ selectedSnapshot # None /\ archives # None
  /\ \E n \in Range(ArchivesOf[archives]) \ {selectedArchiveID} :
       Enqueue("selectArchive", n)
  /\ UNCHANGED <<snapshots, selectedSnapshotID, browsing, busy, lastError, connection,
                 browseToken, tasks, seen, sheet>>

FocusRow ==
  /\ Event
  /\ selectedSnapshot # None /\ tree # None
  /\ focusedNode' = tree
  /\ UNCHANGED <<snapshots, selectedSnapshotID, archives, selectedArchiveID, tree, busy,
                 lastError, connection, browseToken, tasks, turn, ahead, seen, sheet>>

(* The sheet opens over a tree and then stays up, whatever a deep link or  *)
(* a result makes of the tree, until it is dismissed.  (It also keeps      *)
(* clicks from the window behind it, which is left out: more may happen.)  *)
OpenSheet ==
  /\ Event /\ ~sheet
  /\ selectedSnapshot # None /\ tree # None
  /\ sheet' = TRUE
  /\ UNCHANGED <<snapshots, selectedSnapshotID, browsing, busy, lastError, connection,
                 browseToken, tasks, turn, ahead, seen>>

CloseSheet ==
  /\ Event /\ sheet
  /\ sheet' = FALSE
  /\ UNCHANGED <<snapshots, selectedSnapshotID, browsing, busy, lastError, connection,
                 browseToken, tasks, turn, ahead, seen>>

(* RestoreSheet.run: the focused row or, with its toggle, everything.      *)
PressRestore ==
  /\ Event /\ sheet
  /\ \E path \in {focusedNode, None} : Enqueue("restore", path)
  /\ UNCHANGED <<snapshots, selectedSnapshotID, browsing, busy, lastError, connection,
                 browseToken, tasks, seen, sheet>>

DismissAlert ==
  /\ lastError
  /\ lastError' = FALSE
  /\ UNCHANGED <<snapshots, selectedSnapshotID, browsing, busy, connection, browseToken,
                 tasks, turn, ahead, seen, sheet>>

(* Refresh Snapshots, and the links pbmac://snapshots and                  *)
(* pbmac://snapshot/<id>: refresh, then select.                            *)
Refresh(t) ==
  /\ Idle(t) /\ Event
  /\ \E link \in Snapshots \union {None} : LoadSnapshots(t, link)
  /\ UNCHANGED <<snapshots, selectedSnapshotID, browsing, lastError, connection,
                 browseToken, turn, ahead, seen, sheet>>

Connect(t) ==
  /\ Idle(t) /\ Event
  /\ connection' = "connecting"
  /\ Await(t, Waiting("ping"))
  /\ UNCHANGED <<snapshots, selectedSnapshotID, browsing, busy, lastError, browseToken,
                 turn, ahead, seen, sheet>>

(* saveAndConnect runs login first; backup and runConsole run a command.   *)
RunPbmac(t) ==
  /\ Idle(t) /\ Event
  /\ \E call \in {"login", "command"} : Await(t, Waiting(call))
  /\ UNCHANGED <<snapshots, selectedSnapshotID, browsing, busy, lastError, connection,
                 browseToken, turn, ahead, seen, sheet>>

(* The Sidebar's onChange, when code and not a click moved the selection.  *)
ViewUpdate ==
  /\ turn = None
  /\ seen # selectedSnapshotID
  /\ seen' = selectedSnapshotID
  /\ Enqueue("selectSnapshot", selectedSnapshotID)
  /\ UNCHANGED <<snapshots, selectedSnapshotID, browsing, busy, lastError, connection,
                 browseToken, tasks, sheet>>
-----------------------------------------------------------------------------
(* The Task that was enqueued runs, up to its first await. *)

TurnSelectSnapshot(t) ==
  /\ Idle(t)
  /\ turn # None /\ turn.call = "selectSnapshot"
  /\ SelectSnapshot(t, turn.id, snapshots, busy)
  /\ turn' = None /\ ahead' = {}
  /\ UNCHANGED <<snapshots, lastError, connection, seen, sheet>>

TurnSelectArchive(t) ==
  /\ Idle(t)
  /\ turn # None /\ turn.call = "selectArchive"
  /\ browseToken' = FreshToken
  /\ selectedArchiveID' = turn.id
  /\ ClearTree
  /\ LET n == ArchiveAmong(turn.id, archives)
     IN IF Browses(selectedSnapshot, n)
        THEN LoadTree(t, FreshToken, selectedSnapshot, n)
        ELSE UNCHANGED <<busy, tasks>>
  /\ turn' = None /\ ahead' = {}
  /\ UNCHANGED <<snapshots, selectedSnapshotID, archives, lastError, connection,
                 seen, sheet>>

(* restore: the path the sheet took, in the archive selected now.          *)
TurnRestore(t) ==
  /\ Idle(t)
  /\ turn # None /\ turn.call = "restore"
  /\ IF selectedSnapshot # None /\ selectedArchive # None
     THEN /\ Await(t, [Loading("restore", 0, selectedSnapshot, selectedArchive)
                        EXCEPT !.path = turn.id])
          /\ UNCHANGED lastError
     ELSE lastError' = TRUE /\ UNCHANGED tasks
  /\ turn' = None /\ ahead' = {}
  /\ UNCHANGED <<snapshots, selectedSnapshotID, browsing, busy, connection,
                 browseToken, seen, sheet>>
-----------------------------------------------------------------------------
(* The process a task waits for has ended: with a result, or an error. *)

LoginDone(t) ==
  /\ tasks[t].call = "login"
  /\ \/ connection' = "connecting" /\ Await(t, Waiting("ping"))
     \/ connection' = "failed" /\ Return(t)
  /\ UNCHANGED <<snapshots, selectedSnapshotID, browsing, busy, lastError, browseToken,
                 turn, seen, sheet>>

PingDone(t) ==
  /\ tasks[t].call = "ping"
  /\ \/ connection' = "connected" /\ LoadSnapshots(t, None)
     \/ connection' = "failed" /\ Return(t) /\ UNCHANGED busy
  /\ UNCHANGED <<snapshots, selectedSnapshotID, browsing, lastError, browseToken,
                 turn, seen, sheet>>

(* A backup or a console command refreshes the sidebar, or it does not.    *)
CommandDone(t) ==
  /\ tasks[t].call = "command"
  /\ \/ LoadSnapshots(t, None) /\ UNCHANGED lastError
     \/ Return(t) /\ lastError' \in {lastError, TRUE} /\ UNCHANGED busy
  /\ UNCHANGED <<snapshots, selectedSnapshotID, browsing, connection, browseToken,
                 turn, seen, sheet>>

RestoreDone(t) ==
  /\ tasks[t].call = "restore"
  /\ Return(t)
  /\ lastError' \in {lastError, TRUE}
  /\ UNCHANGED <<snapshots, selectedSnapshotID, browsing, busy, connection, browseToken,
                 turn, seen, sheet>>

(* The rest of loadSnapshots, `defer { busy = false }` last, then a link's *)
(* selectSnapshot without giving up the main actor.                        *)
ListDone(t) ==
  /\ tasks[t].call = "list"
  /\ \/ snapshots' \in Listings /\ UNCHANGED lastError
     \/ lastError' = TRUE /\ UNCHANGED snapshots
  /\ IF tasks[t].then = None
     THEN /\ busy' = FALSE /\ Return(t)
          /\ UNCHANGED <<selectedSnapshotID, browsing, browseToken>>
     ELSE SelectSnapshot(t, tasks[t].then, snapshots', FALSE)
  /\ UNCHANGED <<connection, turn, seen, sheet>>

(* The rest of selectSnapshot up to loadTree's await, or to its end.       *)
ArchivesDone(t) ==
  /\ tasks[t].call = "archives"
  /\ \/ /\ ~Current(t)
        /\ Return(t)
        /\ UNCHANGED <<archives, selectedArchiveID, busy, lastError>>
     \/ /\ Current(t)
        /\ archives' = tasks[t].snap
        /\ selectedArchiveID' = DefaultArchive(tasks[t].snap)
        /\ IF Browses(selectedSnapshot, selectedArchiveID')
           THEN LoadTree(t, tasks[t].token, selectedSnapshot, selectedArchiveID')
           ELSE busy' = FALSE /\ Return(t)
        /\ UNCHANGED lastError
     \/ /\ Current(t)
        /\ lastError' = TRUE
        /\ busy' = FALSE /\ Return(t)
        /\ UNCHANGED <<archives, selectedArchiveID>>
  /\ UNCHANGED <<snapshots, selectedSnapshotID, tree, focusedNode, connection, browseToken,
                 turn, seen, sheet>>

(* The rest of loadTree, and of selectSnapshot if that called it.          *)
TreeDone(t) ==
  /\ tasks[t].call = "tree"
  /\ Return(t)
  /\ \/ ~Current(t) /\ UNCHANGED <<tree, busy, lastError>>
     \/ /\ Current(t)
        /\ tree' = [snap |-> tasks[t].snap, name |-> tasks[t].name]
        /\ busy' = FALSE
        /\ UNCHANGED lastError
     \/ Current(t) /\ lastError' = TRUE /\ busy' = FALSE /\ UNCHANGED tree
  /\ UNCHANGED <<snapshots, selectedSnapshotID, archives, selectedArchiveID, focusedNode,
                 connection, browseToken, turn, seen, sheet>>
-----------------------------------------------------------------------------
User ==
  \/ ClickSnapshot \/ PickArchive \/ FocusRow \/ DismissAlert
  \/ OpenSheet \/ PressRestore \/ CloseSheet
  \/ \E t \in Slots : Refresh(t) \/ Connect(t) \/ RunPbmac(t)

RunTurn(t) == TurnSelectSnapshot(t) \/ TurnSelectArchive(t) \/ TurnRestore(t)

Resume(t) ==
  /\ turn = None \/ t \in ahead
  /\ ahead' = ahead \ {t}
  /\ \/ LoginDone(t) \/ PingDone(t) \/ CommandDone(t) \/ RestoreDone(t)
     \/ ListDone(t) \/ ArchivesDone(t) \/ TreeDone(t)

Next == User \/ ViewUpdate \/ \E t \in Slots : RunTurn(t) \/ Resume(t)

Spec == Init /\ [][Next]_vars

(* Every pbmac process ends, the main actor runs what is enqueued on it    *)
(* and SwiftUI updates its views.  Nobody has to touch the app.            *)
FairSpec ==
  /\ Spec
  /\ WF_vars(ViewUpdate)
  /\ WF_vars(\E t \in Slots : RunTurn(t))
  /\ \A t \in Slots : WF_vars(Resume(t))
-----------------------------------------------------------------------------
(* Properties. *)

TypeOK ==
  /\ snapshots \subseteq Snapshots
  /\ selectedSnapshotID \in Snapshots \union {None} /\ seen \in Snapshots \union {None}
  /\ archives \in Snapshots \union {None} /\ selectedArchiveID \in Names \union {None}
  /\ tree \in Archive \union {None} /\ focusedNode \in Archive \union {None}
  /\ busy \in BOOLEAN /\ lastError \in BOOLEAN
  /\ connection \in {"unknown", "connecting", "connected", "failed"}
  /\ browseToken \in Tokens
  /\ tasks \in [Slots -> Task]
  /\ \A t \in Slots : tasks[t].call \in {"tree", "restore"} =>
                         [snap |-> tasks[t].snap, name |-> tasks[t].name] \in Archive
  /\ turn \in Turns \union {None} /\ ahead \subseteq Slots
  /\ sheet \in BOOLEAN

(* No selection is on its way to selectSnapshot. *)
Settled ==
  /\ seen = selectedSnapshotID
  /\ turn # None => turn.call # "selectSnapshot"

(* The archives in the picker, the tree in the browser and the focused row *)
(* are those of the selection in the sidebar and the picker, whatever      *)
(* results were still under way when the selection changed.                *)
BrowserMatchesSelection ==
  Settled =>
    /\ archives \in {None, selectedSnapshotID}
    /\ tree \in {None, [snap |-> selectedSnapshotID, name |-> selectedArchiveID]}
    /\ focusedNode \in {None, tree}

(* A restore of one path reads the archive that the path was listed in: a  *)
(* row of one snapshot is never restored out of another.                   *)
RestoresWhatWasFocused ==
  \A t \in Slots : tasks[t].call = "restore" =>
    tasks[t].path \in {None, [snap |-> tasks[t].snap, name |-> tasks[t].name]}

(* One listing is under way for the current selection, at most: what is    *)
(* shown in the end does not depend on which process answers first.        *)
OneListing ==
  \A t, u \in Slots : Listing(t) /\ Current(t) /\ Listing(u) /\ Current(u) => t = u

(* A selection of something that can be browsed is browsed in the end,     *)
(* unless an error is reported, the selection moves on, a link asks again  *)
(* or the snapshot leaves the sidebar: no result under way can make the    *)
(* app drop it.                                                            *)
Asked(s, n) ==
  /\ selectedSnapshot = s
  /\ \/ turn = Turn("selectSnapshot", s) /\ n = DefaultArchive(s)
     \/ turn = Turn("selectArchive", n) /\ ArchiveAmong(n, archives) = n
MovedOn(s, n) ==
  \/ selectedSnapshot # s
  \/ turn = None /\ selectedArchiveID \notin {None, n}
  \/ \E t \in Slots : tasks[t].then = s
TreeArrives ==
  \A s \in Snapshots, n \in Browsable :
    Asked(s, n) ~> (tree = [snap |-> s, name |-> n] \/ lastError \/ MovedOn(s, n))

(* DetailView's content: what fills the pane below the toolbar.            *)
Pane ==
  IF selectedSnapshot = None THEN "Select a Snapshot"
  ELSE IF tree # None THEN "browser"
  ELSE IF busy THEN "spinner"
  ELSE IF selectedArchive # None /\ selectedArchive \notin Browsable THEN "Not Browsable"
  ELSE "Nothing to Show"

(* With an archive selected that cannot be browsed, and nothing under way, *)
(* the pane says so: DetailView's "isn't a file archive" empty state.      *)
NotBrowsableIsSaid ==
  (/\ turn = None /\ seen = selectedSnapshotID
   /\ \A t \in Slots : tasks[t] = Free
   /\ selectedSnapshot # None
   /\ selectedArchive # None /\ selectedArchive \notin Browsable)
  => Pane = "Not Browsable"
=============================================================================
