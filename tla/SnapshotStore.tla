--------------------------- MODULE SnapshotStore ---------------------------
(***************************************************************************)
(* What `pbmac backup` promises, without the protocol: a backup run is     *)
(* given a source and a key, a snapshot appears at once and complete or    *)
(* not at all, it never changes afterwards, and a run reports success only *)
(* when its snapshot is there.  A run that fails after it asked for the    *)
(* commit does not know the outcome: its snapshot may still appear.        *)
(***************************************************************************)
EXTENDS Integers

CONSTANTS Backups,    \* the runs of `pbmac backup` against one backup group
          Contents,   \* what a snapshot can hold: an archive and its key
          Times,      \* backup times, which name the snapshots of the group
          NoContent   \* nothing: no snapshot there, or nothing asked yet

VARIABLES store,   \* store[t]: the content of the snapshot of time t
          asked,   \* asked[b]: what run b was asked to save, and under which time
          phase,   \* phase[b]: how far run b is
          told     \* told[b]: what run b reported to its caller

storeVars == <<store, asked, phase, told>>

Asked == [content : Contents, time : Times]

Init ==
  /\ store = [t \in Times |-> NoContent]
  /\ asked = [b \in Backups |-> NoContent]
  /\ phase = [b \in Backups |-> "idle"]
  /\ told = [b \in Backups |-> "nothing"]

(* The run starts; what it was asked to save is fixed from then on. *)
Begin(b) ==
  /\ phase[b] = "idle"
  /\ \E a \in Asked : asked' = [asked EXCEPT ![b] = a]
  /\ phase' = [phase EXCEPT ![b] = "running"]
  /\ UNCHANGED <<store, told>>

(* The run asks for the commit. *)
Offer(b) ==
  /\ phase[b] = "running"
  /\ told[b] = "nothing"
  /\ phase' = [phase EXCEPT ![b] = "offered"]
  /\ UNCHANGED <<store, asked, told>>

(* The snapshot appears, whole, newer than every other of its group. *)
Commit(b) ==
  /\ phase[b] = "offered"
  /\ \A t \in Times : store[t] # NoContent => t < asked[b].time
  /\ store' = [store EXCEPT ![asked[b].time] = asked[b].content]
  /\ phase' = [phase EXCEPT ![b] = "committed"]
  /\ UNCHANGED <<asked, told>>

Succeed(b) ==
  /\ phase[b] = "committed"
  /\ told[b] = "nothing"
  /\ told' = [told EXCEPT ![b] = "ok"]
  /\ UNCHANGED <<store, asked, phase>>

(* Failing, or being killed, is possible at any time after the start; the  *)
(* request to commit may still be on its way then, or be lost with it.     *)
Fail(b) ==
  /\ phase[b] # "idle"
  /\ told[b] = "nothing"
  /\ told' = [told EXCEPT ![b] = "failed"]
  /\ \/ UNCHANGED phase
     \/ phase[b] = "offered" /\ phase' = [phase EXCEPT ![b] = "running"]
  /\ UNCHANGED <<store, asked>>

Lose(b) ==
  /\ phase[b] = "offered"
  /\ told[b] = "failed"
  /\ phase' = [phase EXCEPT ![b] = "running"]
  /\ UNCHANGED <<store, asked, told>>

Next ==
  \E b \in Backups :
    Begin(b) \/ Offer(b) \/ Commit(b) \/ Succeed(b) \/ Fail(b) \/ Lose(b)

Spec == Init /\ [][Next]_storeVars
=============================================================================
