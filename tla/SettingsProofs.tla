--------------------------- MODULE SettingsProofs ---------------------------
(***************************************************************************)
(* Proofs about Settings, for every number of commands, repositories,      *)
(* certificates and passphrases.                                           *)
(***************************************************************************)
EXTENDS Settings, TLAPS

(* Which job a command has at each place, and what a login will save.      *)
JobKnown ==
  \A p \in Commands :
    /\ pc[p] # "new" => job[p] \in Jobs
    /\ LoggingIn(p) => job[p] \in LoginJob
    /\ pc[p] \in {"stat", "open", "writekey"} => job[p] \in KeyJob
    /\ pc[p] \in {"key", "resolve", "token", "send"} => job[p] \in ClientJob
ToSave ==
  \A p \in Commands : pc[p] \in {"truncate", "save", "store"} =>
    /\ cfg[p].repo = job[p].repo
    /\ job[p].pin # None => cfg[p].pin = job[p].pin
TypeInv == TypeOK /\ JobKnown /\ ToSave
-----------------------------------------------------------------------------
(* The texts of files. *)

LEMMA TextTypes ==
  ASSUME NEW Content
  PROVE  /\ Missing \in Text(Content) /\ ~Reads(Missing) /\ Missing.len = 0
         /\ \A n \in Nat : Garbled(n) \in Text(Content) /\ ~Reads(Garbled(n))
         /\ \A n \in Nat : Garbled(n).len = n /\ Garbled(n) # Missing
         /\ \A c \in Content, n \in Nat : Whole(c, n) \in Text(Content)
         /\ \A file \in Text(Content) : file.len \in Nat
         /\ \A file \in Text(Content) : Reads(file) => file.content \in Content
BY DEF Text, Missing, Garbled, Whole, Reads

LEMMA WriteType ==
  ASSUME NEW Content, NEW file \in Text(Content), NEW c \in Content, NEW n \in Nat
  PROVE  /\ Write(file, c, n) \in Text(Content) /\ Write(file, c, n) # Missing
         /\ Reads(Write(file, c, n)) => Write(file, c, n).content = c
         /\ file = Garbled(0) => Reads(Write(file, c, n)) /\ Write(file, c, n).content = c
<1>1. file.len \in Nat /\ (file = Garbled(0) => ~(file.len > n))
  BY TextTypes
<1>2. CASE file.len > n
  BY <1>1, <1>2, TextTypes DEF Write
<1>3. CASE ~(file.len > n)
  <2>1. Write(file, c, n) = Whole(c, n)
    BY <1>3 DEF Write
  <2>2. Reads(Whole(c, n)) /\ Whole(c, n).content = c /\ Whole(c, n) # Missing
    BY DEF Whole, Reads, Missing
  <2> QED
    BY <2>1, <2>2, TextTypes
<1> QED
  BY <1>2, <1>3

(* A config.json and a keyfile have lengths.                               *)
LEMMA Lengths ==
  /\ \A c \in Config : c.repo # None => ConfigLen(c) \in Nat
  /\ \A k \in KeyFile : KeyLen(k) \in Nat
BY SettingsAssumption DEF Config, ConfigLen, KeyFile, KeyLen
-----------------------------------------------------------------------------
(* Types. *)

LEMMA TypeInit == Init => TypeInv
<1> SUFFICES ASSUME Init PROVE TypeInv
  OBVIOUS
<1>1. config \in Text(Config) /\ keyfile \in Text(KeyFile)
  BY TextTypes DEF Init
<1>2. NoConfig \in Config
  BY DEF NoConfig, Config
<1>3. TypeOK
  BY <1>1, <1>2 DEF Init, TypeOK, Ended
<1>4. JobKnown /\ ToSave
  BY DEF Init, JobKnown, ToSave, LoggingIn
<1> QED
  BY <1>3, <1>4 DEF TypeInv

LEMMA JobTypes ==
  \A j \in Jobs : /\ j.cmd = "login" => j \in LoginJob
                  /\ j.cmd = "key" => j \in KeyJob
                  /\ j.cmd \notin {"login", "key"} => j \in ClientJob
BY SettingsAssumption DEF LoginJob, KeyJob, ClientJob

LEMMA StartType ==
  ASSUME TypeInv, NEW p \in Commands, NEW j \in Jobs, Start(p, j)
  PROVE  TypeInv'
<1>1. /\ job' = [job EXCEPT ![p] = j] /\ pc[p] = "new"
      /\ UNCHANGED <<files, cfg, key, token, outcome, atRisk, pinSaved, bound, last>>
  BY DEF Start, At
<1>2. /\ pc' = [pc EXCEPT ![p] = pc'[p]]
      /\ \/ pc'[p] = "login" /\ j \in LoginJob
         \/ pc'[p] = "stat" /\ j \in KeyJob
         \/ pc'[p] \in {"key", "resolve"} /\ j \in ClientJob
         \/ pc'[p] = "failed"
  BY JobTypes DEF Start, Go, TypeInv, TypeOK
<1>3. rivals' \in BOOLEAN
  BY DEF Start, TypeInv, TypeOK
<1>4. TypeOK'
  BY <1>1, <1>2, <1>3 DEF TypeInv, TypeOK, Ended, files, outcome
<1>5. JobKnown' /\ ToSave'
  BY <1>1, <1>2 DEF TypeInv, TypeOK, JobKnown, ToSave, LoggingIn
<1> QED
  BY <1>4, <1>5 DEF TypeInv

LEMMA EndType ==
  ASSUME TypeInv, NEW p \in Commands, Fail(p) \/ Kill(p)
  PROVE  TypeInv'
BY DEF Fail, Kill, Running, Go, Ended, TypeInv, TypeOK, JobKnown, ToSave, LoggingIn, files, outcome, history

LEMMA LoginLoadType ==
  ASSUME TypeInv, NEW p \in Commands, LoginLoad(p)
  PROVE  TypeInv'
<1>1. PICK c \in Config : cfg' = [cfg EXCEPT ![p] = SetLogin(c, job[p])]
  BY DEF LoginLoad
<1>2. job[p] \in LoginJob
  BY DEF LoginLoad, At, TypeInv, JobKnown, LoggingIn
<1>3. /\ SetLogin(c, job[p]) \in Config /\ SetLogin(c, job[p]).repo = job[p].repo
      /\ job[p].pin # None => SetLogin(c, job[p]).pin = job[p].pin
  BY <1>2 DEF SetLogin, Config, LoginJob
<1>4. /\ pc[p] = "login" /\ pc' = [pc EXCEPT ![p] = "truncate"]
      /\ UNCHANGED <<files, job, key, token, outcome, history>>
  BY DEF LoginLoad, At, Go
<1>5. TypeOK'
  BY <1>1, <1>3, <1>4 DEF TypeInv, TypeOK, files, outcome, history
<1>6. JobKnown' /\ ToSave'
  BY <1>1, <1>2, <1>3, <1>4 DEF TypeInv, TypeOK, JobKnown, ToSave, LoggingIn
<1> QED
  BY <1>5, <1>6 DEF TypeInv

LEMMA LoginTruncateType ==
  ASSUME TypeInv, NEW p \in Commands, LoginTruncate(p)
  PROVE  TypeInv'
<1>1. TypeOK'
  BY TextTypes DEF LoginTruncate, Go, TypeInv, TypeOK, outcome, history
<1>2. JobKnown' /\ ToSave'
  BY DEF LoginTruncate, At, Go, TypeInv, TypeOK, JobKnown, ToSave, LoggingIn
<1> QED
  BY <1>1, <1>2 DEF TypeInv

(* A success: the command's place and the login it may have been.          *)
LEMMA FinishType ==
  ASSUME TypeInv, NEW p \in Commands, Finish(p)
  PROVE  pc' = [pc EXCEPT ![p] = "ok"] /\ last' \in Commands \union {None}
BY DEF Finish, Go, TypeInv, TypeOK

LEMMA LoginSaveType ==
  ASSUME TypeInv, NEW p \in Commands, LoginSave(p)
  PROVE  TypeInv'
<1>1. job[p] \in LoginJob /\ cfg[p].repo = job[p].repo /\ cfg[p] \in Config
  BY DEF LoginSave, At, TypeInv, TypeOK, JobKnown, ToSave, LoggingIn
<1>2. cfg[p].repo # None
  BY <1>1, SettingsAssumption DEF LoginJob
<1>3. config' \in Text(Config)
  BY <1>1, <1>2, Lengths, WriteType DEF LoginSave, TypeInv, TypeOK
<1>4. /\ pc[p] = "save" /\ last' \in Commands \union {None}
      /\ pc' = [pc EXCEPT ![p] = "store"] \/ pc' = [pc EXCEPT ![p] = "ok"]
  BY FinishType DEF LoginSave, At, Go, TypeInv, TypeOK
<1>5. /\ pinSaved' \in BOOLEAN
      /\ UNCHANGED <<keyfile, keychain, job, cfg, key, token, outcome, atRisk, rivals, bound>>
  BY DEF LoginSave, TypeInv, TypeOK
<1>6. TypeOK'
  BY <1>3, <1>4, <1>5 DEF TypeInv, TypeOK, Ended, outcome
<1>7. JobKnown' /\ ToSave'
  BY <1>4, <1>5 DEF TypeInv, TypeOK, JobKnown, ToSave, LoggingIn
<1> QED
  BY <1>6, <1>7 DEF TypeInv

LEMMA LoginStoreType ==
  ASSUME TypeInv, NEW p \in Commands, LoginStore(p)
  PROVE  TypeInv'
<1>1. job[p] \in LoginJob /\ pc[p] = "store"
  BY DEF LoginStore, At, TypeInv, JobKnown, LoggingIn
<1>2. /\ keychain' \in [Repos -> Commands \union {None}]
      /\ last' \in Commands \union {None}
      /\ pc' = [pc EXCEPT ![p] = "ok"] \/ pc' = [pc EXCEPT ![p] = "failed"]
  BY <1>1, FinishType DEF LoginStore, TokenNotStored, Go, TypeInv, TypeOK, LoginJob
<1>3. UNCHANGED <<config, keyfile, job, cfg, key, token, outcome, atRisk, rivals, pinSaved,
                  bound>>
  BY DEF LoginStore
<1>4. TypeOK'
  BY <1>2, <1>3 DEF TypeInv, TypeOK, Ended, outcome
<1>5. JobKnown' /\ ToSave'
  BY <1>1, <1>2, <1>3 DEF TypeInv, TypeOK, JobKnown, ToSave, LoggingIn
<1> QED
  BY <1>4, <1>5 DEF TypeInv

LEMMA KeyStatType ==
  ASSUME TypeInv, NEW p \in Commands, KeyStat(p)
  PROVE  TypeInv'
<1>1. /\ pc[p] = "stat" /\ UNCHANGED <<files, job, cfg, key, token, outcome, history>>
      /\ pc' = [pc EXCEPT ![p] = "open"] \/ pc' = [pc EXCEPT ![p] = "failed"]
  BY DEF KeyStat, At, Go
<1> QED
  BY <1>1 DEF TypeInv, TypeOK, JobKnown, ToSave, LoggingIn, Ended, files, outcome, history

LEMMA KeyOpenType ==
  ASSUME TypeInv, NEW p \in Commands, KeyOpen(p)
  PROVE  TypeInv'
<1>1. keyfile' \in Text(KeyFile)
  BY TextTypes DEF KeyOpen, TypeInv, TypeOK
<1>2. atRisk' \in SUBSET Commands
  <2>1. Reads(keyfile) => keyfile.content.key \in Commands
    <3>1. Reads(keyfile) => keyfile.content \in KeyFile
      BY TextTypes DEF TypeInv, TypeOK
    <3> QED
      BY <3>1 DEF KeyFile
  <2> QED
    BY <2>1 DEF KeyOpen, Writing, TypeInv, TypeOK
<1>3. /\ pc[p] = "open"
      /\ UNCHANGED <<config, keychain, job, cfg, key, token, outcome, rivals, pinSaved, bound,
                     last>>
      /\ pc' = [pc EXCEPT ![p] = "writekey"] \/ pc' = [pc EXCEPT ![p] = "failed"]
  BY DEF KeyOpen, At, Go
<1>4. TypeOK'
  BY <1>1, <1>2, <1>3 DEF TypeInv, TypeOK, Ended, outcome
<1>5. JobKnown' /\ ToSave'
  BY <1>3 DEF TypeInv, TypeOK, JobKnown, ToSave, LoggingIn
<1> QED
  BY <1>4, <1>5 DEF TypeInv

(* What `key create` writes. *)
Made(p) == [key |-> p, pass |-> job[p].pass]

LEMMA KeyWriteType ==
  ASSUME TypeInv, NEW p \in Commands, KeyWrite(p)
  PROVE  TypeInv' /\ Made(p) \in KeyFile /\ keyfile' = Write(keyfile, Made(p), KeyLen(Made(p)))
<1>1. pc[p] = "writekey" /\ job[p] \in KeyJob
  BY DEF KeyWrite, At, TypeInv, JobKnown
<1>2. Made(p) \in KeyFile
  BY <1>1 DEF Made, KeyFile, KeyJob
<1>3. keyfile' = Write(keyfile, Made(p), KeyLen(Made(p)))
  BY DEF KeyWrite, Made
<1>4. keyfile' \in Text(KeyFile)
  BY <1>2, <1>3, Lengths, WriteType DEF TypeInv, TypeOK
<1>5. /\ pc' = [pc EXCEPT ![p] = "ok"] /\ last' \in Commands \union {None}
      /\ UNCHANGED <<config, keychain, job, cfg, key, token, outcome, atRisk, rivals, pinSaved,
                     bound>>
  BY FinishType DEF KeyWrite
<1>6. TypeOK'
  BY <1>4, <1>5 DEF TypeInv, TypeOK, Ended, outcome
<1>7. JobKnown' /\ ToSave'
  BY <1>1, <1>5 DEF TypeInv, TypeOK, JobKnown, ToSave, LoggingIn
<1> QED
  BY <1>2, <1>3, <1>6, <1>7 DEF TypeInv

LEMMA LoadKeyType ==
  ASSUME TypeInv, NEW p \in Commands, LoadKey(p)
  PROVE  TypeInv'
<1>1. Reads(keyfile) => keyfile.content.key \in Commands
  <2>1. Reads(keyfile) => keyfile.content \in KeyFile
    BY TextTypes DEF TypeInv, TypeOK
  <2> QED
    BY <2>1 DEF KeyFile
<1>2. /\ pc[p] = "key" /\ UNCHANGED <<files, job, cfg, token, outcome, history>>
      /\ pc' = [pc EXCEPT ![p] = "resolve"] \/ pc' = [pc EXCEPT ![p] = "failed"]
      /\ key' \in [Commands -> Commands \union {None}]
  BY <1>1 DEF LoadKey, At, Go, TypeInv, TypeOK
<1>3. TypeOK'
  BY <1>2 DEF TypeInv, TypeOK, Ended, files, outcome, history
<1>4. JobKnown' /\ ToSave'
  BY <1>2 DEF TypeInv, TypeOK, JobKnown, ToSave, LoggingIn
<1> QED
  BY <1>3, <1>4 DEF TypeInv

LEMMA ResolveType ==
  ASSUME TypeInv, NEW p \in Commands, Resolve(p)
  PROVE  TypeInv'
<1>1. PICK c \in Config :
        /\ cfg' = [cfg EXCEPT ![p] = Resolved(c, job[p])]
        /\ Go(p, IF NoRepository(Resolved(c, job[p])) THEN "failed" ELSE "token")
  BY DEF Resolve
<1>2. pc[p] = "resolve" /\ job[p] \in ClientJob
  BY DEF Resolve, At, TypeInv, JobKnown
<1>3. Resolved(c, job[p]) \in Config
  BY <1>2 DEF Resolved, Config, ClientJob
<1>4. /\ UNCHANGED <<files, job, key, token, outcome, atRisk, rivals, pinSaved, last>>
      /\ bound' \subseteq bound \union {p}
      /\ \/ pc' = [pc EXCEPT ![p] = "failed"]
         \/ pc' = [pc EXCEPT ![p] = "token"] /\ Resolved(c, job[p]).repo # None
  BY <1>1 DEF Resolve, Go, NoRepository
<1>5. TypeOK'
  BY <1>1, <1>3, <1>4 DEF TypeInv, TypeOK, Ended, files, outcome
<1>6. JobKnown' /\ ToSave'
  BY <1>1, <1>2, <1>4 DEF TypeInv, TypeOK, JobKnown, ToSave, LoggingIn
<1> QED
  BY <1>5, <1>6 DEF TypeInv

LEMMA RetrieveTokenType ==
  ASSUME TypeInv, NEW p \in Commands, RetrieveToken(p)
  PROVE  TypeInv'
<1>1. pc[p] = "token" /\ cfg[p].repo \in Repos
  BY DEF RetrieveToken, At, TypeInv, TypeOK, Config
<1>2. /\ token' \in [Commands -> Commands \union {None}]
      /\ pc' = [pc EXCEPT ![p] = "send"]
      /\ UNCHANGED <<files, job, cfg, key, outcome, history>>
  BY <1>1 DEF RetrieveToken, TokenOf, Go, TypeInv, TypeOK
<1>3. TypeOK'
  BY <1>1, <1>2 DEF TypeInv, TypeOK, files, outcome, history
<1>4. JobKnown' /\ ToSave'
  BY <1>1, <1>2 DEF TypeInv, TypeOK, JobKnown, ToSave, LoggingIn
<1> QED
  BY <1>3, <1>4 DEF TypeInv

LEMMA SendType ==
  ASSUME TypeInv, NEW p \in Commands, Send(p)
  PROVE  TypeInv'
<1>1. pc[p] = "send" /\ cfg[p].repo \in Repos
  BY DEF Send, At, TypeInv, TypeOK, Config
<1>2. requests' \subseteq [by : Commands, to : Repos, token : Commands \union {None}]
  BY <1>1 DEF Send, TypeInv, TypeOK
<1>3. snapshots' \subseteq [by : Commands, key : Commands \union {None}]
  BY DEF Send, TypeInv, TypeOK
<1>4. /\ last' \in Commands \union {None}
      /\ pc' = [pc EXCEPT ![p] = "ok"] \/ pc' = [pc EXCEPT ![p] = "failed"]
      /\ UNCHANGED <<files, job, cfg, key, token, atRisk, rivals, pinSaved, bound>>
  BY FinishType DEF Send, Go, TypeInv, TypeOK
<1>5. TypeOK'
  BY <1>2, <1>3, <1>4 DEF TypeInv, TypeOK, Ended, files
<1>6. JobKnown' /\ ToSave'
  BY <1>1, <1>4 DEF TypeInv, TypeOK, JobKnown, ToSave, LoggingIn
<1> QED
  BY <1>5, <1>6 DEF TypeInv

LEMMA TypeNext == TypeInv /\ [Next]_vars => TypeInv'
<1> SUFFICES ASSUME TypeInv, [Next]_vars PROVE TypeInv'
  OBVIOUS
<1>1. ASSUME NEW p \in Commands, NEW j \in Jobs, Start(p, j) PROVE TypeInv'
  BY <1>1, StartType
<1>2. ASSUME NEW p \in Commands, Fail(p) \/ Kill(p) PROVE TypeInv'
  BY <1>2, EndType
<1>3. ASSUME NEW p \in Commands,
             LoginLoad(p) \/ LoginTruncate(p) \/ LoginSave(p) \/ LoginStore(p)
      PROVE  TypeInv'
  BY <1>3, LoginLoadType, LoginTruncateType, LoginSaveType, LoginStoreType
<1>4. ASSUME NEW p \in Commands, KeyStat(p) \/ KeyOpen(p) \/ KeyWrite(p) PROVE TypeInv'
  BY <1>4, KeyStatType, KeyOpenType, KeyWriteType
<1>5. ASSUME NEW p \in Commands, LoadKey(p) \/ Resolve(p) \/ RetrieveToken(p) \/ Send(p)
      PROVE  TypeInv'
  BY <1>5, LoadKeyType, ResolveType, RetrieveTokenType, SendType
<1>6. CASE UNCHANGED vars
  BY <1>6 DEF vars, files, outcome, history, TypeInv, TypeOK, JobKnown, ToSave, LoggingIn
<1> QED
  BY <1>1, <1>2, <1>3, <1>4, <1>5, <1>6 DEF Next, Over

(* Every variable keeps its type, and a client command that goes on to the *)
(* Keychain has a repository, for any number of commands.                  *)
THEOREM TypeCorrect == Spec => []TypeOK
<1>1. TypeInv => TypeOK
  BY DEF TypeInv
<1> QED
  BY <1>1, TypeInit, TypeNext, PTL DEF Spec
-----------------------------------------------------------------------------
(* No step changes the job of a command that has started.                  *)
LEMMA Stable ==
  ASSUME TypeInv, [Next]_vars, NEW k \in Commands, pc[k] # "new"
  PROVE  pc'[k] # "new" /\ job'[k] = job[k]
<1> USE DEF TypeInv, TypeOK, At, Go
<1>1. ASSUME NEW p \in Commands, NEW j \in Jobs, Start(p, j) PROVE pc'[k] # "new" /\ job'[k] = job[k]
  BY <1>1 DEF Start
<1>2. ASSUME NEW p \in Commands, Fail(p) \/ Kill(p) PROVE pc'[k] # "new" /\ job'[k] = job[k]
  BY <1>2 DEF Fail, Kill
<1>3. ASSUME NEW p \in Commands,
             LoginLoad(p) \/ LoginTruncate(p) \/ LoginSave(p) \/ LoginStore(p)
      PROVE  pc'[k] # "new" /\ job'[k] = job[k]
  BY <1>3 DEF LoginLoad, LoginTruncate, LoginSave, LoginStore, TokenNotStored, Finish
<1>4. ASSUME NEW p \in Commands, KeyStat(p) \/ KeyOpen(p) \/ KeyWrite(p)
      PROVE  pc'[k] # "new" /\ job'[k] = job[k]
  BY <1>4 DEF KeyStat, KeyOpen, KeyWrite, Finish
<1>5. ASSUME NEW p \in Commands, LoadKey(p) \/ Resolve(p) \/ RetrieveToken(p) \/ Send(p)
      PROVE  pc'[k] # "new" /\ job'[k] = job[k]
  BY <1>5 DEF LoadKey, Resolve, RetrieveToken, Send, Finish
<1>6. CASE UNCHANGED vars
  BY <1>6 DEF vars
<1> QED
  BY <1>1, <1>2, <1>3, <1>4, <1>5, <1>6 DEF Next, Over
-----------------------------------------------------------------------------
(* Tokens: each in the Keychain, in a command that has asked for it, and   *)
(* in a request, is the one that a login stored for that repository.       *)
StoredFor(places, jobs, k, r) ==
  k \in Commands /\ places[k] # "new" /\ jobs[k].cmd = "login" /\ jobs[k].repo = r
TokensKnown ==
  /\ \A r \in Repos : keychain[r] # None => StoredFor(pc, job, keychain[r], r)
  /\ \A p \in Commands :
       token[p] # None => /\ pc[p] \in {"send"} \union Ended
                          /\ pc[p] = "send" /\ token[p] # p =>
                               StoredFor(pc, job, token[p], cfg[p].repo)
  /\ \A r \in requests : r.token \notin {None, r.by} => StoredFor(pc, job, r.token, r.to)

LEMMA StoredStable ==
  ASSUME TypeInv, [Next]_vars, NEW k, NEW r, StoredFor(pc, job, k, r)
  PROVE  StoredFor(pc', job', k, r)
BY Stable DEF StoredFor

(* A step that leaves Keychain, tokens and requests alone.                 *)
LEMMA TokensKept ==
  ASSUME TypeInv, TokensKnown, [Next]_vars, UNCHANGED <<keychain, token, requests>>,
         \A q \in Commands : /\ pc'[q] = "send" => pc[q] = "send" /\ cfg'[q] = cfg[q]
                             /\ pc[q] \in Ended \union {"send"} => pc'[q] \in Ended \union {"send"}
  PROVE  TokensKnown'
<1>1. \A r \in Repos : keychain'[r] # None => StoredFor(pc', job', keychain[r], r)
  BY StoredStable DEF TokensKnown
<1>2. \A p \in Commands : pc'[p] = "send" /\ token[p] \notin {None, p} =>
        StoredFor(pc', job', token[p], cfg[p].repo)
  BY StoredStable DEF TokensKnown
<1>3. \A r \in requests : r.token \notin {None, r.by} => StoredFor(pc', job', r.token, r.to)
  BY StoredStable DEF TokensKnown
<1> QED
  BY <1>1, <1>2, <1>3 DEF TokensKnown, StoredFor

LEMMA TokensNext == TypeInv /\ TokensKnown /\ [Next]_vars => TokensKnown'
<1> SUFFICES ASSUME TypeInv, TokensKnown, [Next]_vars PROVE TokensKnown'
  OBVIOUS
<1>1. ASSUME NEW p \in Commands, NEW j \in Jobs, Start(p, j) PROVE TokensKnown'
  BY <1>1, TokensKept DEF Start, At, Go, Ended, TypeInv, TypeOK, files, outcome
<1>2. ASSUME NEW p \in Commands, Fail(p) \/ Kill(p) PROVE TokensKnown'
  BY <1>2, TokensKept DEF Fail, Kill, Go, Ended, TypeInv, TypeOK, files, outcome
<1>3. ASSUME NEW p \in Commands, LoginLoad(p) \/ LoginTruncate(p) \/ LoginSave(p)
      PROVE  TokensKnown'
  BY <1>3, TokensKept
     DEF LoginLoad, LoginTruncate, LoginSave, Finish, At, Go, Ended, TypeInv, TypeOK, files, outcome
<1>4. ASSUME NEW p \in Commands, LoginStore(p) PROVE TokensKnown'
  <2>1. UNCHANGED <<token, requests, cfg, job>> /\ pc[p] = "store"
    BY <1>4 DEF LoginStore, At, outcome
  <2>2. pc' = [pc EXCEPT ![p] = "ok"] \/ pc' = [pc EXCEPT ![p] = "failed"]
    BY <1>4 DEF LoginStore, TokenNotStored, Finish, Go
  <2>3. CASE UNCHANGED keychain
    BY <2>1, <2>2, <2>3, TokensKept DEF Ended, TypeInv, TypeOK
  <2>4. CASE keychain' = [keychain EXCEPT ![job[p].repo] = p]
    <3>1. StoredFor(pc', job', p, job[p].repo)
      BY <2>1, <2>2 DEF StoredFor, TypeInv, TypeOK, JobKnown, LoggingIn, LoginJob
    <3>2. \A r \in Repos : keychain'[r] # None => StoredFor(pc', job', keychain'[r], r)
      <4> SUFFICES ASSUME NEW r \in Repos, keychain'[r] # None
                   PROVE  StoredFor(pc', job', keychain'[r], r)
        OBVIOUS
      <4>1. CASE r = job[p].repo
        BY <2>4, <3>1, <4>1 DEF TypeInv, TypeOK
      <4>2. CASE r # job[p].repo
        <5>1. keychain'[r] = keychain[r]
          BY <2>4, <4>2 DEF TypeInv, TypeOK
        <5>2. StoredFor(pc, job, keychain[r], r)
          BY <5>1 DEF TokensKnown
        <5> QED
          BY <5>1, <5>2, StoredStable DEF StoredFor
      <4> QED
        BY <4>1, <4>2
    <3>3. \A q \in Commands :
            token[q] # None =>
              /\ pc'[q] \in {"send"} \union Ended
              /\ pc'[q] = "send" /\ token[q] # q => StoredFor(pc', job', token[q], cfg[q].repo)
      BY <2>1, <2>2, StoredStable DEF TokensKnown, Ended, TypeInv, TypeOK
    <3>4. \A r \in requests : r.token \notin {None, r.by} => StoredFor(pc', job', r.token, r.to)
      BY StoredStable DEF TokensKnown
    <3> QED
      BY <2>1, <3>2, <3>3, <3>4 DEF TokensKnown, StoredFor
  <2> QED
    BY <1>4, <2>3, <2>4 DEF LoginStore
<1>5. ASSUME NEW p \in Commands, KeyStat(p) \/ KeyOpen(p) \/ KeyWrite(p) PROVE TokensKnown'
  BY <1>5, TokensKept
     DEF KeyStat, KeyOpen, KeyWrite, Finish, At, Go, Ended, TypeInv, TypeOK, files, outcome
<1>6. ASSUME NEW p \in Commands, LoadKey(p) \/ Resolve(p) PROVE TokensKnown'
  BY <1>6, TokensKept DEF LoadKey, Resolve, At, Go, Ended, TypeInv, TypeOK, files, outcome
<1>7. ASSUME NEW p \in Commands, RetrieveToken(p) PROVE TokensKnown'
  <2>1. /\ pc[p] = "token" /\ pc' = [pc EXCEPT ![p] = "send"]
        /\ UNCHANGED <<keychain, requests, cfg>> /\ cfg[p].repo \in Repos
    BY <1>7 DEF RetrieveToken, At, Go, files, outcome, TypeInv, TypeOK, Config
  <2>2. token[p] = None
    BY <2>1 DEF TokensKnown, Ended
  <2>3. /\ token' = [token EXCEPT ![p] = token'[p]]
        /\ token'[p] \in {None, p, keychain[cfg[p].repo]}
    BY <1>7, <2>2 DEF RetrieveToken, TokenOf, TypeInv, TypeOK
  <2>4. \A r \in Repos : keychain[r] # None => StoredFor(pc', job', keychain[r], r)
    BY StoredStable DEF TokensKnown
  <2>5. \A q \in Commands :
          token'[q] # None =>
            /\ pc'[q] \in {"send"} \union Ended
            /\ pc'[q] = "send" /\ token'[q] # q => StoredFor(pc', job', token'[q], cfg[q].repo)
    <3> SUFFICES ASSUME NEW q \in Commands, token'[q] # None
                 PROVE  /\ pc'[q] \in {"send"} \union Ended
                        /\ pc'[q] = "send" /\ token'[q] # q =>
                             StoredFor(pc', job', token'[q], cfg[q].repo)
      OBVIOUS
    <3>1. CASE q = p
      BY <2>1, <2>3, <2>4, <3>1 DEF TypeInv, TypeOK, StoredFor
    <3>2. CASE q # p
      <4>1. token'[q] = token[q] /\ pc'[q] = pc[q]
        BY <2>1, <2>3, <3>2 DEF TypeInv, TypeOK
      <4>2. pc[q] = "send" /\ token[q] # q => StoredFor(pc', job', token[q], cfg[q].repo)
        BY <2>1, <4>1, StoredStable DEF TokensKnown
      <4> QED
        BY <2>1, <4>1, <4>2 DEF TokensKnown, StoredFor
    <3> QED
      BY <3>1, <3>2
  <2>6. \A r \in requests : r.token \notin {None, r.by} => StoredFor(pc', job', r.token, r.to)
    BY StoredStable DEF TokensKnown
  <2> QED
    BY <2>1, <2>4, <2>5, <2>6 DEF TokensKnown, StoredFor
<1>8. ASSUME NEW p \in Commands, Send(p) PROVE TokensKnown'
  <2>1. /\ pc[p] = "send"
        /\ pc' = [pc EXCEPT ![p] = "ok"] \/ pc' = [pc EXCEPT ![p] = "failed"]
        /\ UNCHANGED <<keychain, token, cfg>>
        /\ requests' = requests \union {[by |-> p, to |-> cfg[p].repo, token |-> token[p]]}
    BY <1>8 DEF Send, Finish, At, Go, files
  <2>2. \A r \in Repos : keychain[r] # None => StoredFor(pc', job', keychain[r], r)
    BY StoredStable DEF TokensKnown
  <2>3. \A q \in Commands :
          token[q] # None =>
            /\ pc'[q] \in {"send"} \union Ended
            /\ pc'[q] = "send" /\ token[q] # q => StoredFor(pc', job', token[q], cfg[q].repo)
    BY <2>1, StoredStable DEF TokensKnown, Ended, TypeInv, TypeOK
  <2>4. \A r \in requests' : r.token \notin {None, r.by} => StoredFor(pc', job', r.token, r.to)
    BY <2>1, StoredStable DEF TokensKnown
  <2> QED
    BY <2>1, <2>2, <2>3, <2>4 DEF TokensKnown, StoredFor
<1>9. CASE UNCHANGED vars
  BY <1>9, TokensKept DEF vars, files, outcome
<1> QED
  BY <1>1, <1>2, <1>3, <1>4, <1>5, <1>6, <1>7, <1>8, <1>9 DEF Next, Over

(* No token ever goes to a repository other than the one it was stored     *)
(* for, whatever logins do to config.json and the Keychain meanwhile.      *)
THEOREM TokensStayHome == Spec => []TokenForItsRepo
<1>1. Init => TokensKnown
  BY DEF Init, TokensKnown
<1>2. TypeInv /\ TokensKnown => TokenForItsRepo
  BY DEF TokensKnown, TokenForItsRepo, StoredFor
<1> QED
  BY <1>1, <1>2, TypeInit, TypeNext, TokensNext, PTL DEF Spec
-----------------------------------------------------------------------------
(* Proofs about what commands that overlap, fail or are killed leave in    *)
(* the keyfile.                                                            *)

(* A `key create` that no --force has disturbed is the only one that has   *)
(* the keyfile open, and finds it empty when it writes.                    *)
WritesAlone ==
  /\ Writing # {} => keyfile # Missing
  /\ \A p \in Writing \ atRisk : keyfile = Garbled(0) /\ Writing = {p}
  /\ Reads(keyfile) /\ keyfile.content.key \notin atRisk => Writing = {}

(* Where the keyfile can change, and who can have it open.                 *)
LEMMA KeyfileSteps ==
  ASSUME TypeInv, [Next]_vars
  PROVE  \/ UNCHANGED <<keyfile, atRisk>> /\ Writing' \subseteq Writing
         \/ \E p \in Commands : KeyOpen(p) \/ KeyWrite(p)
<1> DEFINE Same == UNCHANGED <<keyfile, atRisk>> /\ Writing' \subseteq Writing
<1> USE DEF TypeInv, TypeOK, At, Go, Ended, Writing, files, history
<1>1. ASSUME NEW p \in Commands, NEW j \in Jobs, Start(p, j) PROVE Same
  <2>1. pc'[p] # "writekey"
    BY <1>1 DEF Start
  <2> QED
    BY <1>1, <2>1 DEF Start
<1>2. ASSUME NEW p \in Commands, Fail(p) \/ Kill(p) PROVE Same
  BY <1>2 DEF Fail, Kill
<1>3. ASSUME NEW p \in Commands,
             LoginLoad(p) \/ LoginTruncate(p) \/ LoginSave(p) \/ LoginStore(p)
      PROVE  Same
  BY <1>3 DEF LoginLoad, LoginTruncate, LoginSave, LoginStore, TokenNotStored, Finish
<1>4. ASSUME NEW p \in Commands, KeyStat(p) PROVE Same
  BY <1>4 DEF KeyStat
<1>5. ASSUME NEW p \in Commands, LoadKey(p) \/ Resolve(p) \/ RetrieveToken(p) \/ Send(p)
      PROVE  Same
  BY <1>5 DEF LoadKey, Resolve, RetrieveToken, Send, Finish
<1>6. CASE UNCHANGED vars
  BY <1>6 DEF vars
<1> QED
  BY <1>1, <1>2, <1>3, <1>4, <1>5, <1>6 DEF Next, Over

(* What the open and the write of the keyfile do.                          *)
LEMMA Opened ==
  ASSUME TypeInv, NEW p \in Commands, KeyOpen(p)
  PROVE  /\ UNCHANGED job /\ atRisk \subseteq atRisk'
         /\ \/ UNCHANGED <<keyfile, atRisk>> /\ Writing' = Writing
            \/ /\ keyfile = Missing /\ UNCHANGED atRisk
               /\ keyfile' = Garbled(0) /\ Writing' = Writing \union {p}
            \/ /\ keyfile' = Garbled(0) /\ Writing' = Writing \union {p}
               /\ Reads(keyfile) => keyfile.content.key \in atRisk'
               /\ Writing # {} => Writing \union {p} \subseteq atRisk'
<1> USE DEF TypeInv, TypeOK, At, Go, KeyOpen
<1>1. UNCHANGED job /\ atRisk \subseteq atRisk'
  OBVIOUS
<1>2. CASE ~MayOpen(p)
  BY <1>2 DEF MayOpen, Writing
<1>3. CASE MayOpen(p)
  <2>1. keyfile' = Garbled(0) /\ Writing' = Writing \union {p}
    BY <1>3 DEF Writing
  <2> QED
    BY <1>3, <2>1 DEF MayOpen
<1> QED
  BY <1>1, <1>2, <1>3

LEMMA Wrote ==
  ASSUME TypeInv, NEW p \in Commands, KeyWrite(p)
  PROVE  /\ UNCHANGED <<job, atRisk>> /\ p \in Writing /\ Writing' = Writing \ {p}
         /\ keyfile' # Missing
         /\ Reads(keyfile') => keyfile'.content = [key |-> p, pass |-> job[p].pass]
         /\ keyfile = Garbled(0) =>
              Reads(keyfile') /\ keyfile'.content = [key |-> p, pass |-> job[p].pass]
<1> DEFINE made == [key |-> p, pass |-> job[p].pass]
<1>1. pc[p] = "writekey" /\ job[p] \in KeyJob /\ UNCHANGED <<job, atRisk>>
  BY DEF KeyWrite, At, TypeInv, JobKnown
<1>2. made \in KeyFile /\ KeyLen(made) \in Nat
  BY <1>1, Lengths DEF KeyJob, KeyFile
<1>3. keyfile \in Text(KeyFile) /\ keyfile' = Write(keyfile, made, KeyLen(made))
  BY DEF KeyWrite, TypeInv, TypeOK
<1>4. p \in Writing /\ Writing' = Writing \ {p}
  BY <1>1 DEF KeyWrite, Finish, Go, At, Writing, TypeInv, TypeOK
<1> HIDE DEF made
<1>5. /\ keyfile' # Missing /\ (Reads(keyfile') => keyfile'.content = made)
      /\ keyfile = Garbled(0) => Reads(keyfile') /\ keyfile'.content = made
  BY <1>2, <1>3, WriteType
<1> QED
  BY <1>1, <1>4, <1>5 DEF made

LEMMA WritesAloneNext ==
  ASSUME TypeInv, WritesAlone, [Next]_vars
  PROVE  WritesAlone'
<1>1. CASE UNCHANGED <<keyfile, atRisk>> /\ Writing' \subseteq Writing
  BY <1>1 DEF WritesAlone, Reads
<1>2. ASSUME NEW p \in Commands, KeyOpen(p) PROVE WritesAlone'
  <2>1. Garbled(0) # Missing /\ ~Reads(Garbled(0)) /\ ~Reads(Missing)
    BY DEF Garbled, Missing, Reads
  <2>2. (Reads(keyfile))' <=> Reads(keyfile')
    BY DEF Reads
  <2>3. CASE UNCHANGED <<keyfile, atRisk>> /\ Writing' = Writing
    BY <2>3 DEF WritesAlone, Reads
  <2>4. CASE /\ keyfile = Missing /\ UNCHANGED atRisk
             /\ keyfile' = Garbled(0) /\ Writing' = Writing \union {p}
    BY <2>1, <2>2, <2>4 DEF WritesAlone
  <2>5. CASE /\ keyfile' = Garbled(0) /\ Writing' = Writing \union {p}
             /\ Writing # {} => Writing \union {p} \subseteq atRisk'
    BY <2>1, <2>2, <2>5 DEF WritesAlone
  <2> QED
    BY <1>2, <2>3, <2>4, <2>5, Opened
<1>3. ASSUME NEW p \in Commands, KeyWrite(p) PROVE WritesAlone'
  <2>1. (Reads(keyfile))' <=> Reads(keyfile')
    BY DEF Reads
  <2>2. Reads(keyfile') => keyfile'.content.key = p
    <3>1. Reads(keyfile') => keyfile'.content = [key |-> p, pass |-> job[p].pass]
      BY <1>3, Wrote, Zenon
    <3> QED
      BY <3>1
  <2> QED
    BY <1>3, <2>1, <2>2, Wrote DEF WritesAlone
<1> QED
  BY <1>1, <1>2, <1>3, KeyfileSteps

(* A key that is in the keyfile, and that no --force has touched even      *)
(* after this step, stays there.                                           *)
LEMMA KeyStays ==
  ASSUME TypeInv, WritesAlone, [Next]_vars,
         Reads(keyfile), keyfile.content.key \notin atRisk'
  PROVE  keyfile' = keyfile
<1>1. ~Reads(Missing)
  BY DEF Missing, Reads
<1>2. ASSUME NEW p \in Commands, KeyOpen(p) PROVE keyfile' = keyfile
  BY <1>1, <1>2, Opened
<1>3. ASSUME NEW p \in Commands, KeyWrite(p) PROVE FALSE
  BY <1>3, Wrote DEF WritesAlone
<1> QED
  BY <1>2, <1>3, KeyfileSteps

LEMMA AtRiskGrows ==
  ASSUME TypeInv, [Next]_vars
  PROVE  atRisk \subseteq atRisk'
BY KeyfileSteps, Opened, Wrote
-----------------------------------------------------------------------------
(* Reported keys. *)

LEMMA KeyReported ==
  ASSUME TypeInv, [Next]_vars, NEW k \in Commands,
         pc[k] # "ok", pc'[k] = "ok", job'[k].cmd = "key"
  PROVE  KeyWrite(k)
<1> USE DEF TypeInv, TypeOK, At, Go
<1>1. ASSUME NEW p \in Commands, NEW j \in Jobs, Start(p, j) PROVE FALSE
  BY <1>1 DEF Start
<1>2. ASSUME NEW p \in Commands, Fail(p) \/ Kill(p) PROVE FALSE
  BY <1>2 DEF Fail, Kill
<1>3. ASSUME NEW p \in Commands,
             LoginLoad(p) \/ LoginTruncate(p) \/ LoginSave(p) \/ LoginStore(p)
      PROVE  FALSE
  <2>1. job[p].cmd = "login" /\ UNCHANGED job
    BY <1>3 DEF LoginLoad, LoginTruncate, LoginSave, LoginStore, JobKnown, LoggingIn, LoginJob
  <2>2. \A q \in Commands : q # p => pc'[q] = pc[q]
    BY <1>3 DEF LoginLoad, LoginTruncate, LoginSave, LoginStore, TokenNotStored, Finish
  <2> QED
    BY <2>1, <2>2
<1>4. ASSUME NEW p \in Commands, KeyStat(p) \/ KeyOpen(p) PROVE FALSE
  BY <1>4 DEF KeyStat, KeyOpen
<1>5. ASSUME NEW p \in Commands, KeyWrite(p) PROVE p = k
  BY <1>5 DEF KeyWrite, Finish
<1>6. ASSUME NEW p \in Commands, LoadKey(p) \/ Resolve(p) \/ RetrieveToken(p) \/ Send(p)
      PROVE  FALSE
  <2>1. job[p].cmd \in {"list", "backup"} /\ UNCHANGED job
    BY <1>6 DEF LoadKey, Resolve, RetrieveToken, Send, JobKnown, ClientJob
  <2>2. \A q \in Commands : q # p => pc'[q] = pc[q]
    BY <1>6 DEF LoadKey, Resolve, RetrieveToken, Send, Finish
  <2> QED
    BY <2>1, <2>2
<1>7. CASE UNCHANGED vars
  BY <1>7 DEF vars
<1> QED
  BY <1>1, <1>2, <1>3, <1>4, <1>5, <1>6, <1>7 DEF Next, Over

LEMMA ReportedNext ==
  ASSUME TypeInv, WritesAlone, ReportedKeyStands, [Next]_vars
  PROVE  ReportedKeyStands'
<1> SUFFICES ASSUME NEW p \in Commands, pc'[p] = "ok", job'[p].cmd = "key", p \notin atRisk'
             PROVE  Reads(keyfile') /\ keyfile'.content = [key |-> p, pass |-> job'[p].pass]
  BY DEF ReportedKeyStands, At, Reads
<1>1. CASE pc[p] = "ok"
  <2>1. job'[p] = job[p] /\ p \notin atRisk
    BY <1>1, Stable, AtRiskGrows
  <2>2. Reads(keyfile) /\ keyfile.content = [key |-> p, pass |-> job[p].pass]
    BY <1>1, <2>1 DEF ReportedKeyStands, At
  <2>3. keyfile' = keyfile
    BY <2>2, KeyStays
  <2> QED
    BY <2>1, <2>2, <2>3
<1>2. CASE pc[p] # "ok"
  <2>1. KeyWrite(p)
    BY <1>2, KeyReported
  <2>2. keyfile = Garbled(0) /\ UNCHANGED job
    BY <2>1, Wrote DEF WritesAlone
  <2> QED
    BY <2>1, <2>2, Wrote, Zenon
<1> QED
  BY <1>1, <1>2

LEMMA WritesAloneInit == Init => WritesAlone /\ ReportedKeyStands
BY DEF Init, WritesAlone, ReportedKeyStands, Writing, At, Missing, Reads

(* A key that `key create` has reported stays in the keyfile until a       *)
(* --force, for any number of creates, crashes and failures.               *)
THEOREM KeysStand == Spec => []ReportedKeyStands
BY WritesAloneInit, WritesAloneNext, ReportedNext, TypeInit, TypeNext, PTL DEF Spec
-----------------------------------------------------------------------------
(* Keys of snapshots. *)

(* A command that has a key got it from the keyfile, where it still is,    *)
(* and a backup that is to be encrypted has one.                           *)
KeysHeld ==
  \A p \in Commands :
    /\ key[p] # None => /\ pc[p] \notin {"new", "key"}
                        /\ key[p] \notin atRisk => Holds(key[p], job[p].pass)
    /\ At(p, "key") /\ job[p].encrypt => job[p].keyfile
    /\ /\ pc[p] \in {"resolve", "token", "send"} /\ job[p].cmd = "backup"
       /\ job[p].encrypt \/ job[p].keyfile
       => key[p] # None
SnapshotsKept == KeyOfSnapshotKept /\ \A s \in snapshots : pc[s.by] # "new"

LEMMA HoldsStays ==
  ASSUME TypeInv, WritesAlone, [Next]_vars, NEW k, NEW pass, Holds(k, pass), k \notin atRisk'
  PROVE  /\ Reads(keyfile') /\ keyfile'.content.key = k /\ Opens(keyfile'.content, pass)
BY KeyStays DEF Holds

(* Only LoadKey gives a command a key, and takes it past the key.          *)
LEMMA KeySteps ==
  ASSUME TypeInv, [Next]_vars, NEW q \in Commands
  PROVE  \/ LoadKey(q) \/ \E j \in Jobs : Start(q, j)
         \/ key'[q] = key[q] /\ pc'[q] = pc[q]
         \/ /\ key'[q] = key[q] /\ pc'[q] \notin {"new", "key"}
            /\ pc'[q] \in {"resolve", "token", "send"} => pc[q] \in {"resolve", "token", "send"}
<1> DEFINE Moves == \/ LoadKey(q) \/ \E j \in Jobs : Start(q, j)
                    \/ key'[q] = key[q] /\ pc'[q] = pc[q]
                    \/ /\ key'[q] = key[q] /\ pc'[q] \notin {"new", "key"}
                       /\ pc'[q] \in {"resolve", "token", "send"}
                            => pc[q] \in {"resolve", "token", "send"}
<1> USE DEF TypeInv, TypeOK, At, Go
<1>1. ASSUME NEW p \in Commands, NEW j \in Jobs, Start(p, j) PROVE Moves
  <2>1. CASE p = q
    BY <1>1, <2>1
  <2>2. CASE p # q
    BY <1>1, <2>2 DEF Start
  <2> QED
    BY <2>1, <2>2
<1>2. ASSUME NEW p \in Commands, Fail(p) \/ Kill(p) PROVE Moves
  BY <1>2 DEF Fail, Kill
<1>3. ASSUME NEW p \in Commands,
             LoginLoad(p) \/ LoginTruncate(p) \/ LoginSave(p) \/ LoginStore(p)
      PROVE  Moves
  BY <1>3 DEF LoginLoad, LoginTruncate, LoginSave, LoginStore, TokenNotStored, Finish
<1>4. ASSUME NEW p \in Commands, KeyStat(p) \/ KeyOpen(p) \/ KeyWrite(p) PROVE Moves
  BY <1>4 DEF KeyStat, KeyOpen, KeyWrite, Finish
<1>5. ASSUME NEW p \in Commands, LoadKey(p) PROVE Moves
  <2>1. CASE p = q
    BY <1>5, <2>1
  <2>2. CASE p # q
    BY <1>5, <2>2 DEF LoadKey
  <2> QED
    BY <2>1, <2>2
<1>6. ASSUME NEW p \in Commands, Resolve(p) \/ RetrieveToken(p) \/ Send(p) PROVE Moves
  BY <1>6 DEF Resolve, RetrieveToken, Send, Finish
<1>7. CASE UNCHANGED vars
  BY <1>7 DEF vars
<1> QED
  BY <1>1, <1>2, <1>3, <1>4, <1>5, <1>6, <1>7 DEF Next, Over

LEMMA KeysHeldNext ==
  ASSUME TypeInv, WritesAlone, KeysHeld, [Next]_vars
  PROVE  KeysHeld'
<1> DEFINE Kept(q) ==
      /\ key'[q] # None =>
           /\ pc'[q] \notin {"new", "key"}
           /\ key'[q] \notin atRisk' =>
                Reads(keyfile') /\ keyfile'.content.key = key'[q]
                /\ Opens(keyfile'.content, job'[q].pass)
      /\ pc'[q] = "key" /\ job'[q].encrypt => job'[q].keyfile
      /\ /\ pc'[q] \in {"resolve", "token", "send"} /\ job'[q].cmd = "backup"
         /\ job'[q].encrypt \/ job'[q].keyfile
         => key'[q] # None
<1> SUFFICES ASSUME NEW q \in Commands PROVE Kept(q)
  BY DEF KeysHeld, At, Holds, Reads, Opens
<1>1. ASSUME LoadKey(q) PROVE Kept(q)
  <2>1. /\ pc[q] = "key" /\ key[q] = None /\ UNCHANGED <<job, keyfile, atRisk>>
        /\ job[q].encrypt => job[q].keyfile
    BY <1>1 DEF LoadKey, At, files, history, KeysHeld
  <2>2. CASE ~job[q].keyfile /\ UNCHANGED key /\ pc' = [pc EXCEPT ![q] = "resolve"]
    BY <2>1, <2>2 DEF TypeInv, TypeOK
  <2>3. CASE /\ Reads(keyfile) /\ Opens(keyfile.content, job[q].pass)
             /\ pc' = [pc EXCEPT ![q] = "resolve"]
             /\ key' = [key EXCEPT ![q] = keyfile.content.key]
    <3>1. keyfile.content.key \in Commands /\ None \notin Commands
      BY <2>3, TextTypes, SettingsAssumption DEF TypeInv, TypeOK, KeyFile
    <3>2. key'[q] = keyfile.content.key /\ pc'[q] = "resolve"
      BY <2>3 DEF TypeInv, TypeOK
    <3> QED
      BY <2>1, <2>3, <3>1, <3>2
  <2>4. CASE UNCHANGED key /\ pc' = [pc EXCEPT ![q] = "failed"]
    BY <2>1, <2>4 DEF TypeInv, TypeOK
  <2> QED
    BY <1>1, <2>1, <2>2, <2>3, <2>4 DEF LoadKey, Go
<1>2. ASSUME NEW j \in Jobs, Start(q, j) PROVE Kept(q)
  <2>1. key'[q] = None /\ job'[q] = j
    BY <1>2 DEF Start, At, KeysHeld, TypeInv, TypeOK
  <2>2. /\ pc'[q] = "key" => ~Refused(j) /\ j.cmd = "backup"
        /\ pc'[q] \in {"resolve", "token", "send"} => j.cmd # "backup"
    BY <1>2 DEF Start, Go, TypeInv, TypeOK
  <2> QED
    BY <2>1, <2>2 DEF Refused
<1>3. ASSUME key'[q] = key[q], pc[q] # "new",
             \/ pc'[q] = pc[q]
             \/ /\ pc'[q] \notin {"new", "key"}
                /\ pc'[q] \in {"resolve", "token", "send"} => pc[q] \in {"resolve", "token", "send"}
      PROVE  Kept(q)
  <2>1. job'[q] = job[q]
    BY <1>3, Stable
  <2>2. key[q] # None /\ key[q] \notin atRisk' =>
          /\ Reads(keyfile') /\ keyfile'.content.key = key[q]
          /\ Opens(keyfile'.content, job[q].pass)
    BY AtRiskGrows, HoldsStays DEF KeysHeld
  <2> QED
    BY <1>3, <2>1, <2>2 DEF KeysHeld, At
<1>4. ASSUME key'[q] = key[q], pc[q] = "new",
             pc'[q] = pc[q] \/ pc'[q] \notin {"new", "key", "resolve", "token", "send"}
      PROVE  Kept(q)
  BY <1>4 DEF KeysHeld
<1> QED
  BY <1>1, <1>2, <1>3, <1>4, KeySteps

(* A snapshot is made by the Send of a backup.                             *)
LEMMA SnapshotSteps ==
  ASSUME TypeInv, [Next]_vars
  PROVE  \/ UNCHANGED snapshots
         \/ \E p \in Commands :
              /\ pc[p] = "send" /\ job[p].cmd = "backup" /\ UNCHANGED <<job, key>>
              /\ snapshots' = snapshots \union {[by |-> p, key |-> key[p]]}
<1> USE DEF files, outcome
<1>1. ASSUME NEW p \in Commands, NEW j \in Jobs, Start(p, j) PROVE UNCHANGED snapshots
  BY <1>1 DEF Start
<1>2. ASSUME NEW p \in Commands, Fail(p) \/ Kill(p) PROVE UNCHANGED snapshots
  BY <1>2 DEF Fail, Kill
<1>3. ASSUME NEW p \in Commands,
             LoginLoad(p) \/ LoginTruncate(p) \/ LoginSave(p) \/ LoginStore(p)
      PROVE  UNCHANGED snapshots
  BY <1>3 DEF LoginLoad, LoginTruncate, LoginSave, LoginStore
<1>4. ASSUME NEW p \in Commands, KeyStat(p) \/ KeyOpen(p) \/ KeyWrite(p)
      PROVE  UNCHANGED snapshots
  BY <1>4 DEF KeyStat, KeyOpen, KeyWrite
<1>5. ASSUME NEW p \in Commands, LoadKey(p) \/ Resolve(p) \/ RetrieveToken(p)
      PROVE  UNCHANGED snapshots
  BY <1>5 DEF LoadKey, Resolve, RetrieveToken
<1>6. ASSUME NEW p \in Commands, Send(p)
      PROVE  \/ UNCHANGED snapshots
             \/ /\ pc[p] = "send" /\ job[p].cmd = "backup" /\ UNCHANGED <<job, key>>
                /\ snapshots' = snapshots \union {[by |-> p, key |-> key[p]]}
  BY <1>6 DEF Send, At
<1>7. CASE UNCHANGED vars
  BY <1>7 DEF vars
<1> QED
  BY <1>1, <1>2, <1>3, <1>4, <1>5, <1>6, <1>7 DEF Next, Over

LEMMA SnapshotsKeptNext ==
  ASSUME TypeInv, WritesAlone, KeysHeld, SnapshotsKept, [Next]_vars
  PROVE  SnapshotsKept'
<1> DEFINE Kept(s) ==
      /\ job'[s.by].encrypt \/ job'[s.by].keyfile => s.key # None
      /\ s.key # None /\ s.key \notin atRisk' =>
           /\ Reads(keyfile') /\ keyfile'.content.key = s.key
           /\ Opens(keyfile'.content, job'[s.by].pass)
      /\ pc'[s.by] # "new"
<1>1. ASSUME NEW s \in snapshots PROVE Kept(s)
  <2>1. s.by \in Commands /\ pc[s.by] # "new"
    BY DEF TypeInv, TypeOK, SnapshotsKept
  <2>2. pc'[s.by] # "new" /\ job'[s.by] = job[s.by]
    BY <2>1, Stable
  <2>3. s.key # None /\ s.key \notin atRisk' =>
          /\ Reads(keyfile') /\ keyfile'.content.key = s.key
          /\ Opens(keyfile'.content, job[s.by].pass)
    BY AtRiskGrows, HoldsStays DEF SnapshotsKept, KeyOfSnapshotKept
  <2> QED
    BY <2>2, <2>3 DEF SnapshotsKept, KeyOfSnapshotKept
<1>2. ASSUME NEW p \in Commands, pc[p] = "send", job[p].cmd = "backup", UNCHANGED <<job, key>>
      PROVE  Kept([by |-> p, key |-> key[p]])
  <2>1. pc'[p] # "new"
    BY <1>2, Stable
  <2>2. key[p] # None /\ key[p] \notin atRisk' =>
          /\ Reads(keyfile') /\ keyfile'.content.key = key[p]
          /\ Opens(keyfile'.content, job[p].pass)
    BY AtRiskGrows, HoldsStays DEF KeysHeld
  <2> QED
    BY <1>2, <2>1, <2>2 DEF KeysHeld
<1> HIDE DEF Kept
<1>3. \A s \in snapshots' : Kept(s)
  BY <1>1, <1>2, SnapshotSteps
<1> QED
  BY <1>3 DEF Kept, SnapshotsKept, KeyOfSnapshotKept, Holds, Reads, Opens

LEMMA KeysHeldInit == Init => KeysHeld /\ SnapshotsKept
BY DEF Init, KeysHeld, SnapshotsKept, KeyOfSnapshotKept, At

(* No order of creates, crashes and backups loses the key of a snapshot,   *)
(* or leaves one unencrypted that was to be encrypted, without a --force.  *)
THEOREM SnapshotsCanBeRead == Spec => []KeyOfSnapshotKept
<1>1. SnapshotsKept => KeyOfSnapshotKept
  BY DEF SnapshotsKept
<1> QED
  BY <1>1, WritesAloneInit, WritesAloneNext, KeysHeldInit, KeysHeldNext, SnapshotsKeptNext,
     TypeInit, TypeNext, PTL DEF Spec
-----------------------------------------------------------------------------
(* Proofs about what logins that fail, are killed or follow each other     *)
(* leave in config.json and the Keychain.                                  *)

(* Without rivals one login at a time changes config.json, and what it     *)
(* finds there when it writes is the empty file it left itself.  The last  *)
(* login that reported success is forgotten as soon as another truncates.  *)
OneLogin ==
  /\ ~rivals => \A p, q \in Commands : LoggingIn(p) /\ LoggingIn(q) => p = q
  /\ last # None => pc[last] = "ok" /\ \A q \in Commands : pc[q] \notin {"save", "store"}
  /\ \A p \in Commands :
       /\ ~rivals /\ pc[p] = "save" => config = Garbled(0)
       /\ ~rivals /\ pc[p] = "store" => Reads(config) /\ config.content = cfg[p]

(* While logins come one after the other, a fingerprint that was saved is  *)
(* in every config.json that parses: those that fail or are killed between *)
(* truncate and write leave a file that does not.                          *)
PinIsKept ==
  pinSaved /\ ~rivals => config # Missing /\ (Reads(config) => config.content.pin # None)

(* A pin that was saved is in config.json or in what the login will save.  *)
PinHeld ==
  /\ PinIsKept
  /\ \A p \in Commands :
       ~rivals /\ pinSaved /\ pc[p] \in {"truncate", "save"} => cfg[p].pin # None
-----------------------------------------------------------------------------
(* A step that is not of a login.                                          *)
Quiet ==
  /\ UNCHANGED <<config, keychain, rivals, pinSaved, last>>
  /\ \A q \in Commands :
       /\ pc'[q] \in {"login", "truncate", "save", "store"} =>
            pc'[q] = pc[q] /\ cfg'[q] = cfg[q]
       /\ pc[q] = "ok" => pc'[q] = "ok"
LoginStep(p) ==
  \/ \E j \in Jobs : Start(p, j) /\ j.cmd = "login"
  \/ LoginLoad(p) \/ LoginTruncate(p) \/ LoginSave(p) \/ LoginStore(p)

(* Only logins touch config.json and the Keychain.                         *)
LEMMA LoginSteps ==
  ASSUME TypeInv, [Next]_vars
  PROVE  Quiet \/ \E p \in Commands : LoginStep(p)
<1> USE DEF TypeInv, TypeOK, At, Go, files, history, Quiet
<1>1. ASSUME NEW p \in Commands, NEW j \in Jobs, Start(p, j), j.cmd # "login" PROVE Quiet
  <2>1. pc[p] = "new" /\ pc'[p] \in {"stat", "failed", "key", "resolve"}
    BY <1>1 DEF Start
  <2> QED
    BY <1>1, <2>1 DEF Start
<1>2. ASSUME NEW p \in Commands, Fail(p) \/ Kill(p) PROVE Quiet
  BY <1>2 DEF Fail, Kill, Running, Ended
<1>3. ASSUME NEW p \in Commands, KeyStat(p) \/ KeyOpen(p) PROVE Quiet
  BY <1>3 DEF KeyStat, KeyOpen
<1>4. ASSUME NEW p \in Commands, KeyWrite(p) PROVE Quiet
  <2>1. job[p].cmd = "key" /\ pc[p] = "writekey"
    BY <1>4 DEF KeyWrite, JobKnown, KeyJob
  <2> QED
    BY <1>4, <2>1 DEF KeyWrite, Finish
<1>5. ASSUME NEW p \in Commands, LoadKey(p) \/ Resolve(p) \/ RetrieveToken(p) PROVE Quiet
  BY <1>5 DEF LoadKey, Resolve, RetrieveToken
<1>6. ASSUME NEW p \in Commands, Send(p) PROVE Quiet
  <2>1. job[p].cmd # "login" /\ pc[p] = "send"
    BY <1>6 DEF Send, JobKnown, ClientJob
  <2> QED
    BY <1>6, <2>1 DEF Send, Finish
<1>7. CASE UNCHANGED vars
  BY <1>7 DEF vars
<1> QED
  BY <1>1, <1>2, <1>3, <1>4, <1>5, <1>6, <1>7 DEF Next, Over, LoginStep

LEMMA Saved ==
  ASSUME TypeInv, NEW p \in Commands, LoginSave(p)
  PROVE  /\ config' # Missing
         /\ Reads(config') => config'.content = cfg[p]
         /\ config = Garbled(0) => Reads(config') /\ config'.content = cfg[p]
<1>1. pc[p] = "save" /\ job[p] \in LoginJob /\ cfg[p].repo = job[p].repo
  BY DEF LoginSave, At, TypeInv, JobKnown, ToSave, LoggingIn
<1>2. cfg[p] \in Config /\ ConfigLen(cfg[p]) \in Nat
  BY <1>1, Lengths, SettingsAssumption DEF TypeInv, TypeOK, LoginJob
<1>3. config \in Text(Config) /\ config' = Write(config, cfg[p], ConfigLen(cfg[p]))
  BY DEF LoginSave, TypeInv, TypeOK
<1> QED
  BY <1>2, <1>3, WriteType
-----------------------------------------------------------------------------
LEMMA OneLoginNext ==
  ASSUME TypeInv, OneLogin, [Next]_vars
  PROVE  OneLogin'
<1> USE DEF LoggingIn
<1>1. CASE Quiet
  BY <1>1 DEF Quiet, OneLogin, Reads, TypeInv, TypeOK
<1>2. ASSUME NEW p \in Commands, NEW j \in Jobs, Start(p, j), j.cmd = "login" PROVE OneLogin'
  <2>4. ~Refused(j)
    BY <1>2 DEF Refused
  <2>1. /\ pc' = [pc EXCEPT ![p] = "login"] /\ pc[p] = "new" /\ UNCHANGED <<config, cfg, last>>
        /\ ~rivals' => ~rivals /\ \A q \in Commands : ~LoggingIn(q)
    <3>1. pc' = [pc EXCEPT ![p] = "login"]
      BY <1>2, <2>4 DEF Start, Go
    <3>2. pc[p] = "new" /\ UNCHANGED <<config, cfg, last>>
      BY <1>2 DEF Start, At, files
    <3>3. ~rivals' => ~rivals /\ \A q \in Commands : ~LoggingIn(q)
      <4>1. rivals' = (rivals \/ (j.cmd = "login" /\ \E q \in Commands : LoggingIn(q)))
        BY <1>2 DEF Start
      <4> QED
        BY <1>2, <4>1
    <3> QED
      BY <3>1, <3>2, <3>3
  <2>2. \A q \in Commands : pc'[q] = IF q = p THEN "login" ELSE pc[q]
    BY <2>1 DEF TypeInv, TypeOK
  <2>3. ~rivals' => \A q \in Commands :
          q # p => pc'[q] \notin {"login", "truncate", "save", "store"}
    BY <2>1, <2>2
  <2> QED
    BY <2>1, <2>2, <2>3 DEF OneLogin, Reads
<1>3. ASSUME NEW p \in Commands, LoginLoad(p) PROVE OneLogin'
  <2>1. /\ pc[p] = "login" /\ pc' = [pc EXCEPT ![p] = "truncate"]
        /\ UNCHANGED <<config, rivals, last>> /\ \A q \in Commands : q # p => cfg'[q] = cfg[q]
    BY <1>3 DEF LoginLoad, At, Go, files, history, TypeInv, TypeOK
  <2> QED
    BY <2>1 DEF OneLogin, TypeInv, TypeOK, Reads
<1>4. ASSUME NEW p \in Commands, LoginTruncate(p) PROVE OneLogin'
  <2>1. /\ pc[p] = "truncate" /\ pc' = [pc EXCEPT ![p] = "save"]
        /\ UNCHANGED <<rivals, cfg>> /\ last' = None /\ config' = Garbled(0)
    BY <1>4 DEF LoginTruncate, At, Go
  <2> QED
    BY <2>1 DEF OneLogin, TypeInv, TypeOK, Reads
<1>5. ASSUME NEW p \in Commands, LoginSave(p) \/ LoginStore(p) PROVE OneLogin'
  <2>1. /\ pc[p] \in {"save", "store"} /\ UNCHANGED <<rivals, cfg>> /\ last = None
        /\ \/ pc' = [pc EXCEPT ![p] = "store"] /\ last' = last /\ pc[p] = "save"
           \/ pc' = [pc EXCEPT ![p] = "failed"] /\ last' = last
           \/ pc' = [pc EXCEPT ![p] = "ok"] /\ last' = IF ~rivals THEN p ELSE last
    BY <1>5 DEF LoginSave, LoginStore, TokenNotStored, Finish, At, Go, history, OneLogin,
                TypeInv, JobKnown, LoginJob
  <2>2. ~rivals => \A q \in Commands : q # p => ~LoggingIn(q)
    BY <2>1 DEF OneLogin
  <2>3. pc'[p] = "store" => LoginSave(p) /\ pc[p] = "save"
    BY <1>5, <2>1 DEF LoginSave, LoginStore, At, TypeInv, TypeOK
  <2>4. ~rivals /\ pc'[p] = "store" => Reads(config') /\ config'.content = cfg[p]
    BY <2>3, Saved DEF OneLogin
  <2> QED
    BY <2>1, <2>2, <2>4 DEF OneLogin, TypeInv, TypeOK, Reads
<1> QED
  BY <1>1, <1>2, <1>3, <1>4, <1>5, LoginSteps DEF LoginStep
-----------------------------------------------------------------------------
LEMMA LoggingInHolds ==
  \A p \in Commands :
    pc[p] \in {"login", "truncate", "save", "store"} /\ OneLogin =>
      /\ pc[p] \in {"save", "store"} => last = None
      /\ ~rivals => \A q \in Commands :
           q # p => pc[q] \notin {"login", "truncate", "save", "store"}
BY DEF OneLogin, LoggingIn

LEMMA PinHeldNext ==
  ASSUME TypeInv, OneLogin, PinHeld, [Next]_vars
  PROVE  PinHeld'
<1> DEFINE Kept == \A q \in Commands :
                     ~rivals' /\ pinSaved' /\ pc'[q] \in {"truncate", "save"} => cfg'[q].pin # None
           File == pinSaved' /\ ~rivals' =>
                     config' # Missing /\ (Reads(config') => config'.content.pin # None)
<1> SUFFICES Kept /\ File
  BY DEF PinHeld, PinIsKept, Reads
<1>1. CASE Quiet
  BY <1>1 DEF Quiet, PinHeld, PinIsKept
<1>2. ASSUME NEW p \in Commands, NEW j \in Jobs, Start(p, j), j.cmd = "login" PROVE Kept /\ File
  <2>1. UNCHANGED <<config, cfg, pinSaved>> /\ (rivals => rivals')
    BY <1>2 DEF Start, files
  <2>2. \A q \in Commands : pc'[q] \in {"truncate", "save"} => pc'[q] = pc[q]
    <3>1. pc' = [pc EXCEPT ![p] = "login"]
      <4>1. ~Refused(j)
        BY <1>2 DEF Refused
      <4> QED
        BY <1>2, <4>1 DEF Start, Go
    <3> QED
      BY <3>1 DEF TypeInv, TypeOK
  <2> QED
    BY <2>1, <2>2 DEF PinHeld, PinIsKept
<1>3. ASSUME NEW p \in Commands, LoginLoad(p) PROVE Kept /\ File
  <2>1. /\ UNCHANGED <<config, rivals, pinSaved>>
        /\ \A q \in Commands : q # p => pc'[q] = pc[q] /\ cfg'[q] = cfg[q]
    BY <1>3 DEF LoginLoad, Go, files, history, TypeInv, TypeOK
  <2>2. PICK c \in Config : Load(c) /\ cfg'[p] = SetLogin(c, job[p])
    BY <1>3 DEF LoginLoad, TypeInv, TypeOK
  <2>3. pinSaved /\ ~rivals => c.pin # None
    BY <2>2 DEF Load, PinHeld, PinIsKept
  <2>4. pinSaved /\ ~rivals => cfg'[p].pin # None
    BY <2>2, <2>3 DEF SetLogin
  <2> QED
    BY <2>1, <2>4 DEF PinHeld, PinIsKept
<1>4. ASSUME NEW p \in Commands, LoginTruncate(p) PROVE Kept /\ File
  <2>1. /\ pc[p] = "truncate" /\ pc' = [pc EXCEPT ![p] = "save"]
        /\ UNCHANGED <<rivals, pinSaved, cfg>> /\ config' = Garbled(0)
    BY <1>4 DEF LoginTruncate, At, Go
  <2>2. Garbled(0) # Missing /\ ~Reads(Garbled(0))
    BY DEF Garbled, Missing, Reads
  <2> QED
    BY <2>1, <2>2 DEF PinHeld, TypeInv, TypeOK
<1>5. ASSUME NEW p \in Commands, LoginSave(p) PROVE Kept /\ File
  <2>1. /\ pc[p] = "save" /\ pc'[p] \in {"store", "ok"} /\ UNCHANGED <<rivals, cfg>>
        /\ pinSaved' = (pinSaved \/ cfg[p].pin # None)
        /\ \A q \in Commands : q # p => pc'[q] = pc[q]
    BY <1>5 DEF LoginSave, Finish, At, Go, TypeInv, TypeOK
  <2>2. Kept
    BY <2>1, LoggingInHolds
  <2>3. pinSaved' /\ ~rivals' => cfg[p].pin # None
    BY <2>1 DEF PinHeld
  <2> QED
    BY <1>5, <2>2, <2>3, Saved
<1>6. ASSUME NEW p \in Commands, LoginStore(p) PROVE Kept /\ File
  <2>1. /\ UNCHANGED <<config, rivals, pinSaved, cfg>> /\ pc'[p] \in {"ok", "failed"}
        /\ \A q \in Commands : q # p => pc'[q] = pc[q]
    BY <1>6 DEF LoginStore, TokenNotStored, Finish, Go, TypeInv, TypeOK
  <2> QED
    BY <2>1 DEF PinHeld, PinIsKept
<1> HIDE DEF Kept, File
<1> QED
  BY <1>1, <1>2, <1>3, <1>4, <1>5, <1>6, LoginSteps DEF LoginStep

LEMMA LoginInit == Init => OneLogin /\ PinHeld /\ LoginTakesEffect
BY DEF Init, OneLogin, PinHeld, PinIsKept, LoginTakesEffect, LoggingIn


(* A pin that a login which has started brought along, or none.            *)
OfLogin(places, jobs, c) ==
  c = None \/ \E q \in Commands : places[q] # "new" /\ jobs[q].cmd = "login" /\ jobs[q].pin = c

(* Where the pins in config.json and in the commands come from, and that a *)
(* command which resolved after a pin was saved has one.                   *)
PinsKnown ==
  /\ Reads(config) => OfLogin(pc, job, config.content.pin)
  /\ \A p \in Commands :
       /\ pc[p] \in {"truncate", "save"} => OfLogin(pc, job, cfg[p].pin)
       /\ pc[p] \in {"token", "send"} =>
            /\ OfLogin(pc, job, cfg[p].pin) \/ cfg[p].pin = job[p].pin
            /\ p \in bound => cfg[p].pin # None
       /\ p \in bound => pc[p] \in {"token", "send"} \union Ended
  /\ \A r \in requests : pc[r.by] \in Ended
Pins == PinsKnown /\ PinBinds

LEMMA PinsInit == Init => Pins
BY DEF Init, Pins, PinsKnown, PinBinds, Missing, Reads

LEMMA OfLoginStable ==
  ASSUME TypeInv, [Next]_vars, NEW c, OfLogin(pc, job, c)
  PROVE  OfLogin(pc', job', c)
BY Stable DEF OfLogin

(* A step that changes no pin and sends no request.                        *)
Pinless ==
  /\ UNCHANGED <<config, bound, requests>>
  /\ \A q \in Commands :
       /\ pc'[q] \in {"truncate", "save"} => pc[q] \in {"truncate", "save"} /\ cfg'[q] = cfg[q]
       /\ pc'[q] \in {"token", "send"} => pc[q] \in {"token", "send"} /\ cfg'[q] = cfg[q]
       /\ pc[q] \in {"token", "send"} \union Ended => pc'[q] \in {"token", "send"} \union Ended
       /\ pc[q] \in Ended => pc'[q] \in Ended

LEMMA PinSteps ==
  ASSUME TypeInv, [Next]_vars
  PROVE  \/ Pinless
         \/ \E p \in Commands : \/ LoginLoad(p) \/ LoginTruncate(p) \/ LoginSave(p)
                                \/ Resolve(p) \/ Send(p)
<1> USE DEF TypeInv, TypeOK, At, Go, Ended, files, history, outcome, Pinless
<1>1. ASSUME NEW p \in Commands, NEW j \in Jobs, Start(p, j) PROVE Pinless
  <2>1. pc[p] = "new" /\ pc'[p] \in {"login", "stat", "failed", "key", "resolve"}
    BY <1>1 DEF Start
  <2> QED
    BY <1>1, <2>1 DEF Start
<1>2. ASSUME NEW p \in Commands, Fail(p) \/ Kill(p) PROVE Pinless
  BY <1>2 DEF Fail, Kill
<1>3. ASSUME NEW p \in Commands, LoginStore(p) PROVE Pinless
  BY <1>3 DEF LoginStore, TokenNotStored, Finish
<1>4. ASSUME NEW p \in Commands, KeyStat(p) \/ KeyOpen(p) \/ KeyWrite(p) PROVE Pinless
  BY <1>4 DEF KeyStat, KeyOpen, KeyWrite, Finish
<1>5. ASSUME NEW p \in Commands, LoadKey(p) \/ RetrieveToken(p) PROVE Pinless
  BY <1>5 DEF LoadKey, RetrieveToken
<1>6. CASE UNCHANGED vars
  BY <1>6 DEF vars
<1> QED
  BY <1>1, <1>2, <1>3, <1>4, <1>5, <1>6 DEF Next, Over

(* A pin that config.Load returns is that of a login.                      *)
LEMMA LoadedPin ==
  ASSUME TypeInv, PinsKnown, PinHeld, NEW c, Load(c)
  PROVE  OfLogin(pc, job, c.pin) /\ (pinSaved /\ ~rivals => c.pin # None)
BY DEF Load, NoConfig, PinsKnown, OfLogin, PinHeld, PinIsKept

LEMMA NamedStable ==
  ASSUME TypeInv, [Next]_vars, NEW c, NEW p \in Commands, pc[p] # "new", Named(c, p)
  PROVE  \E q \in Commands :
           /\ pc'[q] # "new" /\ (q = p \/ job'[q].cmd = "login")
           /\ job'[q].cmd # "key" /\ job'[q].pin = c
BY Stable DEF Named, At

LEMMA PinsKnownNext ==
  ASSUME TypeInv, PinHeld, PinsKnown, [Next]_vars
  PROVE  PinsKnown'
<1> DEFINE File == Reads(config') => OfLogin(pc', job', config'.content.pin)
           Mine(q) ==
             /\ pc'[q] \in {"truncate", "save"} => OfLogin(pc', job', cfg'[q].pin)
             /\ pc'[q] \in {"token", "send"} =>
                  /\ OfLogin(pc', job', cfg'[q].pin) \/ cfg'[q].pin = job'[q].pin
                  /\ q \in bound' => cfg'[q].pin # None
             /\ q \in bound' => pc'[q] \in {"token", "send"} \union Ended
           Sent == \A r \in requests' : pc'[r.by] \in Ended
<1> SUFFICES File /\ Sent /\ \A q \in Commands : Mine(q)
  BY DEF PinsKnown, OfLogin, Reads
<1>1. UNCHANGED config => File
  BY OfLoginStable DEF PinsKnown, Reads
<1>2. ASSUME UNCHANGED requests, \A q \in Commands : pc[q] \in Ended => pc'[q] \in Ended
      PROVE  Sent
  BY <1>2 DEF PinsKnown, TypeInv, TypeOK
<1>3. ASSUME NEW q \in Commands, UNCHANGED bound,
             /\ pc'[q] \in {"truncate", "save"} => pc[q] \in {"truncate", "save"} /\ cfg'[q] = cfg[q]
             /\ pc'[q] \in {"token", "send"} => pc[q] \in {"token", "send"} /\ cfg'[q] = cfg[q]
             /\ pc[q] \in {"token", "send"} \union Ended => pc'[q] \in {"token", "send"} \union Ended
      PROVE  Mine(q)
  <2>1. pc'[q] \in {"truncate", "save"} => OfLogin(pc', job', cfg'[q].pin)
    BY <1>3, OfLoginStable DEF PinsKnown
  <2>2. ASSUME pc'[q] \in {"token", "send"}
        PROVE  OfLogin(pc', job', cfg'[q].pin) \/ cfg'[q].pin = job'[q].pin
    <3>1. pc[q] \in {"token", "send"} /\ cfg'[q] = cfg[q] /\ job'[q] = job[q]
      BY <1>3, <2>2, Stable
    <3> QED
      BY <3>1, OfLoginStable DEF PinsKnown
  <2>3. q \in bound' => /\ pc'[q] \in {"token", "send"} \union Ended
                        /\ pc'[q] \in {"token", "send"} => cfg'[q].pin # None
    BY <1>3 DEF PinsKnown
  <2> QED
    BY <2>1, <2>2, <2>3
<1>4. CASE Pinless
  <2>1. \A q \in Commands : Mine(q)
    BY <1>3, <1>4 DEF Pinless
  <2>2. File /\ Sent
    BY <1>1, <1>2, <1>4 DEF Pinless
  <2> QED
    BY <2>1, <2>2
<1>5. ASSUME NEW p \in Commands, LoginLoad(p) PROVE File /\ Sent /\ \A q \in Commands : Mine(q)
  <2>1. /\ pc[p] = "login" /\ pc' = [pc EXCEPT ![p] = "truncate"]
        /\ UNCHANGED <<config, job, requests, bound>>
    BY <1>5 DEF LoginLoad, At, Go, files, outcome, history
  <2>2. PICK c \in Config : Load(c) /\ cfg' = [cfg EXCEPT ![p] = SetLogin(c, job[p])]
    BY <1>5 DEF LoginLoad
  <2>3. job[p] \in LoginJob /\ pc'[p] = "truncate" /\ cfg'[p].pin \in {c.pin, job[p].pin}
    BY <2>1, <2>2 DEF TypeInv, TypeOK, JobKnown, LoggingIn, SetLogin
  <2>4. OfLogin(pc', job', cfg'[p].pin)
    <3>1. CASE cfg'[p].pin = c.pin
      BY <2>2, <3>1, LoadedPin, OfLoginStable
    <3>2. CASE cfg'[p].pin = job[p].pin
      BY <2>1, <2>3, <3>2 DEF OfLogin, LoginJob
    <3> QED
      BY <2>3, <3>1, <3>2
  <2>5. Mine(p)
    BY <2>1, <2>3, <2>4 DEF PinsKnown, Ended
  <2>6. ASSUME NEW q \in Commands, q # p PROVE Mine(q)
    <3>1. pc'[q] = pc[q] /\ cfg'[q] = cfg[q]
      BY <2>1, <2>2, <2>6 DEF TypeInv, TypeOK
    <3> QED
      BY <1>3, <2>1, <3>1
  <2>7. Sent
    BY <1>2, <2>1 DEF TypeInv, TypeOK, Ended
  <2> HIDE DEF Mine, File, Sent
  <2> QED
    BY <1>1, <2>1, <2>5, <2>6, <2>7
<1>6. ASSUME NEW p \in Commands, LoginTruncate(p)
      PROVE  File /\ Sent /\ \A q \in Commands : Mine(q)
  <2>1. /\ pc[p] = "truncate" /\ pc' = [pc EXCEPT ![p] = "save"]
        /\ UNCHANGED <<job, cfg, requests, bound>> /\ ~Reads(config')
    BY <1>6 DEF LoginTruncate, At, Go, outcome, Garbled, Reads
  <2>2. ASSUME NEW q \in Commands PROVE Mine(q)
    BY <1>3, <2>1 DEF TypeInv, TypeOK, Ended
  <2>3. Sent
    BY <1>2, <2>1 DEF TypeInv, TypeOK, Ended
  <2> QED
    BY <2>1, <2>2, <2>3
<1>7. ASSUME NEW p \in Commands, LoginSave(p) PROVE File /\ Sent /\ \A q \in Commands : Mine(q)
  <2>1. /\ pc[p] = "save" /\ UNCHANGED <<job, cfg, requests, bound>>
        /\ pc' = [pc EXCEPT ![p] = "store"] \/ pc' = [pc EXCEPT ![p] = "ok"]
    BY <1>7 DEF LoginSave, Finish, At, Go, outcome
  <2>2. ASSUME NEW q \in Commands PROVE Mine(q)
    BY <1>3, <2>1 DEF TypeInv, TypeOK, Ended
  <2>3. OfLogin(pc', job', cfg[p].pin)
    BY <2>1, OfLoginStable DEF PinsKnown
  <2>4. File
    BY <1>7, <2>3, Saved
  <2>5. Sent
    BY <1>2, <2>1 DEF TypeInv, TypeOK, Ended
  <2> HIDE DEF Mine, File, Sent
  <2> QED
    BY <2>2, <2>4, <2>5
<1>8. ASSUME NEW p \in Commands, Resolve(p) PROVE File /\ Sent /\ \A q \in Commands : Mine(q)
  <2>1. /\ pc[p] = "resolve" /\ UNCHANGED <<config, job, requests>>
        /\ bound' = IF pinSaved /\ ~rivals THEN bound \union {p} ELSE bound
        /\ pc' = [pc EXCEPT ![p] = "token"] \/ pc' = [pc EXCEPT ![p] = "failed"]
    BY <1>8 DEF Resolve, At, Go, files, outcome
  <2>2. PICK c \in Config : Load(c) /\ cfg' = [cfg EXCEPT ![p] = Resolved(c, job[p])]
    BY <1>8 DEF Resolve
  <2>3. cfg'[p].pin = IF job[p].pin # None THEN job[p].pin ELSE c.pin
    BY <2>2 DEF Resolved, TypeInv, TypeOK
  <2>4. p \notin bound /\ OfLogin(pc', job', c.pin)
    BY <2>1, <2>2, LoadedPin, OfLoginStable DEF PinsKnown, Ended
  <2>5. pinSaved /\ ~rivals => cfg'[p].pin # None
    BY <2>2, <2>3, LoadedPin
  <2>6. Mine(p)
    <3>1. pc'[p] \in {"token", "failed"} /\ (p \in bound' => cfg'[p].pin # None)
      BY <2>1, <2>4, <2>5 DEF TypeInv, TypeOK
    <3>2. OfLogin(pc', job', cfg'[p].pin) \/ cfg'[p].pin = job'[p].pin
      BY <2>1, <2>3, <2>4
    <3> QED
      BY <3>1, <3>2 DEF Ended
  <2>7. ASSUME NEW q \in Commands, q # p PROVE Mine(q)
    <3>1. pc'[q] = pc[q] /\ cfg'[q] = cfg[q] /\ (q \in bound' <=> q \in bound)
      BY <2>1, <2>2, <2>7 DEF TypeInv, TypeOK
    <3>2. pc'[q] \in {"token", "send"} => job'[q] = job[q]
      BY <2>1
    <3> QED
      BY <3>1, <3>2, OfLoginStable DEF PinsKnown
  <2>8. Sent
    BY <1>2, <2>1 DEF TypeInv, TypeOK, Ended
  <2> HIDE DEF Mine, File, Sent
  <2> QED
    BY <1>1, <2>1, <2>6, <2>7, <2>8
<1>9. ASSUME NEW p \in Commands, Send(p) PROVE File /\ Sent /\ \A q \in Commands : Mine(q)
  <2>1. /\ pc[p] = "send" /\ UNCHANGED <<config, job, cfg, bound>>
        /\ pc' = [pc EXCEPT ![p] = "ok"] \/ pc' = [pc EXCEPT ![p] = "failed"]
        /\ requests' = requests \union {[by |-> p, to |-> cfg[p].repo, token |-> token[p]]}
    BY <1>9 DEF Send, Finish, At, Go, files
  <2>2. ASSUME NEW q \in Commands PROVE Mine(q)
    BY <1>3, <2>1 DEF TypeInv, TypeOK, Ended
  <2>3. Sent
    BY <2>1 DEF PinsKnown, TypeInv, TypeOK, Ended
  <2> HIDE DEF Mine, File, Sent
  <2> QED
    BY <1>1, <2>1, <2>2, <2>3
<1> HIDE DEF Mine, File, Sent
<1> QED
  BY <1>4, <1>5, <1>6, <1>7, <1>8, <1>9, PinSteps

LEMMA PinBindsNext ==
  ASSUME TypeInv, Pins, [Next]_vars
  PROVE  PinBinds'
<1> DEFINE Bound(r) == r.by \in bound' =>
             \E q \in Commands :
               /\ pc'[q] # "new" /\ (q = r.by \/ job'[q].cmd = "login")
               /\ job'[q].cmd # "key" /\ job'[q].pin = CertOf[r.to]
<1> SUFFICES ASSUME NEW r \in requests' PROVE Bound(r)
  BY DEF PinBinds, Named, At
<1>1. CASE r \in requests
  <2>1. r.by \in Commands /\ pc[r.by] \in Ended
    BY <1>1 DEF Pins, PinsKnown, TypeInv, TypeOK
  <2>2. r.by \in bound' => r.by \in bound
    <3>1. ASSUME NEW p \in Commands, Resolve(p) PROVE p # r.by /\ bound' \subseteq bound \union {p}
      BY <2>1, <3>1 DEF Resolve, At, Ended
    <3>2. ASSUME NEW p \in Commands,
                 LoginLoad(p) \/ LoginTruncate(p) \/ LoginSave(p) \/ Send(p)
          PROVE  UNCHANGED bound
      BY <3>2 DEF LoginLoad, LoginTruncate, LoginSave, Send, history
    <3> QED
      BY <3>1, <3>2, PinSteps DEF Pinless
  <2>3. r.by \in bound => Named(CertOf[r.to], r.by)
    BY <1>1 DEF Pins, PinBinds
  <2>4. pc[r.by] # "new"
    BY <2>1 DEF Ended
  <2> QED
    BY <2>1, <2>2, <2>3, <2>4, NamedStable
<1>2. CASE r \notin requests
  <2>1. PICK p \in Commands : Send(p)
    <3>1. ASSUME NEW p \in Commands,
                 LoginLoad(p) \/ LoginTruncate(p) \/ LoginSave(p) \/ Resolve(p)
          PROVE  UNCHANGED requests
      BY <3>1 DEF LoginLoad, LoginTruncate, LoginSave, Resolve, outcome
    <3> QED
      BY <1>2, <3>1, PinSteps DEF Pinless
  <2>2. /\ pc[p] = "send" /\ job[p] \in ClientJob /\ UNCHANGED bound
        /\ r = [by |-> p, to |-> cfg[p].repo, token |-> token[p]]
        /\ cfg[p].pin # None => CertOf[cfg[p].repo] = cfg[p].pin
    BY <1>2, <2>1 DEF Send, At, Accepts, TypeInv, JobKnown
  <2>3. CASE p \notin bound
    BY <2>2, <2>3
  <2>4. CASE p \in bound
    <3>1. CertOf[r.to] = cfg[p].pin /\ cfg[p].pin # None /\ r.by = p
      BY <2>2, <2>4 DEF Pins, PinsKnown
    <3>2. Named(cfg[p].pin, p)
      <4>1. CASE cfg[p].pin = job[p].pin
        BY <2>2, <4>1 DEF Named, At, ClientJob
      <4>2. CASE OfLogin(pc, job, cfg[p].pin)
        BY <3>1, <4>2 DEF Named, At, OfLogin
      <4> QED
        BY <2>2, <4>1, <4>2 DEF Pins, PinsKnown
    <3>3. pc[p] # "new"
      BY <2>2
    <3> QED
      BY <3>1, <3>2, <3>3, NamedStable
  <2> QED
    BY <2>3, <2>4
<1> QED
  BY <1>1, <1>2

(* A command that reads config.json after a fingerprint was saved talks to *)
(* no server whose certificate neither it nor a login has named, whichever *)
(* logins fail, are killed or keep the pin of another server, for any      *)
(* number of commands.                                                     *)
THEOREM PinsBind == Spec => []PinBinds
<1>1. Pins <=> PinsKnown /\ PinBinds
  BY DEF Pins
<1>2. TypeInv /\ PinHeld /\ Pins /\ [Next]_vars => Pins'
  BY <1>1, PinsKnownNext, PinBindsNext DEF Pins
<1> QED
  BY <1>1, <1>2, PinsInit, LoginInit, OneLoginNext, PinHeldNext, TypeInit, TypeNext, PTL DEF Spec
-----------------------------------------------------------------------------
LEMMA LoginTakesEffectNext ==
  ASSUME TypeInv, OneLogin, LoginTakesEffect, [Next]_vars
  PROVE  LoginTakesEffect'
<1> SUFFICES ASSUME last' # None
             PROVE  /\ Reads(config') /\ config'.content.repo = job'[last'].repo
                    /\ job'[last'].pin # None => config'.content.pin = job'[last'].pin
                    /\ job'[last'].token /\ job'[last'].json =>
                         keychain'[job'[last'].repo] = last'
  BY DEF LoginTakesEffect, Reads
<1>1. Quiet => UNCHANGED <<config, keychain, last>>
  BY DEF Quiet
<1>2. CASE UNCHANGED <<config, keychain, last>>
  <2>1. job'[last] = job[last]
    BY <1>2, Stable DEF OneLogin, TypeInv, TypeOK
  <2> QED
    BY <1>2, <2>1 DEF LoginTakesEffect
<1>3. ASSUME NEW p \in Commands
      PROVE  /\ ~LoginTruncate(p)
             /\ (\E j \in Jobs : Start(p, j)) \/ LoginLoad(p) => UNCHANGED <<config, keychain, last>>
  BY DEF Start, LoginLoad, LoginTruncate, files, history
<1>4. ASSUME NEW p \in Commands, LoginSave(p) \/ LoginStore(p)
      PROVE  /\ last' = p /\ ~rivals /\ Finish(p) /\ UNCHANGED job
             /\ cfg[p].repo = job[p].repo /\ (job[p].pin # None => cfg[p].pin = job[p].pin)
  <2>1. pc[p] \in {"save", "store"} /\ last = None /\ UNCHANGED job /\ job[p].cmd = "login"
    BY <1>4, LoggingInHolds
       DEF LoginSave, LoginStore, At, TypeInv, JobKnown, LoggingIn, LoginJob
  <2>2. Finish(p)
    BY <1>4, <2>1 DEF LoginSave, LoginStore, TokenNotStored
  <2> QED
    BY <2>1, <2>2 DEF Finish, TypeInv, ToSave
<1>5. ASSUME NEW p \in Commands, LoginSave(p)
      PROVE  /\ last' = p /\ UNCHANGED job /\ Reads(config')
             /\ config'.content.repo = job[p].repo
             /\ job[p].pin # None => config'.content.pin = job[p].pin
             /\ ~job[p].token
  <2>1. config = Garbled(0)
    BY <1>4, <1>5 DEF OneLogin, LoginSave, At
  <2>2. Reads(config') /\ config'.content = cfg[p]
    BY <1>5, <2>1, Saved
  <2>3. ~job[p].token
    <3>1. SUFFICES ASSUME job[p].token PROVE FALSE
      OBVIOUS
    <3>2. pc'[p] = "store"
      BY <1>5, <3>1 DEF LoginSave, Go, TypeInv, TypeOK
    <3>3. pc'[p] = "ok"
      BY <1>4, <1>5 DEF Finish, Go, TypeInv, TypeOK
    <3> QED
      BY <3>2, <3>3
  <2> QED
    BY <1>4, <1>5, <2>2, <2>3
<1>6. ASSUME NEW p \in Commands, LoginStore(p)
      PROVE  /\ last' = p /\ UNCHANGED job /\ Reads(config')
             /\ config'.content.repo = job[p].repo
             /\ job[p].pin # None => config'.content.pin = job[p].pin
             /\ job[p].token /\ job[p].json => keychain'[job[p].repo] = p
  <2>1. UNCHANGED config /\ Reads(config) /\ config.content = cfg[p]
    BY <1>4, <1>6 DEF OneLogin, LoginStore, At
  <2>2. job[p].repo \in Repos
    BY <1>6 DEF LoginStore, At, TypeInv, JobKnown, LoggingIn, LoginJob
  <2>3. job[p].json => keychain'[job[p].repo] = p
    <3>1. CASE keychain' = [keychain EXCEPT ![job[p].repo] = p]
      BY <2>2, <3>1 DEF TypeInv, TypeOK
    <3>2. CASE TokenNotStored(p)
      BY <1>4, <1>6, <3>2 DEF TokenNotStored, Finish, Go, TypeInv, TypeOK
    <3> QED
      BY <1>6, <3>1, <3>2 DEF LoginStore
  <2> QED
    BY <1>4, <1>6, <2>1, <2>3
<1> QED
  BY <1>1, <1>2, <1>3, <1>5, <1>6, LoginSteps DEF LoginStep

(* The last login that reported success, no other one beside it, has taken *)
(* effect, for any number of other commands beside and before it.          *)
THEOREM LoginsTakeEffect == Spec => []LoginTakesEffect
BY LoginInit, OneLoginNext, LoginTakesEffectNext, TypeInit, TypeNext, PTL DEF Spec
=============================================================================
