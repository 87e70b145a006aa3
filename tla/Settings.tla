------------------------------ MODULE Settings ------------------------------
(***************************************************************************)
(* What pbmac keeps on a machine, and the commands that share it: `login`  *)
(* writes config.json and the Keychain, `key create` a keyfile; `list`     *)
(* (and `ping`, `archives`) and `backup` resolve repository, fingerprint,  *)
(* token and key from them and talk to a server.  Nothing is locked: the   *)
(* commands of a terminal and those of the app interleave, and any of them *)
(* may fail or be killed at any point.                                     *)
(*                                                                         *)
(* A file is written in two steps, an open that truncates and a write; the *)
(* write of these small files happens whole or not at all.  Two writers    *)
(* that both have the file open each write from its beginning: what is     *)
(* left of a longer text behind a shorter one makes it unreadable.         *)
(*                                                                         *)
(* A key and a token are named by the command that made or brought them.   *)
(***************************************************************************)
EXTENDS Naturals, FiniteSets

CONSTANTS Commands,    \* the runs of pbmac
          Repos,       \* repository specs that repo.Parse accepts
          SpecLen,     \* their lengths
          Certs,       \* fingerprints of certificates
          CertOf,      \* the certificate of each repository's server
          Trusted,     \* the certificates the system's store accepts
          Passphrases,
          Jobs,        \* the command lines that are run
          None         \* an empty flag, variable or field

(* Command lines.  repo, pin and token of a client command are those of    *)
(* its flags and environment; pass is PBS_ENCRYPTION_PASSWORD, for `key    *)
(* create` None with --kdf none.                                           *)
LoginJob == [cmd : {"login"}, repo : Repos, pin : Certs \union {None},
             token : BOOLEAN, json : BOOLEAN]
KeyJob == [cmd : {"key"}, force : BOOLEAN, pass : Passphrases \union {None}]
ClientJob == [cmd : {"list", "backup"}, repo : Repos \union {None}, pin : Certs \union {None},
              token : BOOLEAN, encrypt : BOOLEAN, keyfile : BOOLEAN,
              pass : Passphrases \union {None}]

ASSUME SettingsAssumption ==
  /\ SpecLen \in [Repos -> Nat] /\ CertOf \in [Repos -> Certs] /\ Trusted \subseteq Certs
  /\ Jobs \subseteq LoginJob \union KeyJob \union ClientJob
  /\ None \notin Commands \union Repos \union Certs \union Passphrases

VARIABLES
  config,     \* config.json
  keyfile,    \* the keyfile
  keychain,   \* the Keychain: the token stored for each repository
  pc, job,    \* of each command
  cfg,        \* the Config a command has loaded
  key, token, \* the key and the token it has loaded
  requests,   \* what was sent to servers
  snapshots,  \* the snapshots that were made, with the key their chunks are sealed with
  atRisk,     \* keys that a --force may have destroyed
  rivals,     \* whether two logins have overlapped
  pinSaved,   \* whether a fingerprint was saved
  bound,      \* commands that resolved after that, with no such overlap before
  last        \* the last login that reported success, until another one saves

files == <<config, keyfile, keychain>>
outcome == <<requests, snapshots>>
history == <<atRisk, rivals, pinSaved, bound, last>>
vars == <<files, pc, job, cfg, key, token, outcome, history>>

Config == [repo : Repos \union {None}, pin : Certs \union {None}]
NoConfig == [repo |-> None, pin |-> None]
KeyFile == [key : Commands, pass : Passphrases \union {None}]

(* The text of a file, and its length. *)
Missing == [text |-> "missing", len |-> 0]
Garbled(n) == [text |-> "garbled", len |-> n]
Reads(file) == file.text = "whole"
Whole(content, n) == [text |-> "whole", content |-> content, len |-> n]
Write(file, content, n) == IF file.len > n THEN Garbled(file.len) ELSE Whole(content, n)

ConfigLen(c) == SpecLen[c.repo] + (IF c.pin = None THEN 0 ELSE 1)
KeyLen(k) == IF k.pass = None THEN 1 ELSE 2

Init ==
  /\ config = Missing /\ keyfile = Missing
  /\ keychain = [r \in Repos |-> None]
  /\ pc = [p \in Commands |-> "new"] /\ job = [p \in Commands |-> None]
  /\ cfg = [p \in Commands |-> NoConfig]
  /\ key = [p \in Commands |-> None] /\ token = [p \in Commands |-> None]
  /\ requests = {} /\ snapshots = {}
  /\ atRisk = {} /\ rivals = FALSE /\ pinSaved = FALSE /\ bound = {} /\ last = None

At(p, place) == pc[p] = place
Go(p, place) == pc' = [pc EXCEPT ![p] = place]
Ended == {"ok", "failed", "killed"}
Running(p) == pc[p] \notin Ended \union {"new"}
LoggingIn(p) == pc[p] \in {"login", "truncate", "save", "store"}
-----------------------------------------------------------------------------
(* A command is started, up to its first access to what it shares.         *)

(* Mutant: backup takes a key like that of a dry run, which is thrown away. *)
NeverRefused(j) == FALSE
(* `backup --encrypt` without a keyfile is refused.  *)
Refused(j) == j.cmd = "backup" /\ j.encrypt /\ ~j.keyfile

Start(p, j) ==
  /\ At(p, "new")
  /\ job' = [job EXCEPT ![p] = j]
  /\ Go(p, CASE j.cmd = "login" -> "login"
             [] j.cmd = "key" -> "stat"
             [] Refused(j) -> "failed"
             [] j.cmd = "backup" /\ ~Refused(j) -> "key"
             [] OTHER -> "resolve")
  /\ rivals' = (rivals \/ (j.cmd = "login" /\ \E q \in Commands : LoggingIn(q)))
  /\ UNCHANGED <<files, cfg, key, token, outcome, atRisk, pinSaved, bound, last>>

(* A call of the system that is due fails, and the command with it.        *)
Fail(p) ==
  /\ Running(p) /\ ~At(p, "store")
  /\ Go(p, "failed")
  /\ UNCHANGED <<files, job, cfg, key, token, outcome, history>>

Kill(p) ==
  /\ Running(p)
  /\ Go(p, "killed")
  /\ UNCHANGED <<files, job, cfg, key, token, outcome, history>>
-----------------------------------------------------------------------------
(* Mutant: a config.json that does not parse is an empty Config.           *)
LoadAnyway(c) == c = IF Reads(config) THEN config.content ELSE NoConfig
(* config.Load, of login and of the client commands: no file is an empty   *)
(* Config, one that does not parse an error.                               *)
Load(c) == IF Reads(config) THEN c = config.content ELSE config = Missing /\ c = NoConfig

(* cmdLogin: --fingerprint replaces the pin only if there is one.  *)
SetLogin(c, j) == [repo |-> j.repo, pin |-> IF j.pin = None THEN c.pin ELSE j.pin]

LoginLoad(p) ==
  /\ At(p, "login")
  /\ \E c \in Config : Load(c) /\ cfg' = [cfg EXCEPT ![p] = SetLogin(c, job[p])]
  /\ Go(p, "truncate")
  /\ UNCHANGED <<files, job, key, token, outcome, history>>

(* Save: os.WriteFile opens with O_TRUNC, and writes.  *)
LoginTruncate(p) ==
  /\ At(p, "truncate")
  /\ config' = Garbled(0)
  /\ Go(p, "save")
  /\ last' = None
  /\ UNCHANGED <<keyfile, keychain, job, cfg, key, token, outcome, atRisk, rivals, pinSaved,
                 bound>>

Finish(p) ==
  /\ Go(p, "ok")
  /\ last' = IF job[p].cmd = "login" /\ ~rivals THEN p ELSE last

LoginSave(p) ==
  /\ At(p, "save")
  /\ config' = Write(config, cfg[p], ConfigLen(cfg[p]))
  /\ pinSaved' = (pinSaved \/ cfg[p].pin # None)
  /\ IF job[p].token THEN Go(p, "store") /\ UNCHANGED last ELSE Finish(p)
  /\ UNCHANGED <<keyfile, keychain, job, cfg, key, token, outcome, atRisk, rivals, bound>>

(* Mutant: a Keychain that refuses is worth a note with --json as well.    *)
TokenNoted(p) == Finish(p)
(* The Keychain refuses: an error with --json, a note and success without. *)
TokenNotStored(p) == IF job[p].json THEN Go(p, "failed") /\ UNCHANGED last ELSE Finish(p)

LoginStore(p) ==
  /\ At(p, "store")
  /\ \/ keychain' = [keychain EXCEPT ![job[p].repo] = p] /\ Finish(p)
     \/ TokenNotStored(p) /\ UNCHANGED keychain
  /\ UNCHANGED <<config, keyfile, job, cfg, key, token, outcome, atRisk, rivals, pinSaved,
                 bound>>
-----------------------------------------------------------------------------
(* cmdKeyCreate. *)

KeyStat(p) ==
  /\ At(p, "stat")
  /\ Go(p, IF keyfile = Missing \/ job[p].force THEN "open" ELSE "failed")
  /\ UNCHANGED <<files, job, cfg, key, token, outcome, history>>

(* Mutant: O_TRUNC always; the file was not there a moment ago.            *)
MayAlwaysOpen(p) == TRUE
(* O_EXCL without --force, O_TRUNC with it.  *)
MayOpen(p) == job[p].force \/ keyfile = Missing

Writing == {q \in Commands : At(q, "writekey")}
KeyOpen(p) ==
  /\ At(p, "open")
  /\ IF MayOpen(p)
     THEN keyfile' = Garbled(0) /\ Go(p, "writekey")
     ELSE UNCHANGED keyfile /\ Go(p, "failed")
  /\ atRisk' = IF ~job[p].force THEN atRisk
               ELSE atRisk \union (IF Reads(keyfile) THEN {keyfile.content.key} ELSE {})
                           \union (IF Writing # {} THEN Writing \union {p} ELSE {})
  /\ UNCHANGED <<config, keychain, job, cfg, key, token, outcome, rivals, pinSaved, bound,
                 last>>

(* EncodeKeyFile wraps the key if there is a passphrase.  *)
KeyWrite(p) ==
  /\ At(p, "writekey")
  /\ LET made == [key |-> p, pass |-> job[p].pass]
     IN keyfile' = Write(keyfile, made, KeyLen(made))
  /\ Finish(p)
  /\ UNCHANGED <<config, keychain, job, cfg, key, token, outcome, atRisk, rivals, pinSaved,
                 bound>>
-----------------------------------------------------------------------------
(* The client commands. *)

(* loadKey, LoadKeyFile: a wrapped key needs its passphrase.  *)
Opens(k, pass) == k.pass = None \/ k.pass = pass

LoadKey(p) ==
  /\ At(p, "key")
  /\ \/ ~job[p].keyfile /\ ~job[p].encrypt /\ Go(p, "resolve") /\ UNCHANGED key
     \/ ~job[p].keyfile /\ job[p].encrypt /\ Go(p, "resolve") /\ key' = [key EXCEPT ![p] = p]
     \/ /\ job[p].keyfile /\ Reads(keyfile) /\ Opens(keyfile.content, job[p].pass)
        /\ Go(p, "resolve") /\ key' = [key EXCEPT ![p] = keyfile.content.key]
     \/ /\ job[p].keyfile /\ (Reads(keyfile) => ~Opens(keyfile.content, job[p].pass))
        /\ Go(p, "failed") /\ UNCHANGED key
  /\ UNCHANGED <<files, job, cfg, token, outcome, history>>

(* resolveClient: the flag or the environment before config.json.  *)
Resolved(c, j) == [repo |-> IF j.repo # None THEN j.repo ELSE c.repo,
                   pin  |-> IF j.pin # None THEN j.pin ELSE c.pin]

(* Mutant: nothing to connect to is not noticed.                           *)
AnyRepository(r) == FALSE
NoRepository(r) == r.repo = None

Resolve(p) ==
  /\ At(p, "resolve")
  /\ \E c \in Config :
       /\ Load(c)
       /\ LET r == Resolved(c, job[p])
          IN /\ cfg' = [cfg EXCEPT ![p] = r]
             /\ Go(p, IF NoRepository(r) THEN "failed" ELSE "token")
  /\ bound' = IF pinSaved /\ ~rivals THEN bound \union {p} ELSE bound
  /\ UNCHANGED <<files, job, key, token, outcome, atRisk, rivals, pinSaved, last>>

(* Mutant: the token of the repository in config.json.                     *)
TokenOfConfig(p) ==
  IF job[p].token THEN p
  ELSE IF Reads(config) THEN keychain[config.content.repo] ELSE None
(* The environment's token, or the one the Keychain has for the spec.  *)
TokenOf(p) == IF job[p].token THEN p ELSE keychain[cfg[p].repo]

RetrieveToken(p) ==
  /\ At(p, "token")
  /\ \/ token' = [token EXCEPT ![p] = TokenOf(p)]
     \/ ~job[p].token /\ UNCHANGED token
  /\ Go(p, "send")
  /\ UNCHANGED <<files, job, cfg, key, outcome, history>>

(* tlsConfig: the pinned certificate, or one that the system trusts.  *)
Accepts(pin, cert) == IF pin # None THEN cert = pin ELSE cert \in Trusted

(* setAuth and the request; the upgrade and all of Upload are one step.    *)
Send(p) ==
  /\ At(p, "send") /\ Accepts(cfg[p].pin, CertOf[cfg[p].repo])
  /\ requests' = requests \union {[by |-> p, to |-> cfg[p].repo, token |-> token[p]]}
  /\ \/ /\ Finish(p)
        /\ snapshots' = IF job[p].cmd = "backup"
                        THEN snapshots \union {[by |-> p, key |-> key[p]]} ELSE snapshots
     \/ Go(p, "failed") /\ UNCHANGED <<snapshots, last>>
  /\ UNCHANGED <<files, job, cfg, key, token, atRisk, rivals, pinSaved, bound>>

-----------------------------------------------------------------------------
Over == (\A p \in Commands : pc[p] \in Ended) /\ UNCHANGED vars

Next ==
  \/ \E p \in Commands :
       \/ \E j \in Jobs : Start(p, j)
       \/ Fail(p) \/ Kill(p)
       \/ LoginLoad(p) \/ LoginTruncate(p) \/ LoginSave(p) \/ LoginStore(p)
       \/ KeyStat(p) \/ KeyOpen(p) \/ KeyWrite(p)
       \/ LoadKey(p) \/ Resolve(p) \/ RetrieveToken(p) \/ Send(p)
  \/ Over

Spec == Init /\ [][Next]_vars
-----------------------------------------------------------------------------
Text(Content) == {Missing} \union [text : {"garbled"}, len : Nat]
                   \union [text : {"whole"}, content : Content, len : Nat]

(* Types, and a client command has a repository from resolveClient on.     *)
TypeOK ==
  /\ config \in Text(Config) /\ keyfile \in Text(KeyFile)
  /\ keychain \in [Repos -> Commands \union {None}]
  /\ pc \in [Commands -> Ended \union {"new", "login", "truncate", "save", "store", "stat",
                                      "open", "writekey", "key", "resolve", "token", "send"}]
  /\ job \in [Commands -> Jobs \union {None}]
  /\ cfg \in [Commands -> Config]
  /\ key \in [Commands -> Commands \union {None}]
  /\ token \in [Commands -> Commands \union {None}]
  /\ requests \subseteq [by : Commands, to : Repos, token : Commands \union {None}]
  /\ snapshots \subseteq [by : Commands, key : Commands \union {None}]
  /\ atRisk \subseteq Commands /\ last \in Commands \union {None}
  /\ rivals \in BOOLEAN /\ pinSaved \in BOOLEAN /\ bound \subseteq Commands
  /\ \A p \in Commands : pc[p] \in {"token", "send"} => cfg[p].repo # None

Holds(k, pass) ==
  Reads(keyfile) /\ keyfile.content.key = k /\ Opens(keyfile.content, pass)

(* A backup that was to be encrypted is, with a key that the keyfile still *)
(* gives for the same passphrase, unless a --force came in between: no     *)
(* other order of creates, crashes and backups loses the key of a snapshot. *)
KeyOfSnapshotKept ==
  \A s \in snapshots :
    /\ job[s.by].encrypt \/ job[s.by].keyfile => s.key # None
    /\ s.key # None /\ s.key \notin atRisk => Holds(s.key, job[s.by].pass)

(* A key that `key create` has reported is in the keyfile, protected as it *)
(* was asked for, as long as no --force has opened the file since or while *)
(* it was written.                                                         *)
ReportedKeyStands ==
  \A p \in Commands :
    At(p, "ok") /\ job[p].cmd = "key" /\ p \notin atRisk =>
      Reads(keyfile) /\ keyfile.content = [key |-> p, pass |-> job[p].pass]

(* A token goes to the repository that a login stored it for, or where the *)
(* command that brought it along was sent, whatever logins change in       *)
(* config.json while a command resolves its repository.                    *)
TokenForItsRepo ==
  \A r \in requests :
    r.token \notin {None, r.by} => job[r.token].cmd = "login" /\ job[r.token].repo = r.to

(* Once a fingerprint was saved, a command that then reads config.json      *)
(* talks to no server but one whose certificate its own command line or a  *)
(* login has named: not when that login, or another, is killed in front of *)
(* its write, and not when a login to another server, without a pin of its *)
(* own, keeps the old one.  (Two logins at the same time can drop a pin:   *)
(* each saves what it loaded.)                                             *)
Named(c, p) ==
  \E q \in Commands :
    /\ ~At(q, "new") /\ (q = p \/ job[q].cmd = "login")
    /\ job[q].cmd # "key" /\ job[q].pin = c
PinBinds == \A r \in requests : r.by \in bound => Named(CertOf[r.to], r.by)

(* The last login that reported success, with no other one beside it, has  *)
(* taken effect, and keeps it until another login truncates config.json: a *)
(* login that fails or is killed before leaves it alone.  Its repository   *)
(* and fingerprint are those that the next command resolves, and with      *)
(* --json its token, too.                                                  *)
LoginTakesEffect ==
  last # None =>
    /\ Reads(config) /\ config.content.repo = job[last].repo
    /\ job[last].pin # None => config.content.pin = job[last].pin
    /\ job[last].token /\ job[last].json => keychain[job[last].repo] = last
=============================================================================
