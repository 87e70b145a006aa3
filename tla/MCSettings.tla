----------------------------- MODULE MCSettings -----------------------------
(* Two repositories, the server of the first with a certificate that the   *)
(* system does not trust, and the command lines that meet each other.      *)
EXTENDS Settings, TLC

CONSTANTS here, there, selfSigned, signed, phrase

MCSpecLen == here :> 1 @@ there :> 2
MCCertOf == here :> selfSigned @@ there :> signed

Login(repo, pin) ==
  [cmd : {"login"}, repo : {repo}, pin : {pin, None}, token : BOOLEAN, json : {TRUE}]
Client(cmd, repo, encrypt, withKey, pass) ==
  [cmd |-> cmd, repo |-> repo, pin |-> None, token |-> FALSE,
   encrypt |-> encrypt, keyfile |-> withKey, pass |-> pass]

MCJobs ==
  Login(here, selfSigned) \union Login(there, signed)
    \union {[cmd |-> "login", repo |-> there, pin |-> None, token |-> TRUE, json |-> FALSE]}
    \union [cmd : {"key"}, force : BOOLEAN, pass : {phrase, None}]
    \union {Client("list", None, FALSE, FALSE, None),
            [Client("list", there, FALSE, FALSE, None) EXCEPT !.token = TRUE],
            [Client("list", there, FALSE, FALSE, None) EXCEPT !.pin = signed],
            Client("backup", there, FALSE, FALSE, None),
            Client("backup", there, TRUE, FALSE, phrase),
            Client("backup", there, FALSE, TRUE, None),
            Client("backup", None, TRUE, TRUE, phrase)}

Symmetry == Permutations(Commands)
=============================================================================
