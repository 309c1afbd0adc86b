------------------------------ MODULE Keyring ------------------------------
(***************************************************************************)
(* The operator's machine: the credentials that `scopuli login` keeps in   *)
(* the platform's keychain or, where that fails, in a file                 *)
(* (internal/keyring), and the processes that use them: the commands of    *)
(* the CLI (client.EnvOrKeyring) and `scopuli mcp-serve` (runMcp).         *)
(*                                                                         *)
(* The keychain may be locked at one time and open at another, it may      *)
(* refuse a write though it answers reads, an entry of somebody else's may *)
(* sit in its slot, and a write of the file may be cut short.              *)
(***************************************************************************)
EXTENDS Naturals

CONSTANTS
    Vault,        \* URLs of vaults
    AnyToken,     \* operator tokens and agent keys
    Environments, \* what the environment of the processes may be
    Process,      \* commands and MCP servers that are started
    None,         \* nothing stored, or an environment variable that is not set
    Foreign,      \* a keychain entry that is not ours
    Torn,         \* a file that is not JSON
    MaxChanges    \* how often there is a login, a logout or a foreign entry (bound)

\* The two fields of Credentials; an environment has one token variable more.
Credentials == [url : Vault, token : AnyToken]
Environment == [SCOPULI_URL : Vault \cup {None}, SCOPULI_KEY : AnyToken \cup {None},
                SCOPULI_OPERATOR_TOKEN : AnyToken \cup {None}]

ASSUME KeyringAssumption ==
    /\ None \notin AnyToken \cup Vault
    /\ Credentials \cap {None, Foreign, Torn} = {}
    /\ Environments \subseteq Environment
    /\ MaxChanges \in Nat

VARIABLES
    chain,     \* the keychain's entry
    file,      \* ~/.config/scopuli/credentials
    unlocked,  \* does the keychain answer reads?
    env,       \* the environment of the processes
    process,   \* per process, its kind, and the URL and token it was started with
    last,      \* what the last login or logout meant to leave (auxiliary)
    taken,     \* and whether the keychain did it (auxiliary)
    saved,     \* every pair that was ever saved (auxiliary)
    changes    \* how many changes there were

machine == <<chain, file, unlocked, env, process, last, taken, saved, changes>>

Redact(tok) == <<"redacted", tok>>

ProcessState ==
    [kind : {"none", "failed", "cli", "mcp"},
     url : Vault \cup {None},
     token : AnyToken \cup {None} \cup {Redact(tok) : tok \in AnyToken},
     answer : {"none", "ok", "denied"}]

Started(kind, url, tok) == [kind |-> kind, url |-> url, token |-> tok, answer |-> "none"]
Idle == Started("none", None, None)
Failed == Started("failed", None, None)

KeyringTypeOK ==
    /\ chain \in Credentials \cup {None, Foreign}
    /\ file \in Credentials \cup {None, Torn}
    /\ unlocked \in BOOLEAN /\ taken \in BOOLEAN
    /\ env \in Environment
    /\ process \in [Process -> ProcessState]
    /\ last \in Credentials \cup {None, Torn}
    /\ saved \subseteq Credentials
    /\ changes \in 0 .. MaxChanges

KeyringInit ==
    /\ chain \in {None, Foreign} /\ file = None
    /\ unlocked \in BOOLEAN /\ taken = unlocked
    /\ env \in Environments
    /\ process = [p \in Process |-> Idle]
    /\ last = None /\ saved = {}
    /\ changes = 0

Changed(left, inChain) ==
    /\ changes < MaxChanges
    /\ changes' = changes + 1
    /\ last' = left
    /\ taken' = inChain
    /\ UNCHANGED <<unlocked, env, process>>

\* keyring.Load; what it finds in the file may be None or Torn, errors both.
Load == IF unlocked /\ chain \in Credentials THEN chain ELSE file

\* keyring.Save: the file is left alone when the keychain takes the entry, and
\* the entry when it does not.
Login(c) ==
    /\ saved' = saved \cup {c}
    /\ \/ unlocked /\ chain' = c /\ Changed(c, TRUE) /\ UNCHANGED file
       \/ file' = c /\ Changed(c, FALSE) /\ UNCHANGED chain
       \/ file' = Torn /\ Changed(Torn, FALSE) /\ UNCHANGED chain

\* keyring.Delete: the file is removed whatever became of the entry, whose
\* deletion may fail.
DeletedFileOnFailure == IF unlocked THEN file ELSE None   \* mutant: returns after the entry
DeletedFile == None

Logout ==
    /\ \/ unlocked /\ chain' = None /\ Changed(None, TRUE)
       \/ UNCHANGED chain /\ Changed(None, FALSE)
    /\ file' = DeletedFile
    /\ UNCHANGED saved

\* The keychain is locked or unlocked.
Toggle ==
    /\ unlocked' = ~unlocked
    /\ UNCHANGED <<chain, file, env, process, last, taken, saved, changes>>

\* Somebody puts an entry of their own into our slot.
Squat ==
    /\ unlocked
    /\ chain' = Foreign
    /\ Changed(file, TRUE)
    /\ UNCHANGED <<file, saved>>
(***************************************************************************)
(* The processes read their credentials once, when they start.             *)
(***************************************************************************)
EnvToken == IF env.SCOPULI_KEY # None THEN env.SCOPULI_KEY ELSE env.SCOPULI_OPERATOR_TOKEN

\* client.EnvOrKeyring: a URL in the environment needs its token there too, and
\* a token without a URL is not looked at.
EnvKeyFirst ==                \* mutant: the environment's key for a saved URL
    IF env.SCOPULI_URL # None
    THEN IF EnvToken = None THEN Failed ELSE Started("cli", env.SCOPULI_URL, EnvToken)
    ELSE IF Load \notin Credentials THEN Failed
         ELSE Started("cli", Load.url, IF EnvToken = None THEN Load.token ELSE EnvToken)

EnvOrKeyring ==
    IF env.SCOPULI_URL # None
    THEN IF EnvToken = None THEN Failed ELSE Started("cli", env.SCOPULI_URL, EnvToken)
    ELSE IF Load \in Credentials THEN Started("cli", Load.url, Load.token) ELSE Failed

\* runMcp: what SCOPULI_URL and SCOPULI_KEY do not give is read from the output
\* of `scopuli login --show`, which has the token redacted.
HalfSet == env.SCOPULI_URL = None \/ env.SCOPULI_KEY = None

ResolveCreds ==
    Started("mcp",
            IF env.SCOPULI_URL # None THEN env.SCOPULI_URL ELSE Load.url,
            IF env.SCOPULI_KEY # None THEN env.SCOPULI_KEY ELSE Redact(Load.token))

RunMcp ==
    IF ~HalfSet THEN Started("mcp", env.SCOPULI_URL, env.SCOPULI_KEY)
    ELSE IF Load \in Credentials THEN ResolveCreds ELSE Failed

Run(p) ==
    /\ process[p].kind \in {"none", "failed"}
    /\ process' \in {[process EXCEPT ![p] = EnvOrKeyring], [process EXCEPT ![p] = RunMcp]}
    /\ UNCHANGED <<chain, file, unlocked, env, last, taken, saved, changes>>

\* One HTTP request to the vault, which admits this token or does not.  A
\* command ends with its request, an MCP server goes on.
Call(p, admitted) ==
    /\ process[p].kind \in {"cli", "mcp"}
    /\ process[p].kind = "cli" => process[p].answer = "none"
    /\ process' = [process EXCEPT ![p].answer = IF admitted THEN "ok" ELSE "denied"]
    /\ UNCHANGED <<chain, file, unlocked, env, last, taken, saved, changes>>

End(p) ==
    /\ process[p].kind \in {"cli", "mcp"}
    /\ process' = [process EXCEPT ![p] = Idle]
    /\ UNCHANGED <<chain, file, unlocked, env, last, taken, saved, changes>>

(***************************************************************************)
(* Properties.                                                             *)
(***************************************************************************)

\* A keychain that answers just if it did the last login or logout, or that has
\* no entry of ours, makes Load give what that one left, whatever earlier ones
\* left in the keychain or in the file and however often it was locked and
\* opened in between.
LastLoginCounts == unlocked = taken \/ chain \notin Credentials => Load = last

EnvPair == [url |-> env.SCOPULI_URL, token |-> EnvToken]
Redacted(c) == [c EXCEPT !.token = Redact(c.token)]
KnownPairs == saved \cup {Redacted(c) : c \in saved} \cup {EnvPair}

\* A process sends a token to no other vault than the one it was saved or set
\* with, unless it is an MCP server with half an environment, which completes
\* one pair with the other (mcp.go:41-46).
PairsStayTogether ==
    \A p \in Process : process[p].kind \in {"cli", "mcp"} =>
        \/ process[p].kind = "mcp" /\ HalfSet
                /\ (env.SCOPULI_URL # None \/ env.SCOPULI_KEY # None)
        \/ [url |-> process[p].url, token |-> process[p].token] \in KnownPairs
=============================================================================
