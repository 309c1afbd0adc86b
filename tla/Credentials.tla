---------------------------- MODULE Credentials ----------------------------
(***************************************************************************)
(* The server's operator token and those who keep a copy of it: a browser  *)
(* in its cookie (Sessions) and a machine in its keyring (Keyring).  The   *)
(* two meet only in the token, which the server may replace at any time,   *)
(* so a behaviour has one of them: what either may see of the server does  *)
(* not depend on the other.                                                *)
(***************************************************************************)
EXTENDS Sessions, Keyring

CONSTANTS
    AgentKey,    \* agent keys, which are never operator tokens
    Home,        \* the URL of this server
    Clients      \* which of "browser" and "machine" there are

ASSUME CredentialsAssumption ==
    /\ AnyToken = Token \cup AgentKey
    /\ Token \cap AgentKey = {}
    /\ Home \in Vault
    /\ Clients \subseteq {"browser", "machine"}

VARIABLE client    \* which of the two there is

allvars == <<server, browser, machine, client>>

CredentialsTypeOK == SessionsTypeOK /\ KeyringTypeOK /\ client \in Clients

CredentialsInit ==
    /\ SessionsInit /\ KeyringInit
    /\ client \in Clients
    /\ client = "browser" => chain = None /\ ~unlocked /\ env \in {e \in Environments :
            e.SCOPULI_URL = None /\ e.SCOPULI_KEY = None /\ e.SCOPULI_OPERATOR_TOKEN = None}

\* Whether the server admits this token: HTTP client's do() sends it in the
\* header of its kind, and no key is modelled here (KeyAccess has them).
Admits(tok) == Authenticate(tok) \/ tok \in AgentKey

AtBrowser == client = "browser" /\ BrowserNext /\ UNCHANGED <<machine, client>>

AtMachine ==
    /\ client = "machine"
    /\ \/ \E v \in Vault, tok \in held : Login([url |-> v, token |-> tok])
       \/ Logout
       \/ Toggle \/ Squat
       \/ \E p \in Process :
            \/ Run(p) \/ End(p)
            \/ process[p].url = Home /\ Call(p, Admits(process[p].token))
    /\ UNCHANGED <<server, browser, client>>

\* The machine sees nothing of the server but its token.
AtServer ==
    /\ \/ client = "browser" /\ ServerNext
       \/ client = "machine" /\ Rotate
    /\ UNCHANGED <<machine, client>>

CredentialsNext == AtBrowser \/ AtMachine \/ AtServer

\* The server answers what reaches it and the browser follows what it gets;
\* nobody has to open a page, log in or restart the server.
CredentialsFairness ==
    \A t \in Tab : WF_allvars(TabStep(t) /\ UNCHANGED <<machine, client>>)

CredentialsSpec ==
    CredentialsInit /\ [][CredentialsNext]_allvars /\ CredentialsFairness
=============================================================================
