------------------------------ MODULE Sessions ------------------------------
(***************************************************************************)
(* The web sessions of internal/api/ui_session.go: a signed cookie that    *)
(* carries the operator token, the tabs of one browser that share it, and  *)
(* a server that restarts, replaces its token and keeps no session itself. *)
(*                                                                         *)
(* A request carries the cookie the browser had when it was sent, and the  *)
(* answer may set or clear the cookie when it arrives, in any order with   *)
(* the answers to other tabs.  The browser follows redirects by itself.    *)
(***************************************************************************)
EXTENDS Integers, FiniteSets

CONSTANTS
    Token,        \* operator tokens that can be issued
    FirstToken,   \* the one the first boot printed
    Password,     \* master passwords the server may be started with
    FirstPassword,  \* the one it runs with at first
    Tab,          \* tabs of the browser
    Lifetime,     \* uiSessionLifetime
    LastSecond,   \* the clock stops there (bound)
    MaxStarts,    \* how often the server starts (bound)
    Nil, Keep     \* no cookie, token or password; no Set-Cookie in an answer

VARIABLES
    operator,   \* the token whose hash is in the operators table
    used,       \* every token issued so far
    held,       \* the tokens the operator has seen
    password,   \* what the server was started with, Nil when it is down
    starts,     \* how often it was started
    now,        \* its clock
    jar,        \* the browser's scopuli_session cookie
    tab         \* per tab, its request and the answer to it

server == <<operator, used, held, password, starts, now>>
browser == <<jar, tab>>

\* DeriveKEK and UISessionKey: the key follows from the password alone, as
\* the salt is that of the volume (Boot).
SigningKey(p) == <<"scopuli:ui-session:v1", p>>

BootKey == <<"scopuli:ui-session:v1", starts>>         \* mutant: a key per boot
SessionKey == SigningKey(password)

\* exp and token are the payload, key signs it; password is auxiliary: what
\* the server was started with that issued it.
Cookie == [token : Token, exp : Nat, key : {SigningKey(p) : p \in Password},
           password : Password]

ASSUME SessionsAssumption ==
    /\ Lifetime \in Nat
    /\ LastSecond \in Nat
    /\ MaxStarts \in Nat \ {0}
    /\ FirstToken \in Token /\ FirstPassword \in Password
    /\ Nil \notin Token \cup Password \cup Cookie
    /\ Keep \notin Cookie \cup {Nil}

IssueUICookie(tok) ==
    [token |-> tok, exp |-> now + Lifetime, key |-> SessionKey, password |-> password]

VerifySignature(c) == c # Nil /\ c.key = SessionKey           \* mutant: no expiry
VerifyUICookie(c) == c # Nil /\ c.key = SessionKey /\ now <= c.exp

\* auth.Authenticate on the token the cookie carries or the form sent.
AuthenticateUsed(tok) == tok \in used         \* mutant: the signature is enough
Authenticate(tok) == tok = operator

TabState ==
    [at : {"rest", "sent", "answered"},
     url : {"/ui/", "/ui/login", "/ui/logout"},
     typed : Token \cup {Nil},              \* the form's token
     cookie : Cookie \cup {Nil},            \* what it was sent with
     gone : SUBSET Token,                   \* replaced by then (auxiliary)
     sent : Nat,                            \* when (auxiliary)
     failed : BOOLEAN,                      \* its lookup failed (auxiliary)
     reply : {"none", "page", "form", "to /ui/", "to /ui/login", "unreachable"},
     sets : Cookie \cup {Nil, Keep}]        \* the answer's Set-Cookie

\* A tab at rest shows the reply of its last answer and nothing else of it.
Resting(reply) ==
    [at |-> "rest", url |-> "/ui/", typed |-> Nil, cookie |-> Nil, gone |-> {},
     sent |-> 0, failed |-> FALSE, reply |-> reply, sets |-> Keep]

Request(url, tok, cookie) ==
    [at |-> "sent", url |-> url, typed |-> tok, cookie |-> cookie,
     gone |-> used \ {operator}, sent |-> now, failed |-> FALSE,
     reply |-> "none", sets |-> Keep]

SessionsTypeOK ==
    /\ operator \in used /\ used \subseteq Token /\ held \subseteq used
    /\ password \in Password \cup {Nil}
    /\ starts \in 0 .. MaxStarts
    /\ now \in 0 .. LastSecond
    /\ jar \in Cookie \cup {Nil}
    /\ tab \in [Tab -> TabState]
    /\ \A t \in Tab : tab[t].cookie # Nil =>
          tab[t].cookie.key = SigningKey(tab[t].cookie.password)

SessionsInit ==
    /\ operator = FirstToken /\ used = {FirstToken} /\ held = {FirstToken}
    /\ password = FirstPassword /\ starts = 1 /\ now = 0
    /\ jar = Nil
    /\ tab = [t \in Tab |-> Resting("none")]

(***************************************************************************)
(* The server: it stops and starts, time passes, the token is replaced.    *)
(***************************************************************************)
Stop ==
    /\ password # Nil
    /\ password' = Nil
    /\ UNCHANGED <<operator, used, held, starts, now, browser>>

Start ==
    /\ password = Nil /\ starts < MaxStarts
    /\ password' \in Password
    /\ starts' = starts + 1
    /\ UNCHANGED <<operator, used, held, now, browser>>

Tick ==
    /\ now < LastSecond
    /\ now' = now + 1
    /\ UNCHANGED <<operator, used, held, password, starts, browser>>

\* POST /api/operator/rotate by somebody who has the token (Rotation has its
\* steps).  The answer with the new token may not arrive.
Rotate ==
    /\ password # Nil /\ operator \in held
    /\ \E fresh \in Token \ used :
        /\ operator' = fresh
        /\ used' = used \cup {fresh}
        /\ held' \in {held, held \cup {fresh}}
    /\ UNCHANGED <<password, starts, now, browser>>

(***************************************************************************)
(* The browser sends.                                                      *)
(***************************************************************************)
Open(t) ==
    /\ tab[t].at = "rest"
    /\ \E url \in {"/ui/", "/ui/login"} : tab' = [tab EXCEPT ![t] = Request(url, Nil, jar)]
    /\ UNCHANGED <<server, jar>>

Submit(t) ==
    /\ tab[t].at = "rest" /\ tab[t].reply = "form"
    /\ \E tok \in held : tab' = [tab EXCEPT ![t] = Request("/ui/login", tok, jar)]
    /\ UNCHANGED <<server, jar>>

AskLogout(t) ==
    /\ tab[t].at = "rest" /\ tab[t].reply = "page"
    /\ tab' = [tab EXCEPT ![t] = Request("/ui/logout", Nil, jar)]
    /\ UNCHANGED <<server, jar>>

(***************************************************************************)
(* The server answers.                                                     *)
(***************************************************************************)
Asked(t, url) == password # Nil /\ tab[t].at = "sent" /\ tab[t].url = url

Answer(t, reply, sets, failed) ==
    /\ tab' = [tab EXCEPT ![t].at = "answered", ![t].reply = reply,
                          ![t].sets = sets, ![t].failed = failed]
    /\ UNCHANGED <<server, jar>>

\* requireUISession: no cookie or a bad one sends to the login page; a good
\* one whose token is not the operator's, or cannot be looked up, is cleared.
NoSession(t) ==
    /\ Asked(t, "/ui/") \/ Asked(t, "/ui/logout")
    /\ ~VerifyUICookie(tab[t].cookie)
    /\ Answer(t, "to /ui/login", Keep, FALSE)

NotCleared == Keep                        \* mutant: clearUICookie is forgotten
Cleared == Nil

StaleSession(t) ==
    /\ Asked(t, "/ui/") \/ Asked(t, "/ui/logout")
    /\ VerifyUICookie(tab[t].cookie)
    /\ \E failed \in BOOLEAN :
        /\ failed \/ ~Authenticate(tab[t].cookie.token)
        /\ Answer(t, "to /ui/login", Cleared, failed)

InSession(t) ==
    /\ VerifyUICookie(tab[t].cookie)
    /\ Authenticate(tab[t].cookie.token)

UIPage(t) == Asked(t, "/ui/") /\ InSession(t) /\ Answer(t, "page", Keep, FALSE)

UILogout(t) == Asked(t, "/ui/logout") /\ InSession(t) /\ Answer(t, "to /ui/login", Nil, FALSE)

UILoginPage(t) ==
    /\ Asked(t, "/ui/login") /\ tab[t].typed = Nil
    /\ Answer(t, IF VerifyUICookie(tab[t].cookie) THEN "to /ui/" ELSE "form", Keep, FALSE)

UILogin(t) ==
    /\ Asked(t, "/ui/login") /\ tab[t].typed # Nil
    /\ \/ /\ Authenticate(tab[t].typed)
          /\ Answer(t, "to /ui/", IssueUICookie(tab[t].typed), FALSE)
       \/ Answer(t, "form", Keep, FALSE)   \* not the token, or its lookup failed

Serve(t) ==
    NoSession(t) \/ StaleSession(t) \/ UIPage(t) \/ UILogout(t) \/ UILoginPage(t) \/ UILogin(t)

(***************************************************************************)
(* The answer arrives, or does not.                                        *)
(***************************************************************************)
Follow(t, url) == tab' = [tab EXCEPT ![t] = Request(url, Nil, jar')]

Arrive(t) ==
    /\ tab[t].at = "answered"
    /\ jar' = IF tab[t].sets = Keep THEN jar ELSE tab[t].sets
    /\ \/ tab[t].reply = "to /ui/" /\ Follow(t, "/ui/")
       \/ tab[t].reply = "to /ui/login" /\ Follow(t, "/ui/login")
       \/ /\ tab[t].reply \in {"page", "form"}
          /\ tab' = [tab EXCEPT ![t] = Resting(tab[t].reply)]
    /\ UNCHANGED server

Unreachable(t) ==
    /\ password = Nil /\ tab[t].at \in {"sent", "answered"}
    /\ tab' = [tab EXCEPT ![t] = Resting("unreachable")]
    /\ UNCHANGED <<server, jar>>

ServerNext == Stop \/ Start \/ Tick \/ Rotate
TabStep(t) == Serve(t) \/ Arrive(t) \/ Unreachable(t)
BrowserNext == \E t \in Tab : Open(t) \/ Submit(t) \/ AskLogout(t) \/ TabStep(t)

(***************************************************************************)
(* Properties.                                                             *)
(***************************************************************************)

\* A session ends with its token and with its time: a page is never the
\* answer to a request that was sent with the cookie of a token replaced by
\* then, or with one that had expired by then, through any restarts and
\* logins in between.
SessionEndsWithToken ==
    \A t \in Tab : tab[t].reply = "page" /\ tab[t].at = "answered" =>
        /\ tab[t].cookie # Nil
        /\ tab[t].cookie.token \notin tab[t].gone
        /\ tab[t].sent <= tab[t].cookie.exp

\* Nothing has ended the session of this cookie, whatever boots there were.
Alive(c) ==
    /\ c # Nil /\ password # Nil
    /\ c.token = operator /\ now <= c.exp /\ c.password = password

\* "It survives server restarts" (ui_session.go:20): as long as the token,
\* the time and the password last, a request with the cookie is answered with
\* its page unless the lookup failed, and the browser drops the cookie only
\* for a logout, a failed lookup or the late answer to an older request.
KeepsSession ==
    /\ \A t \in Tab :
          Serve(t) /\ tab[t].url = "/ui/" /\ Alive(tab[t].cookie)
              => tab'[t].reply = "page" \/ tab'[t].failed
    /\ Alive(jar) /\ jar' = Nil
          => \E t \in Tab :
              /\ Arrive(t)
              /\ tab[t].url = "/ui/logout" \/ tab[t].failed \/ tab[t].cookie # jar

SessionLasts == [][KeepsSession]_<<server, browser>>

Click == \E t \in Tab : Open(t) \/ Submit(t) \/ AskLogout(t)

\* Redirects end: whatever cookie the browser has, and whatever answers to
\* other tabs replace it meanwhile, a tab that asked for a page comes to show
\* one, the login form, or that the server is down, once nobody clicks any
\* more.  (Logging in and out for ever in one tab can keep another going.)
LoadsSettle ==
    <>[][~Click]_browser => \A t \in Tab : tab[t].at # "rest" ~> tab[t].at = "rest"
=============================================================================
