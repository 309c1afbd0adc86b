------------------------- MODULE CredentialsProofs -------------------------
(***************************************************************************)
(* What holds of the copies of the operator token for any tokens, tabs,    *)
(* vaults, environments and processes, and any number of restarts,         *)
(* rotations, logins and changes of the keychain: a web session ends with  *)
(* its token and with its time, and not before; the credentials on the     *)
(* operator's machine are those of the last login, in the pairs they were  *)
(* saved in.                                                               *)
(***************************************************************************)
EXTENDS Credentials, TLAPS

-----------------------------------------------------------------------------
(* The browser.  A request on its way was sent when its token was not gone *)
(* yet, and tokens never come back; and an answer that clears the cookie   *)
(* was given to a logout, to a failed lookup, or to a cookie whose token   *)
(* was gone by then.                                                       *)

Used(c) == c \in Cookie => c.token \in used

Signed(c) == c \in Cookie => c.key = SigningKey(c.password)

SentBefore(t) ==
    /\ tab[t].gone \subseteq used
    /\ tab[t].sent <= now
    /\ tab[t].at # "rest" => operator \notin tab[t].gone

PageMeant(t) ==
    tab[t].reply = "page" /\ tab[t].at = "answered" =>
        /\ tab[t].cookie \in Cookie
        /\ tab[t].cookie.token \notin tab[t].gone
        /\ tab[t].sent <= tab[t].cookie.exp

ClearedForAReason(t) ==
    tab[t].at = "answered" /\ tab[t].sets = Nil =>
        \/ tab[t].url = "/ui/logout" \/ tab[t].failed
        \/ tab[t].cookie \in Cookie /\ tab[t].cookie.token # operator

TabInv(t) ==
    /\ SentBefore(t) /\ PageMeant(t) /\ ClearedForAReason(t)
    /\ Used(tab[t].cookie) /\ Used(tab[t].sets)
    /\ Signed(tab[t].cookie) /\ Signed(tab[t].sets)

BrowserInv ==
    /\ SessionsTypeOK
    /\ Used(jar) /\ Signed(jar)
    /\ \A t \in Tab : TabInv(t)

-----------------------------------------------------------------------------
(* The machine.  The keychain's entry counts when the keychain did the     *)
(* last change, the file when it did not; and either holds a pair that was *)
(* saved.                                                                  *)

LastInv == last = IF taken /\ chain \in Credentials THEN chain ELSE file

SavedInv == chain \in saved \cup {None, Foreign} /\ file \in saved \cup {None, Torn}

MachineInv == KeyringTypeOK /\ LastInv /\ SavedInv /\ PairsStayTogether

IInv == BrowserInv /\ MachineInv /\ client \in Clients

-----------------------------------------------------------------------------
(* Lemmas about the browser. *)

LEMMA SessionsInitInv == SessionsInit => BrowserInv
<1> SUFFICES ASSUME SessionsInit PROVE BrowserInv
  OBVIOUS
<1>1. Resting("none") \in TabState
  BY DEF Resting, TabState
<1>2. SessionsTypeOK
  BY <1>1, SessionsAssumption DEF SessionsInit, SessionsTypeOK, Resting
<1>3. Used(jar) /\ Signed(jar)
  BY SessionsAssumption DEF SessionsInit, Used, Signed
<1>4. ASSUME NEW t \in Tab PROVE TabInv(t)
  <2>1. tab[t] = Resting("none") /\ now = 0
    BY DEF SessionsInit
  <2> QED
    BY <2>1, SessionsAssumption
       DEF TabInv, SentBefore, PageMeant, ClearedForAReason, Used, Signed, Resting
<1> QED
  BY <1>2, <1>3, <1>4 DEF BrowserInv

\* The steps of the server leave the browser alone: tokens are only added, and
\* the clock only goes on.
LEMMA ServerInv ==
    ASSUME BrowserInv, ServerNext
    PROVE  BrowserInv'
<1> USE DEF BrowserInv
<1>1. UNCHANGED browser /\ used \subseteq used' /\ now <= now' /\ now' \in 0 .. LastSecond
  <2>1. now \in 0 .. LastSecond /\ LastSecond \in Nat
    BY SessionsAssumption DEF SessionsTypeOK
  <2>2. CASE Tick
    BY <2>1, <2>2 DEF Tick, browser
  <2>3. CASE Stop \/ Start \/ Rotate
    BY <2>1, <2>3 DEF Stop, Start, Rotate, browser
  <2> QED
    BY <2>2, <2>3 DEF ServerNext
<1>2. /\ operator' \in used' /\ used' \subseteq Token /\ held' \subseteq used'
      /\ password' \in Password \cup {Nil} /\ starts' \in 0 .. MaxStarts
      /\ operator' = operator \/ operator' \notin used
  <2>1. /\ operator \in used /\ used \subseteq Token /\ held \subseteq used
        /\ password \in Password \cup {Nil} /\ starts \in 0 .. MaxStarts
    BY DEF SessionsTypeOK
  <2>2. CASE Stop \/ Tick
    BY <2>1, <2>2 DEF Stop, Tick
  <2>3. CASE Start
    BY <2>1, <2>3, SessionsAssumption DEF Start
  <2>4. CASE Rotate
    <3>1. PICK fresh \in Token \ used :
              /\ operator' = fresh /\ used' = used \cup {fresh}
              /\ held' \in {held, held \cup {fresh}}
      BY <2>4 DEF Rotate
    <3>2. UNCHANGED <<password, starts>>
      BY <2>4 DEF Rotate
    <3> QED
      BY <2>1, <3>1, <3>2
  <2> QED
    BY <2>2, <2>3, <2>4 DEF ServerNext
<1>3. SessionsTypeOK'
  BY <1>1, <1>2 DEF SessionsTypeOK, browser
<1>4. (Used(jar) /\ Signed(jar))'
  BY <1>1 DEF Used, Signed, browser
<1>5. ASSUME NEW t \in Tab PROVE TabInv(t)'
  <2>1. TabInv(t) /\ tab[t] \in TabState /\ tab'[t] = tab[t]
    BY <1>1 DEF SessionsTypeOK, browser
  <2>2. SentBefore(t)'
    <3>1. tab[t].sent \in Nat /\ now \in Nat /\ now' \in Nat /\ tab[t].sent <= now
      <4>1. tab[t].sent \in Nat
        BY <2>1 DEF TabState
      <4> QED
        BY <1>1, <2>1, <4>1 DEF SessionsTypeOK, TabInv, SentBefore
    <3>2. tab[t].gone \subseteq used /\ (tab[t].at # "rest" => operator \notin tab[t].gone)
      BY <2>1 DEF TabInv, SentBefore
    <3>3. tab[t].sent <= now'
      BY <1>1, <3>1
    <3>4. tab[t].at # "rest" => operator' \notin tab[t].gone
      BY <1>2, <3>2
    <3> QED
      BY <1>1, <2>1, <3>2, <3>3, <3>4 DEF SentBefore
  <2>3. PageMeant(t)'
    BY <2>1 DEF TabInv, PageMeant
  <2>4. ClearedForAReason(t)'
    BY <1>2, <2>1 DEF TabInv, ClearedForAReason, Used
  <2>5. (Used(tab[t].cookie) /\ Used(tab[t].sets))'
    BY <1>1, <2>1 DEF TabInv, Used
  <2>6. (Signed(tab[t].cookie) /\ Signed(tab[t].sets))'
    BY <2>1 DEF TabInv, Signed
  <2> QED
    BY <2>2, <2>3, <2>4, <2>5, <2>6 DEF TabInv
<1> QED
  BY <1>3, <1>4, <1>5

\* A step of one tab, the server left alone.
LEMMA OneTab ==
    ASSUME BrowserInv, NEW t \in Tab, NEW s \in TabState, tab' = [tab EXCEPT ![t] = s],
           UNCHANGED server, jar' \in Cookie \cup {Nil}, (Used(jar) /\ Signed(jar))',
           s.cookie # Nil => s.cookie.key = SigningKey(s.cookie.password),
           TabInv(t)'
    PROVE  BrowserInv'
<1> USE DEF BrowserInv
<1>1. tab \in [Tab -> TabState] /\ tab'[t] = s
  BY DEF SessionsTypeOK
<1>2. SessionsTypeOK'
  BY <1>1 DEF SessionsTypeOK, server
<1>3. ASSUME NEW o \in Tab PROVE TabInv(o)'
  <2>1. CASE o = t
    BY <2>1
  <2>2. CASE o # t
    <3>1. tab'[o] = tab[o] /\ TabInv(o)
      BY <1>1, <2>2
    <3> QED
      BY <3>1 DEF TabInv, SentBefore, PageMeant, ClearedForAReason, Used, Signed, server
  <2> QED
    BY <2>1, <2>2
<1> QED
  BY <1>2, <1>3

LEMMA RequestInv ==
    ASSUME BrowserInv, NEW t \in Tab, NEW url \in {"/ui/", "/ui/login", "/ui/logout"},
           NEW tok \in Token \cup {Nil}, NEW c \in Cookie \cup {Nil}, Used(c), Signed(c),
           tab' = [tab EXCEPT ![t] = Request(url, tok, c)],
           UNCHANGED server, jar' \in Cookie \cup {Nil}, (Used(jar) /\ Signed(jar))'
    PROVE  BrowserInv'
<1> DEFINE s == Request(url, tok, c)
<1>1. used \subseteq Token /\ now \in Nat
  BY DEF BrowserInv, SessionsTypeOK
<1>2. s \in TabState
  BY <1>1 DEF Request, TabState
<1>3. tab'[t] = s
  BY DEF BrowserInv, SessionsTypeOK
<1>4. s.cookie # Nil => s.cookie.key = SigningKey(s.cookie.password)
  BY DEF Request, Signed
<1>5. TabInv(t)'
  BY <1>1, <1>3, SessionsAssumption
     DEF TabInv, SentBefore, PageMeant, ClearedForAReason, Used, Signed, Request, server
<1> QED
  BY <1>2, <1>4, <1>5, OneTab

LEMMA RestingInv ==
    ASSUME BrowserInv, NEW t \in Tab, NEW reply \in {"page", "form", "unreachable"},
           tab' = [tab EXCEPT ![t] = Resting(reply)],
           UNCHANGED server, jar' \in Cookie \cup {Nil}, (Used(jar) /\ Signed(jar))'
    PROVE  BrowserInv'
<1> DEFINE s == Resting(reply)
<1>1. now \in Nat
  BY DEF BrowserInv, SessionsTypeOK
<1>2. s \in TabState /\ s.cookie = Nil
  BY DEF Resting, TabState
<1>3. tab'[t] = s
  BY DEF BrowserInv, SessionsTypeOK
<1>4. TabInv(t)'
  BY <1>1, <1>3, SessionsAssumption
     DEF TabInv, SentBefore, PageMeant, ClearedForAReason, Used, Signed, Resting, server
<1> QED
  BY <1>2, <1>4, OneTab

LEMMA ClockTyped == BrowserInv => now \in Nat
BY DEF BrowserInv, SessionsTypeOK

LEMMA AnswerInv ==
    ASSUME BrowserInv, NEW t \in Tab, tab[t].at = "sent",
           NEW reply \in {"page", "form", "to /ui/", "to /ui/login"},
           NEW sets \in Cookie \cup {Nil, Keep}, Used(sets), Signed(sets),
           NEW failed \in BOOLEAN, Answer(t, reply, sets, failed),
           reply = "page" => InSession(t),
           sets = Nil => \/ tab[t].url = "/ui/logout" \/ failed
                         \/ tab[t].cookie # Nil /\ tab[t].cookie.token # operator
    PROVE  BrowserInv'
<1> DEFINE s == [tab[t] EXCEPT !.at = "answered", !.reply = reply,
                               !.sets = sets, !.failed = failed]
<1>1. tab[t] \in TabState /\ TabInv(t) /\ now \in Nat
  BY ClockTyped DEF BrowserInv, SessionsTypeOK
<1>2. /\ s \in TabState
      /\ s.at = "answered" /\ s.reply = reply /\ s.sets = sets /\ s.failed = failed
      /\ s.cookie = tab[t].cookie /\ s.url = tab[t].url
      /\ s.gone = tab[t].gone /\ s.sent = tab[t].sent
  BY <1>1 DEF TabState
<1>3. tab' = [tab EXCEPT ![t] = s] /\ tab'[t] = s /\ UNCHANGED <<server, jar>>
  BY DEF Answer, BrowserInv, SessionsTypeOK
<1>4. tab[t].cookie \in Cookie \cup {Nil} /\ tab[t].sent \in Nat
  BY <1>1 DEF TabState
<1> HIDE DEF s
<1>5. SentBefore(t)'
  BY <1>1, <1>2, <1>3 DEF TabInv, SentBefore, server
<1>6. PageMeant(t)'
  <2>1. CASE reply # "page"
    BY <1>2, <1>3, <2>1 DEF PageMeant
  <2>2. CASE reply = "page"
    <3>1. /\ tab[t].cookie \in Cookie
          /\ now <= tab[t].cookie.exp /\ tab[t].cookie.token = operator
      BY <1>4, <2>2 DEF InSession, VerifyUICookie, Authenticate
    <3>2. tab[t].cookie.exp \in Nat
      BY <3>1 DEF Cookie
    <3>3. tab[t].sent <= now /\ operator \notin tab[t].gone
      BY <1>1 DEF TabInv, SentBefore
    <3> QED
      BY <1>1, <1>2, <1>3, <1>4, <3>1, <3>2, <3>3 DEF PageMeant
  <2> QED
    BY <2>1, <2>2
<1>7. ClearedForAReason(t)'
  BY <1>2, <1>3, <1>4 DEF ClearedForAReason, server
<1>8. (Used(tab[t].cookie) /\ Used(tab[t].sets) /\ Signed(tab[t].cookie)
          /\ Signed(tab[t].sets))'
  <2>1. Used(tab[t].cookie) /\ Signed(tab[t].cookie)
    BY <1>1 DEF TabInv
  <2>2. tab'[t].cookie = tab[t].cookie /\ tab'[t].sets = sets /\ used' = used
    BY <1>2, <1>3 DEF server
  <2> QED
    BY <2>1, <2>2 DEF Used, Signed
<1>9. TabInv(t)'
  BY <1>5, <1>6, <1>7, <1>8 DEF TabInv
<1>10. jar' \in Cookie \cup {Nil} /\ (Used(jar) /\ Signed(jar))'
  BY <1>3 DEF BrowserInv, SessionsTypeOK, Used, Signed, server
<1>11. s.cookie # Nil => s.cookie.key = SigningKey(s.cookie.password)
  BY <1>2 DEF BrowserInv, SessionsTypeOK
<1> QED
  BY <1>2, <1>3, <1>9, <1>10, <1>11, OneTab

\* Keep and Nil are no cookies.
LEMMA NoCookie == Used(Keep) /\ Used(Nil) /\ Signed(Keep) /\ Signed(Nil) /\ Keep # Nil
BY SessionsAssumption DEF Used, Signed

LEMMA IssuedCookie ==
    ASSUME BrowserInv, password # Nil, NEW tok, Authenticate(tok)
    PROVE  LET c == IssueUICookie(tok)
           IN  c \in Cookie /\ c # Nil /\ Used(c) /\ Signed(c)
<1>1. operator \in Token /\ operator \in used /\ now \in Nat /\ password \in Password
  BY DEF BrowserInv, SessionsTypeOK
<1>2. now + Lifetime \in Nat
  BY <1>1, SessionsAssumption
<1>3. IssueUICookie(tok) \in Cookie
  BY <1>1, <1>2 DEF IssueUICookie, Cookie, SessionKey, Authenticate
<1>4. IssueUICookie(tok).token \in used
  BY <1>1 DEF IssueUICookie, Authenticate
<1>5. IssueUICookie(tok).key = SigningKey(IssueUICookie(tok).password)
  BY DEF IssueUICookie, SessionKey
<1> QED
  BY <1>3, <1>4, <1>5, SessionsAssumption DEF Used, Signed

LEMMA ServeInv ==
    ASSUME BrowserInv, NEW t \in Tab, Serve(t)
    PROVE  BrowserInv'
<1>1. tab[t].at = "sent" /\ password # Nil
  BY DEF Serve, NoSession, StaleSession, UIPage, UILogout, UILoginPage, UILogin, Asked
<1>2. CASE NoSession(t) \/ UILoginPage(t)
  <2>1. PICK reply \in {"form", "to /ui/", "to /ui/login"} : Answer(t, reply, Keep, FALSE)
    BY <1>2 DEF NoSession, UILoginPage
  <2> QED
    BY <1>1, <2>1, NoCookie, AnswerInv
<1>3. CASE StaleSession(t)
  <2>1. PICK failed \in BOOLEAN :
            /\ failed \/ ~Authenticate(tab[t].cookie.token)
            /\ Answer(t, "to /ui/login", Nil, failed)
    BY <1>3 DEF StaleSession, Cleared
  <2>2. tab[t].cookie # Nil
    BY <1>3 DEF StaleSession, VerifyUICookie
  <2> QED
    BY <1>1, <2>1, <2>2, NoCookie, AnswerInv DEF Authenticate
<1>4. CASE UIPage(t)
  <2>1. Answer(t, "page", Keep, FALSE) /\ InSession(t)
    BY <1>4 DEF UIPage
  <2> QED
    BY <1>1, <2>1, NoCookie, AnswerInv
<1>5. CASE UILogout(t)
  <2>1. Answer(t, "to /ui/login", Nil, FALSE) /\ tab[t].url = "/ui/logout"
    BY <1>5 DEF UILogout, Asked
  <2> QED
    BY <1>1, <2>1, NoCookie, AnswerInv
<1>6. CASE UILogin(t)
  <2>1. CASE Answer(t, "form", Keep, FALSE)
    BY <1>1, <2>1, NoCookie, AnswerInv
  <2>2. CASE /\ Authenticate(tab[t].typed)
             /\ Answer(t, "to /ui/", IssueUICookie(tab[t].typed), FALSE)
    BY <1>1, <2>2, IssuedCookie, AnswerInv
  <2> QED
    BY <1>6, <2>1, <2>2 DEF UILogin
<1> QED
  BY <1>2, <1>3, <1>4, <1>5, <1>6 DEF Serve

LEMMA ArriveInv ==
    ASSUME BrowserInv, NEW t \in Tab, Arrive(t)
    PROVE  BrowserInv'
<1>1. /\ tab[t] \in TabState /\ TabInv(t) /\ jar \in Cookie \cup {Nil}
      /\ Used(jar) /\ Signed(jar)
  BY DEF BrowserInv, SessionsTypeOK
<1>2. jar' \in {jar, tab[t].sets} /\ (tab[t].sets = Keep => jar' = jar) /\ UNCHANGED server
  BY DEF Arrive
<1>3. jar' \in Cookie \cup {Nil}
  BY <1>1, <1>2 DEF TabState
<1>4. (Used(jar) /\ Signed(jar))' /\ Used(jar') /\ Signed(jar')
  BY <1>1, <1>2 DEF TabInv, Used, Signed, server
<1>5. CASE \E url \in {"/ui/", "/ui/login"} : tab' = [tab EXCEPT ![t] = Request(url, Nil, jar')]
  BY <1>2, <1>3, <1>4, <1>5, RequestInv
<1>6. CASE /\ tab[t].reply \in {"page", "form"}
           /\ tab' = [tab EXCEPT ![t] = Resting(tab[t].reply)]
  BY <1>2, <1>3, <1>4, <1>6, RestingInv
<1> QED
  BY <1>5, <1>6 DEF Arrive, Follow

LEMMA BrowserStepInv ==
    ASSUME BrowserInv, BrowserNext
    PROVE  BrowserInv'
<1>1. PICK t \in Tab : Open(t) \/ Submit(t) \/ AskLogout(t) \/ TabStep(t)
  BY DEF BrowserNext
<1>2. /\ jar \in Cookie \cup {Nil} /\ Used(jar) /\ Signed(jar)
      /\ held \subseteq Token
  BY DEF BrowserInv, SessionsTypeOK
<1>3. ASSUME UNCHANGED <<server, jar>>
      PROVE  jar' \in Cookie \cup {Nil} /\ (Used(jar) /\ Signed(jar))'
  BY <1>2, <1>3 DEF Used, Signed, server
<1>4. CASE Open(t) \/ Submit(t) \/ AskLogout(t)
  <2>1. UNCHANGED <<server, jar>> /\
        \E url \in {"/ui/", "/ui/login", "/ui/logout"}, tok \in Token \cup {Nil} :
            tab' = [tab EXCEPT ![t] = Request(url, tok, jar)]
    BY <1>2, <1>4 DEF Open, Submit, AskLogout
  <2> QED
    BY <1>2, <1>3, <2>1, RequestInv
<1>5. CASE Serve(t)
  BY <1>5, ServeInv
<1>6. CASE Arrive(t)
  BY <1>6, ArriveInv
<1>7. CASE Unreachable(t)
  BY <1>3, <1>7, RestingInv DEF Unreachable
<1> QED
  BY <1>1, <1>4, <1>5, <1>6, <1>7 DEF TabStep

-----------------------------------------------------------------------------
(* Lemmas about the machine. *)

LEMMA KeyringInitInv == KeyringInit => MachineInv
<1> SUFFICES ASSUME KeyringInit PROVE MachineInv
  OBVIOUS
<1>1. Idle \in ProcessState
  BY DEF Idle, Started, ProcessState
<1>2. KeyringTypeOK
  BY <1>1, KeyringAssumption DEF KeyringInit, KeyringTypeOK
<1>3. LastInv /\ SavedInv
  BY KeyringAssumption DEF KeyringInit, LastInv, SavedInv
<1>4. PairsStayTogether
  BY DEF KeyringInit, PairsStayTogether, Idle, Started
<1> QED
  BY <1>2, <1>3, <1>4 DEF MachineInv

\* A change of what is stored: the processes keep what they have, and no pair
\* is forgotten.
LEMMA ChangeInv ==
    ASSUME MachineInv, NEW left \in Credentials \cup {None, Torn},
           NEW inChain \in BOOLEAN, Changed(left, inChain),
           chain' \in Credentials \cup {None, Foreign}, file' \in Credentials \cup {None, Torn},
           saved \subseteq saved', saved' \subseteq Credentials, LastInv', SavedInv'
    PROVE  MachineInv'
<1>1. /\ UNCHANGED <<unlocked, env, process>> /\ last' = left /\ taken' = inChain
      /\ changes < MaxChanges /\ changes' = changes + 1
  BY DEF Changed
<1>2. KeyringTypeOK'
  <2>1. changes' \in 0 .. MaxChanges
    BY <1>1, KeyringAssumption DEF MachineInv, KeyringTypeOK
  <2> QED
    BY <1>1, <2>1 DEF MachineInv, KeyringTypeOK
<1>3. PairsStayTogether'
  <2>1. EnvPair' = EnvPair /\ HalfSet' = HalfSet
    BY <1>1 DEF EnvPair, EnvToken, HalfSet
  <2>2. KnownPairs \subseteq KnownPairs'
    BY <2>1 DEF KnownPairs
  <2> QED
    BY <1>1, <2>1, <2>2 DEF MachineInv, PairsStayTogether
<1> QED
  BY <1>2, <1>3 DEF MachineInv

LEMMA LoginInv ==
    ASSUME MachineInv, NEW c \in Credentials, Login(c)
    PROVE  MachineInv'
<1>1. saved' = saved \cup {c} /\ saved \subseteq Credentials
  BY DEF Login, MachineInv, KeyringTypeOK
<1>2. CASE unlocked /\ chain' = c /\ Changed(c, TRUE) /\ UNCHANGED file
  <2>1. LastInv' /\ SavedInv'
    BY <1>1, <1>2 DEF MachineInv, LastInv, SavedInv, Changed
  <2> QED
    BY <1>1, <1>2, <2>1, ChangeInv DEF MachineInv, KeyringTypeOK
<1>3. ASSUME NEW left \in {c, Torn}, file' = left, Changed(left, FALSE), UNCHANGED chain
      PROVE  MachineInv'
  <2>1. LastInv' /\ SavedInv'
    BY <1>1, <1>3 DEF MachineInv, LastInv, SavedInv, Changed
  <2> QED
    BY <1>1, <1>3, <2>1, ChangeInv DEF MachineInv, KeyringTypeOK
<1> QED
  BY <1>2, <1>3 DEF Login

LEMMA LogoutInv ==
    ASSUME MachineInv, Logout
    PROVE  MachineInv'
<1>1. file' = None /\ UNCHANGED saved
  BY DEF Logout, DeletedFile
<1>2. CASE chain' = None /\ Changed(None, TRUE)
  <2>1. LastInv' /\ SavedInv'
    BY <1>1, <1>2, KeyringAssumption DEF MachineInv, LastInv, SavedInv, Changed
  <2> QED
    BY <1>1, <1>2, <2>1, ChangeInv DEF MachineInv, KeyringTypeOK
<1>3. CASE UNCHANGED chain /\ Changed(None, FALSE)
  <2>1. LastInv' /\ SavedInv'
    BY <1>1, <1>3, KeyringAssumption DEF MachineInv, LastInv, SavedInv, Changed
  <2> QED
    BY <1>1, <1>3, <2>1, ChangeInv DEF MachineInv, KeyringTypeOK
<1> QED
  BY <1>2, <1>3 DEF Logout

LEMMA SquatInv ==
    ASSUME MachineInv, Squat
    PROVE  MachineInv'
<1>1. chain' = Foreign /\ Changed(file, TRUE) /\ UNCHANGED <<file, saved>>
  BY DEF Squat
<1>2. LastInv' /\ SavedInv'
  BY <1>1, KeyringAssumption DEF MachineInv, LastInv, SavedInv, Changed
<1> QED
  BY <1>1, <1>2, ChangeInv DEF MachineInv, KeyringTypeOK

LEMMA ToggleInv ==
    ASSUME MachineInv, Toggle
    PROVE  MachineInv'
BY DEF Toggle, MachineInv, KeyringTypeOK, LastInv, SavedInv, PairsStayTogether, HalfSet,
       EnvPair, EnvToken, KnownPairs, Redacted

\* What Load finds was saved.
LEMMA LoadSaved ==
    ASSUME MachineInv, Load \in Credentials
    PROVE  Load \in saved
BY KeyringAssumption DEF MachineInv, SavedInv, Load

\* A process that is started has a pair that was saved or set, or is the MCP
\* server that has half of each.
LEMMA StartedPair ==
    ASSUME MachineInv, NEW s \in {EnvOrKeyring, RunMcp}
    PROVE  /\ s \in ProcessState
           /\ s.kind \in {"cli", "mcp"} =>
                \/ s.kind = "mcp" /\ HalfSet
                     /\ (env.SCOPULI_URL # None \/ env.SCOPULI_KEY # None)
                \/ [url |-> s.url, token |-> s.token] \in KnownPairs
<1> DEFINE Pair == [url |-> s.url, token |-> s.token]
<1>1. /\ env.SCOPULI_URL \in Vault \cup {None} /\ env.SCOPULI_KEY \in AnyToken \cup {None}
      /\ EnvToken \in AnyToken \cup {None}
  BY DEF MachineInv, KeyringTypeOK, Environment, EnvToken
<1>2. ASSUME Load \in Credentials
      PROVE  /\ Load.url \in Vault /\ Load.token \in AnyToken
             /\ [url |-> Load.url, token |-> Load.token] \in KnownPairs
             /\ [url |-> Load.url, token |-> Redact(Load.token)] \in KnownPairs
  <2>1. Load \in saved
    BY <1>2, LoadSaved
  <2>2. Load = [url |-> Load.url, token |-> Load.token]
    BY <1>2 DEF Credentials
  <2>3. Redacted(Load) = [url |-> Load.url, token |-> Redact(Load.token)]
    BY <2>2 DEF Redacted
  <2>4. Load \in KnownPairs /\ Redacted(Load) \in KnownPairs
    BY <2>1 DEF KnownPairs
  <2> QED
    BY <1>2, <2>2, <2>3, <2>4 DEF Credentials
<1>3. CASE s = Failed
  BY <1>3 DEF Failed, Started, ProcessState
<1>4. CASE s = Started("cli", env.SCOPULI_URL, EnvToken)
           /\ env.SCOPULI_URL # None /\ EnvToken # None
  <2>1. s \in ProcessState
    BY <1>1, <1>4 DEF Started, ProcessState
  <2>2. [url |-> s.url, token |-> s.token] = EnvPair
    BY <1>4 DEF Started, EnvPair
  <2> QED
    BY <2>1, <2>2 DEF KnownPairs
<1>5. CASE s = Started("cli", Load.url, Load.token) /\ Load \in Credentials
  BY <1>2, <1>5 DEF Started, ProcessState
<1>6. CASE s = Started("mcp", env.SCOPULI_URL, env.SCOPULI_KEY) /\ ~HalfSet
  <2>1. s \in ProcessState
    BY <1>1, <1>6 DEF Started, ProcessState, HalfSet
  <2>2. [url |-> s.url, token |-> s.token] = EnvPair
    BY <1>6 DEF Started, EnvPair, EnvToken, HalfSet
  <2> QED
    BY <2>1, <2>2 DEF KnownPairs
<1>7. CASE s = ResolveCreds /\ HalfSet /\ Load \in Credentials
  <2>1. s \in ProcessState /\ s.kind = "mcp"
    BY <1>1, <1>2, <1>7 DEF ResolveCreds, Started, ProcessState
  <2>2. CASE env.SCOPULI_URL # None \/ env.SCOPULI_KEY # None
    BY <1>7, <2>1, <2>2
  <2>3. CASE env.SCOPULI_URL = None /\ env.SCOPULI_KEY = None
    BY <1>2, <1>7, <2>1, <2>3 DEF ResolveCreds, Started
  <2> QED
    BY <2>2, <2>3
<1> QED
  BY <1>3, <1>4, <1>5, <1>6, <1>7 DEF EnvOrKeyring, RunMcp

\* A step of one process, nothing stored.
LEMMA ProcessInv ==
    ASSUME MachineInv, NEW p \in Process, NEW s \in ProcessState,
           process' = [process EXCEPT ![p] = s],
           UNCHANGED <<chain, file, unlocked, env, last, taken, saved, changes>>,
           s.kind \in {"cli", "mcp"} =>
                \/ s.kind = "mcp" /\ HalfSet
                     /\ (env.SCOPULI_URL # None \/ env.SCOPULI_KEY # None)
                \/ [url |-> s.url, token |-> s.token] \in KnownPairs
    PROVE  MachineInv'
<1>1. process \in [Process -> ProcessState]
  BY DEF MachineInv, KeyringTypeOK
<1>2. KeyringTypeOK' /\ LastInv' /\ SavedInv'
  BY <1>1 DEF MachineInv, KeyringTypeOK, LastInv, SavedInv
<1>3. EnvPair' = EnvPair /\ HalfSet' = HalfSet
  BY DEF EnvPair, EnvToken, HalfSet
<1>4. PairsStayTogether'
  <2>1. KnownPairs' = KnownPairs
    BY <1>3 DEF KnownPairs
  <2> QED
    BY <1>1, <1>3, <2>1 DEF MachineInv, PairsStayTogether
<1> QED
  BY <1>2, <1>4 DEF MachineInv

LEMMA RunInv ==
    ASSUME MachineInv, NEW p \in Process, Run(p)
    PROVE  MachineInv'
<1>1. PICK s \in {EnvOrKeyring, RunMcp} : process' = [process EXCEPT ![p] = s]
  BY DEF Run
<1> QED
  BY <1>1, StartedPair, ProcessInv DEF Run

LEMMA CallInv ==
    ASSUME MachineInv, NEW p \in Process, NEW admitted, Call(p, admitted)
    PROVE  MachineInv'
<1> DEFINE s == [process[p] EXCEPT !.answer = IF admitted THEN "ok" ELSE "denied"]
<1>1. process[p] \in ProcessState
  BY DEF MachineInv, KeyringTypeOK
<1>2. s \in ProcessState /\ s.kind = process[p].kind /\ s.url = process[p].url
        /\ s.token = process[p].token
  BY <1>1 DEF ProcessState
<1>3. process' = [process EXCEPT ![p] = s]
  BY DEF Call
<1> HIDE DEF s
<1> QED
  BY <1>2, <1>3, ProcessInv DEF Call, MachineInv, PairsStayTogether

LEMMA EndInv ==
    ASSUME MachineInv, NEW p \in Process, End(p)
    PROVE  MachineInv'
<1>1. Idle \in ProcessState /\ Idle.kind = "none"
  BY DEF Idle, Started, ProcessState
<1> QED
  BY <1>1, ProcessInv DEF End

-----------------------------------------------------------------------------
(* The theorems. *)

LEMMA StepInv ==
    ASSUME IInv, [CredentialsNext]_allvars
    PROVE  IInv'
<1>1. CASE UNCHANGED allvars
  <2>1. BrowserInv'
    BY <1>1 DEF allvars, server, browser, IInv, BrowserInv, SessionsTypeOK, TabInv, SentBefore,
                PageMeant, ClearedForAReason, Used, Signed
  <2>2. MachineInv'
    BY <1>1 DEF allvars, machine, IInv, MachineInv, KeyringTypeOK, LastInv, SavedInv,
                PairsStayTogether, HalfSet, EnvPair, EnvToken, KnownPairs
  <2> QED
    BY <1>1, <2>1, <2>2 DEF IInv, allvars
<1>2. ASSUME UNCHANGED <<server, browser>>, BrowserInv PROVE BrowserInv'
  BY <1>2 DEF server, browser, BrowserInv, SessionsTypeOK, TabInv, SentBefore, PageMeant,
              ClearedForAReason, Used, Signed
<1>3. ASSUME UNCHANGED machine, MachineInv PROVE MachineInv'
  BY <1>3 DEF machine, MachineInv, KeyringTypeOK, LastInv, SavedInv, PairsStayTogether,
              HalfSet, EnvPair, EnvToken, KnownPairs
<1>4. CASE AtBrowser
  BY <1>3, <1>4, BrowserStepInv DEF AtBrowser, IInv
<1>5. CASE AtServer
  BY <1>3, <1>5, ServerInv DEF AtServer, ServerNext, IInv
<1>6. CASE AtMachine
  <2>1. UNCHANGED <<server, browser, client>> /\ MachineInv /\ held \subseteq Token
    BY <1>6 DEF AtMachine, IInv, BrowserInv, SessionsTypeOK
  <2>2. ASSUME NEW v \in Vault, NEW tok \in held, Login([url |-> v, token |-> tok])
        PROVE  MachineInv'
    <3>1. [url |-> v, token |-> tok] \in Credentials
      BY <2>1, CredentialsAssumption DEF Credentials
    <3> QED
      BY <2>1, <2>2, <3>1, LoginInv
  <2>3. ASSUME NEW p \in Process, NEW admitted, Run(p) \/ End(p) \/ Call(p, admitted)
        PROVE  MachineInv'
    BY <2>1, <2>3, RunInv, EndInv, CallInv
  <2>4. MachineInv'
    BY <1>6, <2>1, <2>2, <2>3, LogoutInv, ToggleInv, SquatInv DEF AtMachine
  <2> QED
    BY <1>2, <2>1, <2>4 DEF IInv
<1> QED
  BY <1>1, <1>4, <1>5, <1>6 DEF CredentialsNext

\* The strengthened invariant holds in every reachable state.
THEOREM Invariance == CredentialsSpec => []IInv
<1>1. CredentialsInit => IInv
  BY SessionsInitInv, KeyringInitInv DEF CredentialsInit, IInv
<1>2. IInv /\ [CredentialsNext]_allvars => IInv'
  BY StepInv
<1> QED
  BY <1>1, <1>2, PTL DEF CredentialsSpec

\* Cookies, tabs, the keyring and the processes keep their types, and every
\* cookie is signed under the password it was issued under.
THEOREM TypeCorrect == CredentialsSpec => []CredentialsTypeOK
<1>1. IInv => CredentialsTypeOK
  BY DEF IInv, BrowserInv, MachineInv, CredentialsTypeOK
<1> QED
  BY <1>1, Invariance, PTL

\* No page is the answer to a request sent with the cookie of a token replaced
\* by then, or with one that had expired by then.
THEOREM SessionsEnd == CredentialsSpec => []SessionEndsWithToken
<1>1. IInv => SessionEndsWithToken
  BY SessionsAssumption
     DEF IInv, BrowserInv, TabInv, PageMeant, SessionEndsWithToken
<1> QED
  BY <1>1, Invariance, PTL

\* As long as the token, the time and the password last, a request with the
\* cookie gets its page or its lookup failed, and the browser only drops the
\* cookie for a logout, a failed lookup or the answer to an older request.
THEOREM SessionsOutlastRestarts == CredentialsSpec => SessionLasts
<1>1. ASSUME IInv, CredentialsNext PROVE KeepsSession
  <2>1. ASSUME NEW t \in Tab, Serve(t), tab[t].url = "/ui/", Alive(tab[t].cookie)
        PROVE  tab'[t].reply = "page" \/ tab'[t].failed
    <3>1. tab \in [Tab -> TabState] /\ tab[t] \in TabState
      BY <1>1 DEF IInv, BrowserInv, SessionsTypeOK
    <3>2. VerifyUICookie(tab[t].cookie) /\ Authenticate(tab[t].cookie.token)
      BY <1>1, <2>1 DEF IInv, BrowserInv, SessionsTypeOK, Alive, VerifyUICookie, SessionKey,
                        Authenticate
    <3>3. StaleSession(t) \/ UIPage(t)
      BY <2>1, <3>2 DEF Serve, NoSession, UILogout, UILoginPage, UILogin, Asked
    <3>4. \/ Answer(t, "page", Keep, FALSE)
          \/ Answer(t, "to /ui/login", Nil, TRUE)
      BY <3>2, <3>3 DEF StaleSession, UIPage, Cleared
    <3>5. CASE Answer(t, "page", Keep, FALSE)
      BY <3>1, <3>5 DEF Answer, TabState
    <3>6. CASE Answer(t, "to /ui/login", Nil, TRUE)
      <4>1. tab'[t].failed = TRUE
        BY <3>1, <3>6 DEF Answer, TabState
      <4> QED
        BY <4>1
    <3> QED
      BY <3>4, <3>5, <3>6
  <2>2. ASSUME Alive(jar), jar' = Nil
        PROVE  \E t \in Tab :
                  /\ Arrive(t)
                  /\ tab[t].url = "/ui/logout" \/ tab[t].failed \/ tab[t].cookie # jar
    <3>1. jar' # jar /\ jar.token = operator
      BY <2>2 DEF Alive
    <3>2. PICK t \in Tab : Arrive(t)
      BY <1>1, <3>1 DEF CredentialsNext, AtBrowser, AtMachine, AtServer, BrowserNext, TabStep,
         ServerNext, Stop, Start, Tick, Rotate, Open, Submit, AskLogout, Serve, NoSession,
         StaleSession, UIPage, UILogout, UILoginPage, UILogin, Answer, Unreachable, browser
    <3>3. tab[t].at = "answered" /\ tab[t].sets = Nil
      BY <2>2, <3>1, <3>2 DEF Arrive
    <3>4. ClearedForAReason(t)
      BY <1>1 DEF IInv, BrowserInv, TabInv
    <3> QED
      BY <3>1, <3>2, <3>3, <3>4 DEF ClearedForAReason
  <2> QED
    BY <2>1, <2>2 DEF KeepsSession
<1>2. IInv /\ [CredentialsNext]_allvars => [KeepsSession]_<<server, browser>>
  BY <1>1 DEF allvars
<1> QED
  BY <1>2, Invariance, PTL DEF CredentialsSpec, SessionLasts

\* With a keychain that answers just if it did the last login or logout, or
\* that has no entry of ours, Load gives what that one left.
THEOREM LoadGivesLastLogin == CredentialsSpec => []LastLoginCounts
<1>1. IInv => LastLoginCounts
  BY DEF IInv, MachineInv, LastInv, LastLoginCounts, Load
<1> QED
  BY <1>1, Invariance, PTL

\* No process sends a token to another vault than the one it was saved or set
\* with, the MCP server with half an environment excepted.
THEOREM PairsAreKept == CredentialsSpec => []PairsStayTogether
<1>1. IInv => PairsStayTogether
  BY DEF IInv, MachineInv
<1> QED
  BY <1>1, Invariance, PTL
=============================================================================
