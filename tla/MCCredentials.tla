--------------------------- MODULE MCCredentials ---------------------------
\* Small instances of Credentials.
EXTENDS Credentials

CONSTANTS t1, t2, p1, p2, sk, here, there

Tokens == {t1, t2}
Passwords == {p1, p2}
AgentKeys == {sk}
AllTokens == Tokens \cup AgentKeys
Vaults == {here, there}

Env(url, key, tok) ==
    [SCOPULI_URL |-> url, SCOPULI_KEY |-> key, SCOPULI_OPERATOR_TOKEN |-> tok]

\* Nothing set, all set, half of it set, and the alias of the key.
SomeEnvironments ==
    {Env(None, None, None), Env(here, sk, None), Env(here, None, t1),
     Env(here, None, None), Env(None, sk, None)}
=============================================================================
