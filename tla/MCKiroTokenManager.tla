------------------------- MODULE MCKiroTokenManager -------------------------
(* Small instances of KiroTokenManager for TLC.                             *)
EXTENDS KiroTokenManager, TLC

CONSTANTS t1, t2, a1, a2, a3

Cred(account, prio, kind, opus) ==
    [prio |-> prio, kind |-> kind, opus |-> opus, expired |-> kind = "oauth",
     account |-> account, rt |-> 0, known |-> TRUE]

Saved(id, cred, disabled) == [id |-> id, cred |-> cred, disabled |-> disabled]

\* One OAuth credential.
OneFile == {<<Saved(1, Cred(a1, 0, "oauth", TRUE), FALSE)>>}

\* Two OAuth credentials, the preferred one second and without opus.
TwoFile == {<<Saved(1, Cred(a1, 1, "oauth", TRUE), FALSE),
              Saved(2, Cred(a2, 0, "oauth", FALSE), FALSE)>>}

\* An OAuth credential, one with an API key, one without the key it needs.
MixedFile == {<<Saved(1, Cred(a1, 1, "oauth", TRUE), FALSE),
                Saved(2, Cred(a2, 0, "apiKey", FALSE), FALSE),
                Saved(3, Cred(a3, 0, "noKey", TRUE), FALSE)>>}

\* The operator pastes a credential of a third account, known or not yet.
NewOAuth == {Cred(a3, 0, "oauth", TRUE)}

NoCredentials == {}

Symmetric == Permutations(Task)
=============================================================================
