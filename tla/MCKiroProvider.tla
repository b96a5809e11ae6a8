--------------------------- MODULE MCKiroProvider ---------------------------
(* Small instances of KiroProvider for TLC.                                 *)
EXTENDS KiroProvider, TLC

CONSTANTS t1, t2, a1, a2, a3

Key(id, account, prio) ==
    [id |-> id, disabled |-> FALSE,
     cred |-> [prio |-> prio, kind |-> "apiKey", opus |-> TRUE,
               expired |-> FALSE, account |-> account, rt |-> 0,
               known |-> FALSE]]

Token(id, account, prio) ==
    [Key(id, account, prio) EXCEPT !.cred.kind = "oauth"]

\* A failing API key, a used up OAuth credential whose token expires, and the
\* healthy one, which is the last choice.
ThreeFile == {<<Key(1, a1, 0), Token(2, a2, 1), Key(3, a3, 2)>>}

\* An OAuth credential, with or without a valid token, and an API key.
TokenFile ==
    {<<[Token(1, a1, 0) EXCEPT !.cred.expired = expired], Key(2, a2, 1)>> :
       expired \in BOOLEAN}

TwoFailOneServes ==
    (a1 :> {"denied", "noEndpoint"}) @@ (a2 :> {"quota"})
        @@ (a3 :> {"success"})

AnythingForToken ==
    (a1 :> {"success", "noClient", "denied", "quota", "badToken"})
        @@ (a2 :> {"network", "refused", "quota"})

NoCredentials == {}

Symmetric == Permutations(Task)
=============================================================================
