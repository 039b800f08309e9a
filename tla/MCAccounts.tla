----------------------------- MODULE MCAccounts -----------------------------
EXTENDS Accounts

CONSTANTS r1, r2, e1, e2, acme

MCRequests == {r1, r2}
MCEmails == {e1, e2}
MCBases == {acme}
=============================================================================
