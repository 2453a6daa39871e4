---------------------------- MODULE MCCredentials ----------------------------
(* Small instances of CredentialChain for TLC.                             *)
EXTENDS CredentialChain, TLC

\* Which of the Secrets, Apps and accounts is the first makes no difference.
OneSetup == {[secret |-> CHOOSE n \in SecretNames : TRUE, app |-> CHOOSE p \in Apps : TRUE,
              account |-> CHOOSE a \in Accounts : TRUE]}

=============================================================================
