------------------------------ MODULE MCNetOps ------------------------------
(* Instances of NetOps: each configuration picks the menu rows in reach.   *)
EXTENDS NetOps, FiniteSets

CONSTANTS p1, none

OneProject == {p1}

GitRows   == {"PROJECTS", "SYNC", "GIT", "G_SYNC", "G_STATUS", "SFTP", "SERVE"}
SftpRows  == {"SYNC", "SFTP", "SERVE", "SEND"}
RadioRows == {"PROJECTS", "SYNC", "DISK", "WIFI", "SSH_TEST",
              "WIFI_SCAN", "WIFI_KNOWN", "WIFI_TOGGLE", "WIFI_DISCONNECT"}

\* What is not followed: two of the exceptions at once; a server after crossed operations,
\* which are an exception to what is said of it; and what comes after a server has stopped.
Followed == /\ Cardinality({i \in 1..3 : <<lost, crossed, left>>[i]}) <= 1
            /\ crossed => ~s_serving /\ task.kind # "serve" /\ curmenu # "SFTP"
            /\ s_stop => s_serving \/ task.kind = "serve"
=============================================================================
