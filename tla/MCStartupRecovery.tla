-------------------------- MODULE MCStartupRecovery --------------------------
(* Small instances of StartupRecovery for TLC. *)
EXTENDS StartupRecovery

CONSTANTS database, assets, hostconfig

MCRank == [r \in Roots |-> CASE r = database -> 1 [] r = assets -> 2 [] OTHER -> 3]

\* One backup, from before the release that is installed now.
MCInitBackups == {[gen |-> 0, schema |-> First, roots |-> Roots]}
=============================================================================
