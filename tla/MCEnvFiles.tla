----------------------------- MODULE MCEnvFiles -----------------------------
(***************************************************************************)
(* EnvFiles on small instances: one directory, one terminal, one command   *)
(* of the extension open at a time.                                        *)
(***************************************************************************)
EXTENDS EnvFiles

NobodyEditsUnderACommand ==
  AllHabits \ {"editAsked", "typeLocking", "undoLocking"}
OnlyAutoLock == {"cliAutoLock"}
=============================================================================
