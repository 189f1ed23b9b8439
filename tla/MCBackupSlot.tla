----------------------------- MODULE MCBackupSlot -----------------------------
(***************************************************************************)
(* BackupSlot for TLC, with the inductive invariant of its proofs. The      *)
(* scheduled backups are interchangeable: Init, Next and every invariant    *)
(* treat them alike.                                                        *)
(***************************************************************************)
EXTENDS BackupSlotProofs, TLC

InterchangeableBackups == Permutations(ScheduledBackups)
=============================================================================
