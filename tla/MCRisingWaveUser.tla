-------------------------- MODULE MCRisingWaveUser --------------------------
(***************************************************************************)
(* Instances of RisingWaveUser for TLC.                                    *)
(***************************************************************************)
EXTENDS RisingWaveUser

\* at most six passwords are in use at once beside those in undelivered events
MCPasswords == 1 .. 8
=============================================================================
