----------------------------- MODULE MCInstaller -----------------------------
(* Instances of Installer for TLC: every transaction installs a new release. *)
EXTENDS Installer

CONSTANTS r0, r1

Upgrade == [t \in Txns |-> r1]
=============================================================================
