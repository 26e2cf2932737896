----------------------------- MODULE MCSnapshots -----------------------------
(* A small instance of Snapshots for TLC. *)
EXTENDS Snapshots

CONSTANTS auto, api

TwoTests == {auto, api}
TheAutonomous == {auto}
=============================================================================
