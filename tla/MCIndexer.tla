------------------------------ MODULE MCIndexer ------------------------------
(* Instances of Indexer for TLC.                                           *)
EXTENDS Indexer

CONSTANTS hub, clone, factory, cron, admin
=============================================================================
