----------------------------- MODULE MCRoyalties -----------------------------
(* Instances of Royalties for TLC.                                         *)
EXTENDS Royalties

CONSTANTS none, p1, p2, song, album, cron, admin
=============================================================================
