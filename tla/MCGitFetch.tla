----------------------------- MODULE MCGitFetch ------------------------------
(***************************************************************************)
(* An instance of GitFetch for TLC: HEAD and three branches, one more than *)
(* the limit lets through, at the same commit, a fourth branch at another  *)
(* one, a tag; a pack of three objects with one, two and one pieces.       *)
(***************************************************************************)
EXTENDS GitFetch

CONSTANTS head_, main, topic, late, old, tag, h1, h2

Lines == <<[ref |-> head_, hash |-> h1],
           [ref |-> old, hash |-> h2],
           [ref |-> main, hash |-> h1],
           [ref |-> tag, hash |-> h1],
           [ref |-> topic, hash |-> h1],
           [ref |-> late, hash |-> h1]>>

\* Headers at 10, 12 and 15, the checksum at 17.
Places == <<10, 12, 15, 17>>
=============================================================================
