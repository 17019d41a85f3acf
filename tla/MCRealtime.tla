----------------------------- MODULE MCRealtime -----------------------------
(***************************************************************************)
(* Instances of Realtime for TLC, and what the repository says of a        *)
(* journey that ends while a step of it is under way.                      *)
(***************************************************************************)
EXTENDS Realtime, TLC

Sym == Permutations(Workers)

\* "a concurrent exit is never resurrected by a retry": once a reply or the deletion of the
\* automation has ended the journey, no worker's commit makes it active again.
ExitIsFinal == [][journey.st = "exited" => journey'.st = "exited"]_journey
=============================================================================
