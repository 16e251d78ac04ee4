----------------------------- MODULE MCBundler ------------------------------
(* Values of the constants of Bundler for the model checker.               *)
EXTENDS Bundler, TLC

CONSTANTS old, new, bare, emu, run, aux

\* The old release has its binary under a known name; the new one has a
\* program that only the fallback of the search finds, and ships a manifest;
\* the bare one has nothing the search finds.
MCContents   == (old :> {emu}) @@ (new :> {run}) @@ (bare :> {aux})
MCShipped    == (old :> None) @@ (new :> run) @@ (bare :> None)
MCCandidates == <<emu>>

MCSymmetry == Permutations(Tasks)
=============================================================================
