-------------------------- MODULE MCCachingClient --------------------------
(* Two goroutines; the second version of a secret is its deletion. *)
EXTENDS CachingClient, TLC

CONSTANTS p1, p2, a, b, mounts

MCCallers == {p1, p2}
MCPaths == {a, b}
\* An operation whose 404 is an error and one whose 404 is a success.
MCTwoKeys == {<<"read", a>>, <<"list", b>>}
MCTombstones == {2}
MCSymmetry == Permutations(MCCallers)
=============================================================================
