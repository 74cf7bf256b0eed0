------------------------- MODULE MCHashiCorpClient -------------------------
(* Two handlers, two paths of one mount. *)
EXTENDS HashiCorpClient, TLC

CONSTANTS p1, p2, kv, x, y

MCCallers == {p1, p2}
MCMounts == {kv}
MCPaths == {<<kv, x>>, <<kv, y>>}
MCRequests == {<<"list", Root>>, <<"list", <<kv, x>>>>, <<"read", <<kv, x>>>>,
               <<"pathexists", <<kv, x>>>>, <<"pathexists", <<kv, y>>>>}
MCSymmetry == Permutations(MCCallers)
=============================================================================
