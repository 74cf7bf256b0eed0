---------------------------- MODULE MCNamespace ----------------------------
(* One real directory with two levels and one real file, with links inside *)
(* the directory and for the file; Vault has a mount that shares its name  *)
(* with mappings, one with a secret that is a directory too, and one that  *)
(* is empty.                                                               *)
EXTENDS Namespace

MCNames == {"a", "b"}
MCPaths == SeqOf(MCNames, 2) \cup {<<"a", "b", "a">>, <<"a", "b", "b">>,
                                   <<"v">>, <<"v", "s">>, <<"e">>}
MCRealPaths == {<<"dir">>, <<"dir", "a">>, <<"dir", "a", "b">>, <<"file">>}
MCLinkPlaces == {<<"dir", "a">>, <<"file">>}
MCMounts == {"a", "v", "e"}
MCSecrets == {<<"a", "a">>, <<"v", "s">>, <<"v", "s", "t">>}

To(v, r) == [virtual |-> v, real |-> r]

\* Mappings apart from each other, a deep one, a file below a mapped directory.
MCConfigs ==
    {<<To(<<"a", "b">>, <<"dir">>), To(<<"b">>, <<"file">>)>>,
     <<To(<<"a", "b", "a">>, <<"file">>), To(<<"a", "a">>, <<"dir">>)>>,
     <<To(<<"a", "b", "b">>, <<"dir">>)>>,
     <<To(<<"a">>, <<"dir">>), To(<<"a", "b", "b">>, <<"file">>)>>}
=============================================================================
