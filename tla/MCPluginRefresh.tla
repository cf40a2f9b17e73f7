-------------------------- MODULE MCPluginRefresh --------------------------
(***************************************************************************)
(* Lists of managed plugins for PluginRefresh.                             *)
(***************************************************************************)
EXTENDS PluginRefresh, TLC

Managed(slug, strategy, policy) == [slug |-> slug, strategy |-> strategy, policy |-> policy]

TwoPlugins == {"a", "b"}
TwoLists ==
    {<<Managed("a", "replace_from_git", "skip"), Managed("b", "update_from_git", "stash")>>,
     <<Managed("b", "replace_from_git", "abort")>>}

=============================================================================
