---------------------- MODULE MC_VerificationGraph ----------------------
(* Three heads: one changes documentation, one runtime code, a path no     *)
(* rule knows and a path two rules match; one changes nothing any more.    *)
EXTENDS VerificationGraph

MCHeads == {"docs", "code", "empty"}
MCPaths == {"guide", "module", "odd"}
MCPathsOf == [h \in MCHeads |-> CASE h = "docs" -> {"guide"}
                                  [] h = "code" -> {"guide", "module", "odd"}
                                  [] h = "empty" -> {}]
MCRuleDepths == [p \in MCPaths |-> CASE p = "guide" -> {1}
                                     [] p = "module" -> {2, 4}
                                     [] p = "odd" -> {}]
MCCiNodes == {"contract_suite", "installed_wheel"}
MCMinimumDepth == [n \in MCCiNodes \cup {"human_review"} |->
                      CASE n = "contract_suite" -> 1
                        [] n = "installed_wheel" -> 3
                        [] n = "human_review" -> 3]
=============================================================================
