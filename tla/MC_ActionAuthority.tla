------------------------ MODULE MC_ActionAuthority ------------------------
(* Contents in and outside of the V1 profile; one decision with two grants *)
(* and as many references as the aggregate size allows, one hard block.    *)
EXTENDS ActionAuthority

MCRequired == [t \in {"AUDIT_LOG", "STRUCTURED_REPLAN", "PUBLIC_CONFORMANCE"} |->
                  CASE t = "AUDIT_LOG" -> "D0"
                    [] t = "STRUCTURED_REPLAN" -> "D2"
                    [] t = "PUBLIC_CONFORMANCE" -> "D3"]
MCAllow == [verdict |-> "ALLOW", depth |-> "D2",
            uses |-> <<"AUDIT_LOG", "STRUCTURED_REPLAN">>, refs |-> <<"r1", "r2">>,
            ceiling |-> "narrow", domain |-> "inside", expires |-> "soon",
            label |-> "a", action |-> "none", extra |-> FALSE]
MCBlock == [MCAllow EXCEPT !.verdict = "HARD_BLOCK", !.uses = <<"AUDIT_LOG">>,
                           !.refs = <<"r1">>, !.ceiling = Null]
MCBaseDecisions == {MCAllow, MCBlock}
=============================================================================
