-------------------------- MODULE MC_SiliconGate --------------------------
(* Simulations of three instructions at the end of a space of four         *)
(* addresses: on time; one delay, explained or not, at either step; a      *)
(* redirect on time and delayed; another effect; one instruction fewer.    *)
EXTENDS SiliconGate

At(cycle, pc, kind, signals) ==
    [cycle |-> cycle, pc |-> pc, width |-> 1, kind |-> kind, effect |-> 0,
     signals |-> signals]
MCPlain == <<At(1, 2, "plain", {}), At(2, 3, "plain", {}), At(3, 0, "plain", {})>>
MCEarly == <<At(1, 2, "plain", {}), At(3, 3, "plain", {"instr_req"}),
             At(4, 0, "plain", {})>>
MCLate == <<At(1, 2, "plain", {}), At(2, 3, "plain", {}), At(4, 0, "plain", {})>>
MCExplained == [MCLate EXCEPT ![3].signals = {"memory_wait"}]
MCBranch == <<At(1, 2, "branch", {}), At(2, 0, "plain", {}), At(3, 1, "plain", {})>>
MCSlowBranch == <<At(1, 2, "branch", {}), At(3, 0, "plain", {"branch_recovery"}),
                  At(4, 1, "plain", {})>>
MCOther == [MCPlain EXCEPT ![2].effect = 1]
MCTraces == {MCPlain, MCEarly, MCLate, MCExplained, MCBranch, MCSlowBranch, MCOther,
             SubSeq(MCPlain, 1, 2)}
MCSimulated == {[c \in {"c1", "c2", "base"} |-> CASE c = "c1" -> t
                                                  [] c = "c2" -> MCPlain
                                                  [] c = "base" -> b] :
                    t \in {MCPlain, MCLate, MCExplained}, b \in {MCPlain, MCLate}}
MCRequests == [commit: {"c1"}, tagged: BOOLEAN]
=============================================================================
