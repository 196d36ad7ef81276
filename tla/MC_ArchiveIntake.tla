-------------------------- MODULE MC_ArchiveIntake --------------------------
(* Every archive of up to three members, of which there are sound ones and *)
(* one for each way a member can be refused or can fail to be written.     *)
EXTENDS ArchiveIntake

File(name, size, content) ==
    [name |-> name, dir |-> FALSE, mode |-> "plain", size |-> size, content |-> content]
Dir(name) == [File(name, 0, "whole") EXCEPT !.dir = TRUE]

MC_Members ==
    {File("a", 1, "whole"), File("b", 2, "whole"), File("manifest", 1, "whole"),
     File("A", 2, "whole"), File("x", 2, "whole"), File("../a", 1, "whole"),
     Dir("evidence"), Dir("other"), [File("a", 1, "whole") EXCEPT !.mode = "link"],
     File("b", 3, "whole"), File("a", 1, "short"), File("b", 2, "damaged"),
     File("a", 1, "altered")}
MC_Sequences == UNION {[1..n -> MC_Members] : n \in 0..3}
Good == <<File("a", 1, "whole"), File("b", 2, "whole"), File("manifest", 1, "whole")>>
MC_Retried == {[members |-> Good, listing |-> {"a", "b"}],
               [members |-> <<Good[1], Good[2]>>, listing |-> {"a"}]}
MC_Archives ==
    {[members |-> ms, listing |-> l] : ms \in MC_Sequences, l \in {{"a"}, {"a", "b"}}}
        \cup MC_Retried \cup {[members |-> Good \o Good, listing |-> {"a"}]}
=============================================================================
