------------------------------- MODULE ArchiveIntake -------------------------------
(***************************************************************************)
(* How a downloaded artifact archive becomes a directory: one pass over    *)
(* the table of members decides, a second one writes, and for evidence a   *)
(* third one compares what was written with the manifest.  Two scripts do  *)
(* it: the ingestion of a transition source, whose files are fixed, and    *)
(* the promotion of evidence, whose files its own manifest lists.          *)
(* A script may be killed, and run again on the directory it left.         *)
(***************************************************************************)
EXTENDS Naturals, Sequences, FiniteSets

CONSTANTS
    Archives,       \* archives that may be downloaded
    Retried,        \* those a later try may find
    MaxEntries,     \* members an archive may have
    MaxFileBytes,   \* bytes of one member
    MaxTotalBytes,  \* bytes of all members
    MaxTries        \* times the script is started

Names == {"a", "A", "b", "x", "../a", "manifest", "evidence", "other"}
Key(name) == IF name = "A" THEN "a" ELSE name
Canonical(name) == name # "../a"

(* The content of a member: as its table entry and manifest say; not what  *)
(* the manifest lists; shorter than its entry says; damaged.               *)
Contents == {"whole", "altered", "short", "damaged"}
Member == [name: Names, dir: BOOLEAN, mode: {"plain", "link", "encrypted"},
           size: Nat, content: Contents]
Archive == [members: Seq(Member), listing: SUBSET Names]

ASSUME IntakeAssumption ==
    /\ {MaxEntries, MaxFileBytes, MaxTotalBytes, MaxTries} \subseteq Nat
    /\ Retried \subseteq Archives
    /\ \A a \in Archives : /\ a.members \in Seq(Member)
                           /\ a.listing \subseteq Names

ExpectedSource == {"a", "b"}
EvidenceLayout == {"a", "A", "b", "manifest"}
RequiredEvidence == {"a"}
Directories == {"evidence"}

Kinds == {"source", "evidence"}
Steps == {"idle", "open", "scan", "write", "inventory", "accepted", "refused", "crashed"}

VARIABLES
    kind,       \* which script runs
    archive,    \* the archive downloaded by this try
    pc, at,     \* the step, and the member it has reached
    folded,     \* names met by the scan, folded to one case
    files,      \* files met by the scan
    total,      \* bytes the scan added up
    exists,     \* whether the output directory exists
    tree,       \* files in the output directory
    tries

vars == <<kind, archive, pc, at, folded, files, total, exists, tree, tries>>
scan == <<folded, files, total>>

member == archive.members[at]
Fail(how) == pc' = how /\ UNCHANGED <<kind, archive, at, scan, exists, tree, tries>>

(* One regular file of the selected digest, and a directory that is new.   *)
Open ==
    /\ pc = "open"
    /\ IF exists \/ Len(archive.members) \notin 1..MaxEntries
       THEN /\ pc' = "refused"
            /\ exists' = TRUE
            /\ UNCHANGED <<kind, archive, at, scan, tree, tries>>
       ELSE /\ exists' = TRUE
            /\ pc' = "scan" /\ at' = 1
            /\ UNCHANGED <<kind, archive, scan, tree, tries>>

PlainMode(m) == m.mode = "plain"
NameAllowed(m) ==
    IF m.dir THEN m.name \in Directories
    ELSE kind = "evidence" => m.name \in EvidenceLayout
SizeOfOneFile(m) == m.size <= MaxFileBytes

SizeAllowed(m) == m.size <= MaxFileBytes /\ total + m.size <= MaxTotalBytes
AdmissibleOfAnyMode(m) ==
    /\ Canonical(m.name)
    /\ Key(m.name) \notin folded
    /\ NameAllowed(m)
    /\ m.dir \/ SizeAllowed(m)

Admissible(m) ==
    /\ Canonical(m.name)
    /\ Key(m.name) \notin folded
    /\ PlainMode(m)
    /\ NameAllowed(m)
    /\ m.dir \/ SizeAllowed(m)

ScanMember ==
    /\ pc = "scan" /\ at <= Len(archive.members)
    /\ IF Admissible(member)
       THEN /\ folded' = folded \cup {Key(member.name)}
            /\ files' = IF member.dir THEN files ELSE files \cup {member.name}
            /\ total' = IF member.dir THEN total ELSE total + member.size
            /\ at' = at + 1
            /\ UNCHANGED <<kind, archive, pc, exists, tree, tries>>
       ELSE Fail("refused")

EndScan ==
    /\ pc = "scan" /\ at > Len(archive.members)
    /\ IF kind = "source" /\ files # ExpectedSource
       THEN Fail("refused")
       ELSE /\ pc' = "write" /\ at' = 1
            /\ UNCHANGED <<kind, archive, scan, exists, tree, tries>>

(* A member whose data ends early, or does not check, leaves what was      *)
(* written of it; a damaged stream is an error no handler names.           *)
WriteMember ==
    /\ pc = "write" /\ at <= Len(archive.members)
    /\ IF member.dir
       THEN /\ at' = at + 1
            /\ UNCHANGED <<pc, tree>>
       ELSE /\ tree' = tree \cup {[name |-> member.name, content |-> member.content,
                                   try |-> tries]}
            /\ IF member.content \in {"short", "damaged"}
               THEN /\ pc' \in IF member.content = "short" THEN {"refused"}
                               ELSE {"refused", "crashed"}
                    /\ UNCHANGED at
               ELSE at' = at + 1 /\ UNCHANGED pc
    /\ UNCHANGED <<kind, archive, scan, exists, tries>>

EndWrite ==
    /\ pc = "write" /\ at > Len(archive.members)
    /\ pc' = IF kind = "source" THEN "accepted" ELSE "inventory"
    /\ UNCHANGED <<kind, archive, at, scan, exists, tree, tries>>

(* Every file listed was extracted as listed, and no other.                *)
ListedAsWritten ==
    \A n \in archive.listing :
        /\ n # "manifest" /\ n \in EvidenceLayout
        /\ \E f \in tree : f.name = n /\ f.content = "whole"
ListingFolds == \A m, n \in archive.listing : Key(m) = Key(n) => m = n
InventoryOfListed ==
    /\ pc = "inventory"
    /\ IF /\ archive.listing # {}
          /\ ListedAsWritten
          /\ ListingFolds
          /\ archive.listing \subseteq files
          /\ RequiredEvidence \subseteq archive.listing
       THEN pc' = "accepted"
       ELSE pc' = "refused"
    /\ UNCHANGED <<kind, archive, at, scan, exists, tree, tries>>

Inventory ==
    /\ pc = "inventory"
    /\ IF /\ archive.listing # {}
          /\ ListedAsWritten
          /\ ListingFolds
          /\ files = archive.listing \cup {"manifest"}
          /\ RequiredEvidence \subseteq archive.listing
       THEN pc' = "accepted"
       ELSE pc' = "refused"
    /\ UNCHANGED <<kind, archive, at, scan, exists, tree, tries>>

(* Started, or started again on whatever the try before left.              *)
Start(a) ==
    /\ pc \in {"idle", "refused", "crashed"}
    /\ tries < MaxTries
    /\ IF tries = 0 THEN a = archive ELSE a \in Retried
    /\ tries' = tries + 1
    /\ archive' = a
    /\ pc' = "open" /\ at' = 1
    /\ folded' = {} /\ files' = {} /\ total' = 0
    /\ UNCHANGED <<kind, exists, tree>>

Kill ==
    /\ pc \in {"open", "scan", "write", "inventory"}
    /\ tries < MaxTries
    /\ pc' = "crashed"
    /\ UNCHANGED <<kind, archive, at, scan, exists, tree, tries>>

Init ==
    /\ kind \in Kinds
    /\ archive \in Archives
    /\ pc = "idle" /\ at = 1
    /\ folded = {} /\ files = {} /\ total = 0
    /\ exists = FALSE /\ tree = {}
    /\ tries = 0

Intake == Open \/ ScanMember \/ EndScan \/ WriteMember \/ EndWrite \/ Inventory

Next == Intake \/ Kill \/ \E a \in Retried \cup {archive} : Start(a)

Spec == Init /\ [][Next]_vars
-----------------------------------------------------------------------------
TypeOK ==
    /\ kind \in Kinds
    /\ archive \in Archives
    /\ pc \in Steps
    /\ at \in 1..(MaxEntries + 1)
    /\ folded \subseteq Names /\ files \subseteq Names
    /\ total \in 0..MaxTotalBytes
    /\ exists \in BOOLEAN
    /\ tree \subseteq [name: Names, content: Contents, try: 1..MaxTries]
    /\ tries \in 0..MaxTries

(* An accepted directory holds exactly the files it should, each once, of  *)
(* this archive alone, and for evidence each is the file its manifest      *)
(* lists.                                                                  *)
AcceptedTreeIsExact ==
    pc = "accepted" =>
        /\ {f.name : f \in tree} =
              IF kind = "source" THEN ExpectedSource
              ELSE archive.listing \cup {"manifest"}
        /\ \A f, g \in tree : Key(f.name) = Key(g.name) => f = g
        /\ \A f \in tree : /\ f.try = tries
                           /\ f.content \notin {"short", "damaged"}
                           /\ kind = "evidence" /\ f.name # "manifest" => f.content = "whole"

(* Nothing is written before the whole table was found sound: a link, a    *)
(* name that leaves the directory or an oversized member anywhere in the   *)
(* archive leaves the directory empty.                                     *)
Sound(ms) ==
    \A i \in 1..Len(ms) : /\ Canonical(ms[i].name)
                          /\ PlainMode(ms[i])
                          /\ ms[i].dir \/ ms[i].size <= MaxFileBytes
                          /\ \A k \in 1..(i - 1) : Key(ms[k].name) # Key(ms[i].name)
WrittenIsSound == (\E f \in tree : f.try = tries) => Sound(archive.members)

(* The files of two archives never meet in one directory.                  *)
OneArchivePerTree == \A f, g \in tree : f.try = g.try

=============================================================================
