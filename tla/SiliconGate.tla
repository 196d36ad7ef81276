-------------------------------- MODULE SiliconGate --------------------------------
(***************************************************************************)
(* The silicon evidence gate, run as the GitHub Action: analyzers write    *)
(* the evidence of the commit that is checked out, one file after the      *)
(* other; the gate reads the request, resolves and loads six evidence      *)
(* files, decides, hashes the files it has named, writes its report and    *)
(* publishes; the next step enforces the decision.                         *)
(*                                                                         *)
(* Nothing locks the evidence: a file may be produced for another commit,  *)
(* be found half written or be gone at any step of the gate.  A file is    *)
(* known by the commit it was produced for: equal hashes, equal commits.   *)
(***************************************************************************)
EXTENDS TraceEvidence

CONSTANTS
    Commits,        \* candidate commits
    Base,           \* the baseline commit, its evidence is never rewritten
    Traces,         \* simulations the analyzers may be given
    Simulated,      \* what the commits show when they are simulated
    Oracle,         \* the architectural trace a candidate is compared with
    Requests,       \* the commit a gate request names, and its review tag
    MaxExplained, MaxRedirects,     \* budgets of the policy
    MaxWrites,      \* bound: evidence files written after the first ones
    MaxGates        \* bound: runs of the gate

Candidate == {"trace_comparison", "candidate_timing", "candidate_control_flow",
              "manifest"}
Baseline == {"baseline_timing", "baseline_control_flow"}
Files == Candidate \cup Baseline

(* In the order the gate loads them; hashing goes in the order of names.   *)
LoadOrder == <<"trace_comparison", "baseline_timing", "candidate_timing",
               "baseline_control_flow", "candidate_control_flow", "manifest">>
HashOrder == <<"baseline_control_flow", "baseline_timing", "candidate_control_flow",
               "candidate_timing", "manifest", "trace_comparison">>

ASSUME GateAssumption ==
    /\ Base \notin Commits
    /\ \A t \in Traces : Parsed(t)
    /\ Simulated \subseteq [Commits \cup {Base} -> Traces]
    /\ Oracle \in Traces
    /\ Requests \subseteq [commit: Commits, tagged: BOOLEAN]
    /\ {MaxExplained, MaxRedirects, MaxWrites, MaxGates} \subseteq Nat

Half == "half"       \* not JSON
Garbled == "garbled" \* not UTF-8
Gone == "gone"
Contents == Commits \cup {Base, Half, Garbled, Gone}

VARIABLES
    runs,       \* the simulation of every commit
    files,      \* the evidence on disk
    request,    \* commit and review tag of the gate request
    flags,      \* fail_on_block, fail_on_escalate
    gate,       \* the gate as it runs
    report,     \* the report file
    job,        \* what the job came to
    writes, gates,
    touched     \* history: evidence was written since the gate began

vars == <<runs, files, request, flags, gate, report, job, writes, gates, touched>>
inputs == <<runs, request, flags>>

Decisions == {"ALLOW", "BLOCK", "ESCALATE"}
NoFiles == [f \in Files |-> Gone]
Outcomes == {"none", "green", "blocked", "escalated", "invalid", "crashed", "killed"}

-----------------------------------------------------------------------------
(* The decision                                                            *)

Over(a, b) == IF a > b THEN a - b ELSE 0

NewUnknown(base, cand) == Over(TimingMetrics(cand).unknown, TimingMetrics(base).unknown)
NewExplained(base, cand) ==
    Over(TimingMetrics(cand).explained, TimingMetrics(base).explained)
NewRedirects(base, cand) ==
    Over(Cardinality(DelayedRedirects(cand)), Cardinality(DelayedRedirects(base)))

Blocks(status, bound, unknown, explained, redirects) ==
    \/ status # "MATCH"
    \/ ~bound
    \/ unknown > 0
    \/ explained > MaxExplained
    \/ redirects > MaxRedirects
EscalatesRedirects(explained, redirects, tagged) == redirects > 0 \/ tagged

Escalates(explained, redirects, tagged) ==
    explained > 0 \/ redirects > 0 \/ tagged

Decision(status, bound, unknown, explained, redirects, tagged) ==
    IF Blocks(status, bound, unknown, explained, redirects) THEN "BLOCK"
    ELSE IF Escalates(explained, redirects, tagged) THEN "ESCALATE"
    ELSE "ALLOW"

(* The decision on one baseline and one candidate simulation.              *)
Verdict(base, cand, tagged) ==
    Decision(TraceStatus(Oracle, cand), TRUE, NewUnknown(base, cand),
             NewExplained(base, cand), NewRedirects(base, cand), tagged)

(* The decision on loaded files, each of the commit it was produced for.   *)
Evaluate(held) ==
    LET Run(f) == runs[held[f]] IN
    Decision(TraceStatus(Oracle, Run("trace_comparison")),
             held["manifest"] = request.commit,
             NewUnknown(Run("baseline_timing"), Run("candidate_timing")),
             NewExplained(Run("baseline_timing"), Run("candidate_timing")),
             NewRedirects(Run("baseline_control_flow"), Run("candidate_control_flow")),
             request.tagged)

-----------------------------------------------------------------------------
(* Evidence                                                                *)

(* An analyzer or a checkout writes, breaks or removes a file.             *)
Produce(f, c) ==
    /\ writes < MaxWrites
    /\ f \in Candidate /\ files[f] # c
    /\ files' = [files EXCEPT ![f] = c]
    /\ writes' = writes + 1
    /\ touched' = TRUE
    /\ UNCHANGED <<inputs, gate, report, job, gates>>

-----------------------------------------------------------------------------
(* The gate                                                                *)

NoGate == [pc |-> "idle", at |-> 1, held |-> NoFiles, hashes |-> NoFiles,
           decision |-> "none", output |-> "none"]

Ends(outcome) == gate' = NoGate /\ job' = outcome

Begin ==
    /\ gate.pc = "idle" /\ gates < MaxGates
    /\ gate' = [NoGate EXCEPT !.pc = "resolve"]
    /\ job' = "none" /\ gates' = gates + 1 /\ touched' = FALSE
    /\ UNCHANGED <<inputs, files, report, writes>>

(* Every evidence path must name a file before any of them is opened.      *)
Resolve ==
    /\ gate.pc = "resolve"
    /\ IF \A f \in Files : files[f] # Gone
       THEN gate' = [gate EXCEPT !.pc = "load"] /\ UNCHANGED job
       ELSE Ends("invalid")
    /\ UNCHANGED <<inputs, files, report, writes, gates, touched>>

(* A file that cannot be read or is not JSON makes the request invalid;    *)
(* bytes that are not UTF-8 end the program with an exception.             *)
Load ==
    LET f == LoadOrder[gate.at] IN
    /\ gate.pc = "load"
    /\ IF files[f] = Garbled THEN Ends("crashed")
       ELSE IF files[f] \in {Gone, Half} THEN Ends("invalid")
       ELSE /\ gate' = [gate EXCEPT !.held[f] = files[f],
                                    !.at = IF @ = Len(LoadOrder) THEN 1 ELSE @ + 1,
                                    !.pc = IF gate.at = Len(LoadOrder) THEN "decide" ELSE @]
            /\ UNCHANGED job
    /\ UNCHANGED <<inputs, files, report, writes, gates, touched>>

Decide ==
    /\ gate.pc = "decide"
    /\ gate' = [gate EXCEPT !.pc = "hash", !.decision = Evaluate(gate.held)]
    /\ UNCHANGED <<inputs, files, report, job, writes, gates, touched>>

HashAllButLast ==
    LET f == HashOrder[gate.at] IN
    /\ gate.pc = "hash"
    /\ IF files[f] = Gone THEN Ends("crashed")
       ELSE /\ gate' = [gate EXCEPT !.hashes[f] = files[f],
                                    !.at = IF @ = Len(HashOrder) - 1 THEN 1 ELSE @ + 1,
                                    !.pc = IF gate.at = Len(HashOrder) - 1 THEN "write" ELSE @]
            /\ UNCHANGED job
    /\ UNCHANGED <<inputs, files, report, writes, gates, touched>>

(* The files are opened again for their hashes; one that is gone by now    *)
(* ends the program.                                                       *)
Hash ==
    LET f == HashOrder[gate.at] IN
    /\ gate.pc = "hash"
    /\ IF files[f] = Gone THEN Ends("crashed")
       ELSE /\ gate' = [gate EXCEPT !.hashes[f] = files[f],
                                    !.at = IF @ = Len(HashOrder) THEN 1 ELSE @ + 1,
                                    !.pc = IF gate.at = Len(HashOrder) THEN "write" ELSE @]
            /\ UNCHANGED job
    /\ UNCHANGED <<inputs, files, report, writes, gates, touched>>

WriteReport ==
    /\ gate.pc = "write"
    /\ report' = [decision |-> gate.decision, hashes |-> gate.hashes, held |-> gate.held,
                  commit |-> request.commit]
    /\ gate' = [gate EXCEPT !.pc = "publish"]
    /\ UNCHANGED <<inputs, files, job, writes, gates, touched>>

(* Outputs and summary; then the step has succeeded, whatever the decision.*)
Publish ==
    /\ gate.pc = "publish"
    /\ gate' = [gate EXCEPT !.pc = "enforce", !.output = gate.decision]
    /\ UNCHANGED <<inputs, files, report, job, writes, gates, touched>>

EnforceBlock ==
    /\ gate.pc = "enforce"
    /\ Ends(IF gate.output = "BLOCK" /\ flags.block THEN "blocked"
            ELSE "green")
    /\ UNCHANGED <<inputs, files, report, writes, gates, touched>>

Enforce ==
    /\ gate.pc = "enforce"
    /\ Ends(IF gate.output = "BLOCK" /\ flags.block THEN "blocked"
            ELSE IF gate.output = "ESCALATE" /\ flags.escalate THEN "escalated"
            ELSE "green")
    /\ UNCHANGED <<inputs, files, report, writes, gates, touched>>

(* A run cancelled or out of time; while it writes, half a report is left. *)
Kill ==
    /\ gate.pc # "idle"
    /\ Ends("killed")
    /\ report' = IF gate.pc = "write" THEN [report EXCEPT !.decision = "half"] ELSE report
    /\ UNCHANGED <<inputs, files, writes, gates, touched>>

Init ==
    /\ runs \in Simulated
    /\ files \in [Files -> Commits \cup {Base}]
    /\ \A f \in Baseline : files[f] = Base
    /\ \E c \in Commits : \A f \in Candidate : files[f] = c
    /\ request \in Requests
    /\ flags \in [block: BOOLEAN, escalate: BOOLEAN]
    /\ gate = NoGate
    /\ report = [decision |-> "none", hashes |-> NoFiles, held |-> NoFiles, commit |-> Base]
    /\ job = "none"
    /\ writes = 0 /\ gates = 0 /\ touched = FALSE

GateStep == Begin \/ Resolve \/ Load \/ Decide \/ Hash \/ WriteReport \/ Publish \/ Enforce

Next ==
    \/ GateStep \/ Kill
    \/ \E f \in Candidate, c \in Contents \ {Base} : Produce(f, c)

Spec == Init /\ [][Next]_vars
-----------------------------------------------------------------------------
TypeOK ==
    /\ runs \in Simulated /\ request \in Requests
    /\ flags \in [block: BOOLEAN, escalate: BOOLEAN]
    /\ files \in [Files -> Contents]
    /\ gate \in [pc: {"idle", "resolve", "load", "decide", "hash", "write", "publish",
                      "enforce"},
                 at: 1..6, held: [Files -> Contents], hashes: [Files -> Contents],
                 decision: Decisions \cup {"none"}, output: Decisions \cup {"none"}]
    /\ report \in [decision: Decisions \cup {"none", "half"},
                   hashes: [Files -> Contents], held: [Files -> Contents],
                   commit: Commits \cup {Base}]
    /\ job \in Outcomes
    /\ writes \in 0..MaxWrites /\ gates \in 0..MaxGates

(* When nobody writes evidence while the gate runs, its report names the   *)
(* bytes its decision came from, all of them, and deciding again on what   *)
(* is on disk gives the same.                                              *)
QuietReportIsExact ==
    gate.pc \in {"publish", "enforce"} /\ ~touched =>
        /\ report.hashes = report.held
        /\ report.hashes = files
        /\ report.decision = Evaluate(files)

(* A green job of an enforcing action stands for an ALLOW in the report    *)
(* that is on disk, and a manifest of the commit of the request: runs that *)
(* were killed, crashed or got half a file never look green.               *)
GreenMeansAllowed ==
    job = "green" /\ flags = [block |-> TRUE, escalate |-> TRUE] =>
        report.decision = "ALLOW" /\ report.held["manifest"] = request.commit

(* From tracer to verdict: on a clean baseline, an allowed simulation has  *)
(* no delayed step at all, explained or not, redirect or not, and has      *)
(* retired exactly the instructions of the oracle.                         *)
OnTime(trace) == \A i \in TransitionsOf(trace) : Gap(trace, i) <= ExpectedCycles
AllowedRunIsOnTime ==
    \A cand \in Traces :
        OnTime(runs[Base]) /\ Verdict(runs[Base], cand, request.tagged) = "ALLOW" =>
            /\ OnTime(cand)
            /\ Len(cand) = Len(Oracle)
            /\ \A i \in DOMAIN Oracle : Event(cand[i]) = Event(Oracle[i])

(* A delay without a supported cause where the baseline has none is never  *)
(* allowed.                                                                *)
NewUnknownNeverAllowed ==
    \A cand \in Traces :
        Verdict(runs[Base], cand, request.tagged) = "ALLOW" =>
            DelaysOf(cand, "UNKNOWN_DELAY") \subseteq DelaysOf(runs[Base], "UNKNOWN_DELAY")

(* An allowed request rests on evidence of the commit it names.            *)
AllowRestsOnCandidate ==
    report.decision = "ALLOW" => \A f \in Candidate : report.held[f] = report.commit
=============================================================================
