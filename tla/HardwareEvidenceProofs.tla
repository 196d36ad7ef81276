------------------------- MODULE HardwareEvidenceProofs -------------------------
(* The two ends of the hardware evidence.  First the silicon evidence gate:     *)
(* what a report and a green job stand for, for any simulations, commits and    *)
(* budgets and any number of writes to the evidence.  Then the waveform         *)
(* adapter, for any length of the waveform and number of open transactions.     *)
EXTENDS SiliconGate, WaveformHandshake, WellFoundedInduction, FiniteSetTheorems, TLAPS

(* Both orders go through every evidence file. *)
LEMMA Orders ==
    /\ Len(LoadOrder) = 6 /\ \A k \in 1..6 : LoadOrder[k] \in Files
    /\ Len(HashOrder) = 6 /\ \A k \in 1..6 : HashOrder[k] \in Files
    /\ \A f \in Files : \E k \in 1..6 : LoadOrder[k] = f
    /\ \A f \in Files : \E k \in 1..6 : HashOrder[k] = f
<1>1. Len(LoadOrder) = 6 /\ Len(HashOrder) = 6
  BY DEF LoadOrder, HashOrder
<1>2. /\ LoadOrder[1] = "trace_comparison" /\ LoadOrder[2] = "baseline_timing"
      /\ LoadOrder[3] = "candidate_timing" /\ LoadOrder[4] = "baseline_control_flow"
      /\ LoadOrder[5] = "candidate_control_flow" /\ LoadOrder[6] = "manifest"
  BY DEF LoadOrder
<1>3. /\ HashOrder[1] = "baseline_control_flow" /\ HashOrder[2] = "baseline_timing"
      /\ HashOrder[3] = "candidate_control_flow" /\ HashOrder[4] = "candidate_timing"
      /\ HashOrder[5] = "manifest" /\ HashOrder[6] = "trace_comparison"
  BY DEF HashOrder
<1>4. \A k \in 1..6 : LoadOrder[k] \in Files /\ HashOrder[k] \in Files
  <2>1. \A k \in 1..6 : k = 1 \/ k = 2 \/ k = 3 \/ k = 4 \/ k = 5 \/ k = 6
    OBVIOUS
  <2> QED
    BY <1>2, <1>3, <2>1 DEF Files, Candidate, Baseline
<1>5. 1 \in 1..6 /\ 2 \in 1..6 /\ 3 \in 1..6 /\ 4 \in 1..6 /\ 5 \in 1..6 /\ 6 \in 1..6
  OBVIOUS
<1>6. \A f \in Files : \E k \in 1..6 : LoadOrder[k] = f
  BY <1>2, <1>5 DEF Files, Candidate, Baseline
<1>7. \A f \in Files : \E k \in 1..6 : HashOrder[k] = f
  BY <1>3, <1>5 DEF Files, Candidate, Baseline
<1> QED
  BY <1>1, <1>4, <1>6, <1>7

LEMMA DecisionIsOne ==
    ASSUME NEW held PROVE Evaluate(held) \in Decisions
BY DEF Evaluate, Decision, Decisions

(* Only the manifest of the requested commit is ever allowed. *)
LEMMA AllowIsBound ==
    ASSUME NEW held, Evaluate(held) = "ALLOW" PROVE held["manifest"] = request.commit
BY DEF Evaluate, Decision, Blocks

-----------------------------------------------------------------------------
(* A finished job has no gate; the decision, the report and the output are      *)
(* copies of one another from the step that makes them.                         *)
CopyInv ==
    /\ job # "none" => gate.pc = "idle"
    /\ gate.pc \in {"hash", "write", "publish", "enforce"} =>
          gate.decision = Evaluate(gate.held)
    /\ gate.pc \in {"publish", "enforce"} =>
          /\ report.decision = gate.decision /\ report.held = gate.held
          /\ report.hashes = gate.hashes
    /\ gate.pc = "enforce" => gate.output = gate.decision

(* What an undisturbed gate holds of the evidence on disk, file by file. *)
QuietInv ==
    ~touched =>
        /\ gate.pc = "load" => \A k \in 1..6 : k < gate.at =>
              gate.held[LoadOrder[k]] = files[LoadOrder[k]]
        /\ gate.pc \in {"decide", "hash", "write", "publish", "enforce"} => gate.held = files
        /\ gate.pc = "hash" => \A k \in 1..6 : k < gate.at =>
              gate.hashes[HashOrder[k]] = files[HashOrder[k]]
        /\ gate.pc \in {"write", "publish", "enforce"} => gate.hashes = files

(* Resolving begins at the first file, and so do loading and hashing. *)
StartInv == gate.pc \in {"resolve", "decide"} => gate.at = 1

IInv == TypeOK /\ StartInv /\ CopyInv /\ QuietInv /\ GreenMeansAllowed

LEMMA NoGateTyped ==
    /\ NoGate.pc = "idle" /\ NoGate.at = 1 /\ NoGate.decision = "none"
    /\ NoGate.output = "none" /\ NoGate.held = NoFiles /\ NoGate.hashes = NoFiles
    /\ NoGate \in [pc: {"idle", "resolve", "load", "decide", "hash", "write", "publish",
                        "enforce"},
                   at: 1..6, held: [Files -> Contents], hashes: [Files -> Contents],
                   decision: Decisions \cup {"none"}, output: Decisions \cup {"none"}]
<1>1. NoFiles \in [Files -> Contents]
  BY DEF NoFiles, Contents
<1> QED
  BY <1>1 DEF NoGate

(* A gate that ends without a green job. *)
LEMMA EndKeeps ==
    ASSUME IInv, NEW outcome \in Outcomes \ {"green"}, Ends(outcome),
           UNCHANGED <<inputs, files, report, writes, gates, touched>>
    PROVE  IInv'
BY NoGateTyped DEF IInv, TypeOK, StartInv, CopyInv, QuietInv, GreenMeansAllowed, Ends,
                   Outcomes, inputs

LEMMA Invariance == Spec => []IInv
<1> USE GateAssumption
<1>1. Init => IInv
  <2> SUFFICES ASSUME Init PROVE IInv
    OBVIOUS
  <2>1. files \in [Files -> Contents]
    BY DEF Init, Contents
  <2>2. TypeOK
    <3>1. NoFiles \in [Files -> Contents]
      BY DEF NoFiles, Contents
    <3>2. writes \in 0..MaxWrites /\ gates \in 0..MaxGates
      BY DEF Init
    <3> QED
      BY <2>1, <3>1, <3>2, NoGateTyped DEF Init, TypeOK, Outcomes
  <2> QED
    BY <2>2, NoGateTyped
       DEF Init, IInv, StartInv, CopyInv, QuietInv, GreenMeansAllowed
<1>2. IInv /\ [Next]_vars => IInv'
  <2> SUFFICES ASSUME IInv, [Next]_vars PROVE IInv'
    OBVIOUS
  <2>0. TypeOK
    BY DEF IInv
  <2> DEFINE Gates == [pc: {"idle", "resolve", "load", "decide", "hash", "write",
                            "publish", "enforce"},
                       at: 1..6, held: [Files -> Contents], hashes: [Files -> Contents],
                       decision: Decisions \cup {"none"}, output: Decisions \cup {"none"}]
  <2>1. CASE Begin
    <3>1. /\ gate' = [NoGate EXCEPT !.pc = "resolve"] /\ job' = "none"
          /\ touched' = FALSE /\ UNCHANGED <<inputs, files, report, writes>>
          /\ gates' \in 0..MaxGates
      BY <2>0, <2>1 DEF Begin, TypeOK
    <3>2. gate' \in Gates /\ gate'.pc = "resolve" /\ gate'.at = 1
      BY <3>1, NoGateTyped
    <3> QED
      BY <2>0, <3>1, <3>2
         DEF IInv, TypeOK, StartInv, CopyInv, QuietInv, GreenMeansAllowed, Outcomes, inputs
  <2>2. CASE Resolve
    <3>1. CASE Ends("invalid")
      BY <2>2, <3>1, EndKeeps DEF Resolve, Outcomes
    <3>2. CASE gate' = [gate EXCEPT !.pc = "load"] /\ UNCHANGED job
      <4>1. gate' \in Gates /\ gate'.pc = "load" /\ gate'.at = 1
        BY <2>0, <2>2, <3>2 DEF IInv, TypeOK, StartInv, Resolve
      <4>2. gate.pc = "resolve"
            /\ UNCHANGED <<inputs, files, report, writes, gates, touched>>
        BY <2>2 DEF Resolve
      <4>3. ~ \E k \in 1..6 : k < 1
        OBVIOUS
      <4> QED
        BY <2>0, <3>2, <4>1, <4>2, <4>3
           DEF IInv, TypeOK, StartInv, CopyInv, QuietInv, GreenMeansAllowed, inputs
    <3> QED
      BY <2>2, <3>1, <3>2 DEF Resolve
  <2>3. CASE Load
    <3> DEFINE f == LoadOrder[gate.at]
    <3>1. CASE files[f] = Garbled
      BY <2>3, <3>1, EndKeeps DEF Load, Outcomes
    <3>2. CASE files[f] # Garbled /\ files[f] \in {Gone, Half}
      BY <2>3, <3>2, EndKeeps DEF Load, Outcomes
    <3>3. CASE files[f] # Garbled /\ files[f] \notin {Gone, Half}
      <4>1. /\ gate.pc = "load"
            /\ gate' = [gate EXCEPT !.held[f] = files[f],
                                    !.at = IF @ = Len(LoadOrder) THEN 1 ELSE @ + 1,
                                    !.pc = IF gate.at = Len(LoadOrder) THEN "decide" ELSE @]
            /\ UNCHANGED <<job, inputs, files, report, writes, gates, touched>>
        BY <2>3, <3>3 DEF Load
      <4>2. f \in Files /\ gate.at \in 1..6 /\ Len(LoadOrder) = 6
        BY <2>0, Orders DEF TypeOK
      <4>3. gate.held \in [Files -> Contents] /\ files \in [Files -> Contents] /\ gate \in Gates
        BY <2>0 DEF TypeOK
      <4> DEFINE h == [gate.held EXCEPT ![f] = files[f]]
      <4>4. h \in [Files -> Contents] /\ h[f] = files[f]
            /\ \A g \in Files : g # f => h[g] = gate.held[g]
        BY <4>2, <4>3
      <4> DEFINE next == IF gate.at = 6 THEN 1 ELSE gate.at + 1
                 step == IF gate.at = 6 THEN "decide" ELSE "load"
      <4>5. gate' = [gate EXCEPT !.held = h, !.at = next, !.pc = step]
        BY <4>1, <4>2, <4>3
      <4>5a. next \in 1..6 /\ step \in {"decide", "load"}
        BY <4>2
      <4> HIDE DEF f, h, next, step
      <4>5b. /\ gate'.held = h /\ gate'.at = next /\ gate'.pc = step
            /\ gate'.hashes = gate.hashes /\ gate'.decision = gate.decision
        BY <4>3, <4>5
      <4>5c. gate' \in Gates
        BY <4>3, <4>4, <4>5, <4>5a
      <4>6. /\ gate' \in Gates /\ gate'.held = h
            /\ gate'.at = IF gate.at = 6 THEN 1 ELSE gate.at + 1
            /\ gate'.pc = IF gate.at = 6 THEN "decide" ELSE "load"
        BY <4>5b, <4>5c DEF next, step
      <4>7. ASSUME ~touched
            PROVE  \A k \in 1..6 : k <= gate.at => h[LoadOrder[k]] = files[LoadOrder[k]]
        <5> SUFFICES ASSUME NEW k \in 1..6, k <= gate.at
                     PROVE  h[LoadOrder[k]] = files[LoadOrder[k]]
          OBVIOUS
        <5>1. LoadOrder[k] \in Files
          BY Orders
        <5>2. CASE k < gate.at
          BY <4>1, <4>4, <4>7, <5>1, <5>2 DEF IInv, QuietInv
        <5>3. CASE k = gate.at
          BY <4>4, <5>3 DEF f
        <5> QED
          BY <4>2, <5>2, <5>3
      <4>8. CASE gate.at = 6
        <5>1. ~touched => h = files
          <6> SUFFICES ASSUME ~touched, NEW g \in Files PROVE h[g] = files[g]
            BY <4>3, <4>4
          <6>1. PICK k \in 1..6 : LoadOrder[k] = g
            BY Orders
          <6> QED
            BY <4>7, <4>8, <6>1
        <5> QED
          BY <2>0, <4>1, <4>6, <4>8, <5>1
             DEF IInv, TypeOK, StartInv, CopyInv, QuietInv, GreenMeansAllowed, inputs
      <4>9. CASE gate.at # 6
        <5>1. ASSUME ~touched'
              PROVE  \A k \in 1..6 : k < gate'.at =>
                       gate'.held[LoadOrder[k]] = files'[LoadOrder[k]]
          <6> SUFFICES ASSUME NEW k \in 1..6, k < gate'.at
                       PROVE  gate'.held[LoadOrder[k]] = files'[LoadOrder[k]]
            OBVIOUS
          <6>1. k <= gate.at /\ ~touched /\ files' = files
            BY <4>1, <4>2, <4>6, <4>9, <5>1
          <6> QED
            BY <4>6, <4>7, <6>1
        <5>2. gate'.pc = "load"
          BY <4>6, <4>9
        <5>3. QuietInv'
          BY <5>1, <5>2 DEF QuietInv
        <5>4. TypeOK' /\ StartInv' /\ CopyInv' /\ GreenMeansAllowed'
          BY <2>0, <4>1, <4>6, <5>2
             DEF IInv, TypeOK, StartInv, CopyInv, GreenMeansAllowed, inputs
        <5> QED
          BY <5>3, <5>4 DEF IInv
      <4> QED
        BY <4>8, <4>9
    <3> QED
      BY <3>1, <3>2, <3>3
  <2>4. CASE Decide
    <3>1. /\ gate.pc = "decide"
          /\ gate' = [gate EXCEPT !.pc = "hash", !.decision = Evaluate(gate.held)]
          /\ UNCHANGED <<inputs, files, report, job, writes, gates, touched>>
      BY <2>4 DEF Decide
    <3>2. Evaluate(gate.held) \in Decisions
      BY DecisionIsOne
    <3>3. /\ gate' \in Gates /\ gate'.held = gate.held /\ gate'.pc = "hash" /\ gate'.at = 1
          /\ gate'.decision = Evaluate(gate.held)
      BY <2>0, <3>1, <3>2 DEF TypeOK, IInv, StartInv
    <3>4. ~ \E k \in 1..6 : k < 1
      OBVIOUS
    <3>5. Evaluate(gate.held)' = Evaluate(gate.held)
      BY <3>1, <3>3 DEF Evaluate, inputs
    <3>6. TypeOK' /\ StartInv'
      BY <2>0, <3>1, <3>3 DEF TypeOK, StartInv, inputs
    <3>7. CopyInv'
      BY <3>1, <3>3, <3>5 DEF IInv, CopyInv, inputs
    <3>8. QuietInv'
      BY <3>1, <3>3, <3>4 DEF IInv, QuietInv
    <3>9. GreenMeansAllowed'
      BY <3>1 DEF IInv, GreenMeansAllowed, inputs
    <3> QED
      BY <3>6, <3>7, <3>8, <3>9 DEF IInv
  <2>5. CASE Hash
    <3> DEFINE f == HashOrder[gate.at]
    <3>1. CASE files[f] = Gone
      BY <2>5, <3>1, EndKeeps DEF Hash, Outcomes
    <3>2. CASE files[f] # Gone
      <4>1. /\ gate.pc = "hash"
            /\ gate' = [gate EXCEPT !.hashes[f] = files[f],
                                    !.at = IF @ = Len(HashOrder) THEN 1 ELSE @ + 1,
                                    !.pc = IF gate.at = Len(HashOrder) THEN "write" ELSE @]
            /\ UNCHANGED <<job, inputs, files, report, writes, gates, touched>>
        BY <2>5, <3>2 DEF Hash
      <4>2. f \in Files /\ gate.at \in 1..6 /\ Len(HashOrder) = 6
        BY <2>0, Orders DEF TypeOK
      <4>3. gate.hashes \in [Files -> Contents] /\ files \in [Files -> Contents] /\ gate \in Gates
        BY <2>0 DEF TypeOK
      <4> DEFINE h == [gate.hashes EXCEPT ![f] = files[f]]
      <4>4. h \in [Files -> Contents] /\ h[f] = files[f]
            /\ \A g \in Files : g # f => h[g] = gate.hashes[g]
        BY <4>2, <4>3
      <4> DEFINE next == IF gate.at = 6 THEN 1 ELSE gate.at + 1
                 step == IF gate.at = 6 THEN "write" ELSE "hash"
      <4>5. gate' = [gate EXCEPT !.hashes = h, !.at = next, !.pc = step]
        BY <4>1, <4>2, <4>3
      <4>5a. next \in 1..6 /\ step \in {"write", "hash"}
        BY <4>2
      <4> HIDE DEF f, h, next, step
      <4>5b. /\ gate'.hashes = h /\ gate'.at = next /\ gate'.pc = step
            /\ gate'.held = gate.held /\ gate'.decision = gate.decision
        BY <4>3, <4>5
      <4>5c. gate' \in Gates
        BY <4>3, <4>4, <4>5, <4>5a
      <4>6. /\ gate' \in Gates /\ gate'.hashes = h
            /\ gate'.held = gate.held
            /\ gate'.decision = gate.decision
            /\ gate'.at = IF gate.at = 6 THEN 1 ELSE gate.at + 1
            /\ gate'.pc = IF gate.at = 6 THEN "write" ELSE "hash"
        BY <4>5b, <4>5c DEF next, step
      <4>7. ASSUME ~touched
            PROVE  \A k \in 1..6 : k <= gate.at => h[HashOrder[k]] = files[HashOrder[k]]
        <5> SUFFICES ASSUME NEW k \in 1..6, k <= gate.at
                     PROVE  h[HashOrder[k]] = files[HashOrder[k]]
          OBVIOUS
        <5>1. HashOrder[k] \in Files
          BY Orders
        <5>2. CASE k < gate.at
          BY <4>1, <4>4, <4>7, <5>1, <5>2 DEF IInv, QuietInv
        <5>3. CASE k = gate.at
          BY <4>4, <5>3 DEF f
        <5> QED
          BY <4>2, <5>2, <5>3
      <4>8. ~touched /\ gate.at = 6 => h = files
        <5> SUFFICES ASSUME ~touched, gate.at = 6, NEW g \in Files PROVE h[g] = files[g]
          BY <4>3, <4>4
        <5>1. PICK k \in 1..6 : HashOrder[k] = g
          BY Orders
        <5> QED
          BY <4>7, <5>1
      <4>9. ASSUME ~touched', gate.at # 6
            PROVE  \A k \in 1..6 : k < gate'.at =>
                     gate'.hashes[HashOrder[k]] = files'[HashOrder[k]]
        <5> SUFFICES ASSUME NEW k \in 1..6, k < gate'.at
                     PROVE  gate'.hashes[HashOrder[k]] = files'[HashOrder[k]]
          OBVIOUS
        <5>1. k <= gate.at /\ ~touched /\ files' = files
          BY <4>1, <4>2, <4>6, <4>9
        <5> QED
          BY <4>6, <4>7, <5>1
      <4>10. Evaluate(gate.held)' = Evaluate(gate.held)
        BY <4>1, <4>6 DEF Evaluate, inputs
      <4>11. TypeOK' /\ StartInv'
        BY <2>0, <4>1, <4>6 DEF TypeOK, StartInv, inputs
      <4>12. CopyInv'
        BY <4>1, <4>6, <4>10 DEF IInv, CopyInv, inputs
      <4>13. QuietInv'
        <5>1. ~touched => gate.held = files
          BY <4>1 DEF IInv, QuietInv
        <5>2. CASE gate.at = 6
          BY <4>1, <4>6, <4>8, <5>1, <5>2 DEF QuietInv
        <5>3. CASE gate.at # 6
          <6>1. gate'.pc = "hash" /\ gate'.held = gate.held /\ files' = files /\ touched' = touched
            BY <4>1, <4>6, <5>3
          <6> QED
            BY <4>9, <5>1, <5>3, <6>1 DEF QuietInv
        <5> QED
          BY <5>2, <5>3
      <4>14. GreenMeansAllowed'
        BY <4>1 DEF IInv, GreenMeansAllowed, inputs
      <4> QED
        BY <4>11, <4>12, <4>13, <4>14 DEF IInv
    <3> QED
      BY <3>1, <3>2
  <2>6. CASE WriteReport
    <3>1. /\ gate.pc = "write"
          /\ report' = [decision |-> gate.decision, hashes |-> gate.hashes,
                        held |-> gate.held, commit |-> request.commit]
          /\ gate' = [gate EXCEPT !.pc = "publish"]
          /\ UNCHANGED <<inputs, files, job, writes, gates, touched>>
      BY <2>6 DEF WriteReport
    <3>2. /\ gate' \in Gates /\ gate'.pc = "publish" /\ gate'.held = gate.held
          /\ gate'.hashes = gate.hashes /\ gate'.decision = gate.decision
      BY <2>0, <3>1 DEF TypeOK
    <3>3. gate.decision = Evaluate(gate.held) /\ gate.decision \in Decisions
      BY <3>1, DecisionIsOne DEF IInv, CopyInv
    <3>4. Evaluate(gate.held)' = Evaluate(gate.held)
      BY <3>1, <3>2 DEF Evaluate, inputs
    <3>5. report'.commit \in Commits \cup {Base}
      BY <2>0, <3>1 DEF TypeOK
    <3>6. TypeOK' /\ StartInv'
      BY <2>0, <3>1, <3>2, <3>3, <3>5 DEF TypeOK, StartInv, inputs
    <3>7. CopyInv'
      BY <3>1, <3>2, <3>3, <3>4 DEF IInv, CopyInv
    <3>8. QuietInv'
      BY <3>1, <3>2 DEF IInv, QuietInv
    <3>9. GreenMeansAllowed'
      BY <3>1 DEF IInv, CopyInv, GreenMeansAllowed
    <3> QED
      BY <3>6, <3>7, <3>8, <3>9 DEF IInv
  <2>7. CASE Publish
    <3>1. /\ gate.pc = "publish"
          /\ gate' = [gate EXCEPT !.pc = "enforce", !.output = gate.decision]
          /\ UNCHANGED <<inputs, files, report, job, writes, gates, touched>>
      BY <2>7 DEF Publish
    <3>2. /\ gate' \in Gates /\ gate'.pc = "enforce" /\ gate'.held = gate.held
          /\ gate'.hashes = gate.hashes /\ gate'.decision = gate.decision
          /\ gate'.output = gate.decision
      BY <2>0, <3>1 DEF TypeOK
    <3>3. Evaluate(gate.held)' = Evaluate(gate.held)
      BY <3>1, <3>2 DEF Evaluate, inputs
    <3>4. TypeOK' /\ StartInv'
      BY <2>0, <3>1, <3>2 DEF TypeOK, StartInv, inputs
    <3>5. CopyInv'
      BY <3>1, <3>2, <3>3 DEF IInv, CopyInv
    <3>6. QuietInv'
      BY <3>1, <3>2 DEF IInv, QuietInv
    <3>7. GreenMeansAllowed'
      BY <3>1 DEF IInv, GreenMeansAllowed, inputs
    <3> QED
      BY <3>4, <3>5, <3>6, <3>7 DEF IInv
  <2>8. CASE Enforce
    <3>1. gate.pc = "enforce" /\ UNCHANGED <<inputs, files, report, writes, gates, touched>>
      BY <2>8 DEF Enforce
    <3>2. CASE gate.output = "BLOCK" /\ flags.block
      BY <2>8, <3>1, <3>2, EndKeeps DEF Enforce, Outcomes
    <3>3. CASE ~(gate.output = "BLOCK" /\ flags.block)
               /\ gate.output = "ESCALATE" /\ flags.escalate
      BY <2>8, <3>1, <3>3, EndKeeps DEF Enforce, Outcomes
    <3>4. CASE ~(gate.output = "BLOCK" /\ flags.block)
               /\ ~(gate.output = "ESCALATE" /\ flags.escalate)
      <4>1. gate' = NoGate /\ job' = "green"
        BY <2>8, <3>4 DEF Enforce, Ends
      <4>2. /\ gate.output = Evaluate(gate.held) /\ report.decision = gate.output
            /\ report.held = gate.held
        BY <3>1 DEF IInv, CopyInv
      <4>3. ASSUME flags = [block |-> TRUE, escalate |-> TRUE]
            PROVE  report.decision = "ALLOW" /\ report.held["manifest"] = request.commit
        <5>1. flags.block /\ flags.escalate
          BY <4>3
        <5>2. Evaluate(gate.held) \in {"ALLOW", "BLOCK", "ESCALATE"}
          BY DecisionIsOne DEF Decisions
        <5>3. Evaluate(gate.held) = "ALLOW"
          BY <3>4, <4>2, <5>1, <5>2
        <5>4. gate.held["manifest"] = request.commit
          BY <5>3, AllowIsBound
        <5> QED
          BY <4>2, <5>3, <5>4
      <4>4. GreenMeansAllowed'
        BY <3>1, <4>3 DEF GreenMeansAllowed, inputs
      <4> QED
        BY <2>0, <3>1, <4>1, <4>4, NoGateTyped
           DEF IInv, TypeOK, StartInv, CopyInv, QuietInv, Outcomes, inputs
    <3> QED
      BY <3>2, <3>3, <3>4
  <2>9. CASE Kill
    <3>1. /\ gate' = NoGate /\ job' = "killed"
          /\ report' = IF gate.pc = "write" THEN [report EXCEPT !.decision = "half"] ELSE report
          /\ UNCHANGED <<inputs, files, writes, gates, touched>>
      BY <2>9 DEF Kill, Ends
    <3>2. report' \in [decision: Decisions \cup {"none", "half"},
                       hashes: [Files -> Contents], held: [Files -> Contents],
                       commit: Commits \cup {Base}]
      BY <2>0, <3>1 DEF TypeOK
    <3> QED
      BY <2>0, <3>1, <3>2, NoGateTyped
         DEF IInv, TypeOK, StartInv, CopyInv, QuietInv, GreenMeansAllowed, Outcomes, inputs
  <2>10. ASSUME NEW f \in Candidate, NEW c \in Contents \ {Base}, Produce(f, c)
         PROVE  IInv'
    <3>1. /\ files' = [files EXCEPT ![f] = c] /\ touched' = TRUE
          /\ writes' \in 0..MaxWrites
          /\ UNCHANGED <<inputs, gate, report, job, gates>>
      BY <2>0, <2>10 DEF Produce, TypeOK
    <3>2. files' \in [Files -> Contents]
      BY <2>0, <3>1 DEF TypeOK
    <3>3. Evaluate(gate.held)' = Evaluate(gate.held)
      BY <3>1 DEF Evaluate, inputs
    <3>4. TypeOK' /\ StartInv'
      BY <2>0, <3>1, <3>2 DEF IInv, TypeOK, StartInv, inputs
    <3>5. CopyInv'
      BY <3>1, <3>3 DEF IInv, CopyInv
    <3>6. QuietInv'
      BY <3>1 DEF QuietInv
    <3>7. GreenMeansAllowed'
      BY <3>1 DEF IInv, GreenMeansAllowed, inputs
    <3> QED
      BY <3>4, <3>5, <3>6, <3>7 DEF IInv
  <2>11. CASE UNCHANGED vars
    <3>1. UNCHANGED <<inputs, files, gate, report, job, writes, gates, touched>>
      BY <2>11 DEF vars, inputs
    <3>2. Evaluate(gate.held)' = Evaluate(gate.held)
      BY <3>1 DEF Evaluate, inputs
    <3>3. CopyInv'
      BY <3>1, <3>2 DEF IInv, CopyInv
    <3> QED
      BY <2>0, <3>1, <3>3
         DEF IInv, TypeOK, StartInv, QuietInv, GreenMeansAllowed, inputs
  <2> QED
    BY <2>1, <2>2, <2>3, <2>4, <2>5, <2>6, <2>7, <2>8, <2>9, <2>10, <2>11
       DEF Next, GateStep
<1> QED
  BY <1>1, <1>2, PTL DEF Spec

-----------------------------------------------------------------------------
(* The gate, the evidence and the report stay of their declared types. *)
THEOREM GateTypeCorrect == Spec => []TypeOK
<1>1. IInv => TypeOK
  BY DEF IInv
<1> QED
  BY <1>1, Invariance, PTL

(* A report made while nobody wrote evidence names the bytes it was decided     *)
(* on, although the gate opens every file twice.                                *)
THEOREM QuietReportSound == Spec => []QuietReportIsExact
<1>1. IInv => QuietReportIsExact
  <2> SUFFICES ASSUME IInv, gate.pc \in {"publish", "enforce"}, ~touched
               PROVE  /\ report.hashes = report.held
                      /\ report.hashes = files
                      /\ report.decision = Evaluate(files)
    BY DEF QuietReportIsExact
  <2>1. gate.held = files /\ gate.hashes = files
    BY DEF IInv, QuietInv
  <2>2. /\ report.decision = Evaluate(gate.held) /\ report.held = gate.held
        /\ report.hashes = gate.hashes
    BY DEF IInv, CopyInv
  <2> QED
    BY <2>1, <2>2
<1> QED
  BY <1>1, Invariance, PTL

(* A green job of an enforcing action stands for an ALLOW in the report on      *)
(* disk and a manifest of the requested commit.                                 *)
THEOREM GreenSound == Spec => []GreenMeansAllowed
<1>1. IInv => GreenMeansAllowed
  BY DEF IInv
<1> QED
  BY <1>1, Invariance, PTL
-----------------------------------------------------------------------------
(* From tracer to verdict                                                       *)

(* A set of numbers that is not empty has a smallest one: the least number      *)
(* principle, for a set, from the library's theorem on well-founded relations.  *)
LEMMA SmallestOfSet ==
    ASSUME NEW S \in SUBSET Nat, S # {}
    PROVE  \E x \in S : \A y \in S : x <= y
<1> DEFINE R == OpToRel(<, Nat)
<1>1. IsWellFoundedOn(R, Nat)
  BY NatLessThanWellFounded
<1>2. \A a, b \in Nat : a < b => <<a, b>> \in R
  BY DEF OpToRel
<1> HIDE DEF R
<1>3. PICK x \in S : \A y \in S : ~(<<y, x>> \in R)
  BY <1>1, WFMin
<1>4. ASSUME NEW y \in S PROVE x <= y
  <2>1. ~(y < x)
    BY <1>2, <1>3
  <2>2. x \in Nat /\ y \in Nat
    OBVIOUS
  <2> QED
    BY <2>1, <2>2
<1> QED
  BY <1>4

(* The comparator reports no mismatch only on traces of one length that retire  *)
(* the same events.                                                             *)
LEMMA NoMismatchIsEqual ==
    ASSUME NEW expected \in Seq(Retired), NEW actual \in Seq(Retired),
           FirstMismatch(expected, actual) = 0
    PROVE  /\ Len(actual) = Len(expected)
           /\ \A i \in DOMAIN expected : Event(actual[i]) = Event(expected[i])
<1> DEFINE shared == Shared(expected, actual)
           differ == {i \in shared : Event(expected[i]) # Event(actual[i])}
<1>1. Len(expected) \in Nat /\ Len(actual) \in Nat
  OBVIOUS
<1>2. PICK n \in Nat : shared = 1..n /\ (Len(expected) = Len(actual) => n = Len(expected))
  BY <1>1 DEF Shared
<1>3. differ = {}
  <2>1. SUFFICES ASSUME differ # {} PROVE FALSE
    OBVIOUS
  <2>2. differ \in SUBSET Nat /\ 0 \notin differ
    BY <1>2
  <2>3. FirstMismatch(expected, actual) = CHOOSE i \in differ : \A j \in differ : i <= j
    BY <2>1 DEF FirstMismatch
  <2> HIDE DEF differ
  <2>4. \E i \in differ : \A j \in differ : i <= j
    BY <2>1, <2>2, SmallestOfSet
  <2>5. FirstMismatch(expected, actual) \in differ
    BY <2>3, <2>4
  <2> QED
    BY <2>2, <2>5
<1>4. Len(expected) = Len(actual)
  <2>1. SUFFICES ASSUME Len(expected) # Len(actual) PROVE FALSE
    OBVIOUS
  <2>2. FirstMismatch(expected, actual) = Cardinality(shared) + 1
    BY <1>3, <2>1 DEF FirstMismatch
  <2>3. Cardinality(shared) \in Nat
    BY <1>2, FS_Interval, FS_CardinalityType
  <2> HIDE DEF shared
  <2> QED
    BY <2>2, <2>3
<1>5. ASSUME NEW i \in DOMAIN expected PROVE Event(actual[i]) = Event(expected[i])
  <2>1. i \in shared
    BY <1>2, <1>4
  <2> QED
    BY <1>3, <2>1
<1> QED
  BY <1>4, <1>5

(* The delays of a trace are finitely many, and the cycles between two records  *)
(* are a number.                                                                *)
LEMMA DelaysAreFinite ==
    ASSUME NEW trace \in Seq(Retired)
    PROVE  /\ \A status : IsFiniteSet(DelaysOf(trace, status))
           /\ \A i \in TransitionsOf(trace) : Gap(trace, i) \in Int
<1>1. Len(trace) \in Nat
  OBVIOUS
<1>2. IsFiniteSet(1..(Len(trace) - 1))
  BY <1>1, FS_Interval
<1>3. ASSUME NEW status PROVE IsFiniteSet(DelaysOf(trace, status))
  BY <1>2, FS_Subset DEF DelaysOf, TransitionsOf
<1>4. ASSUME NEW i \in TransitionsOf(trace) PROVE Gap(trace, i) \in Int
  <2>1. i \in 1..Len(trace) /\ i + 1 \in 1..Len(trace)
    BY <1>1, <1>4 DEF TransitionsOf
  <2>2. trace[i].cycle \in Nat /\ trace[i + 1].cycle \in Nat
    <3>1. trace[i] \in Retired /\ trace[i + 1] \in Retired
      BY <2>1
    <3>2. \A r \in Retired : r.cycle \in Nat
      BY DEF Retired
    <3> QED
      BY <3>1, <3>2
  <2> QED
    BY <2>2 DEF Gap
<1> QED
  BY <1>3, <1>4

(* A trace is on time exactly when the analyzer finds no delay in it.           *)
LEMMA OnTimeHasNoDelay ==
    ASSUME NEW trace \in Seq(Retired)
    PROVE  OnTime(trace) <=> /\ DelaysOf(trace, "UNKNOWN_DELAY") = {}
                             /\ DelaysOf(trace, "EXPLAINED_DELAY") = {}
<1>1. ASSUME NEW i \in TransitionsOf(trace)
      PROVE  Gap(trace, i) <= ExpectedCycles
               <=> Finding(trace, i) \notin {"UNKNOWN_DELAY", "EXPLAINED_DELAY"}
  <2>1. Gap(trace, i) \in Int /\ ExpectedCycles \in Nat
    BY DelaysAreFinite, TraceAssumption
  <2>2. CASE Gap(trace, i) <= ExpectedCycles
    BY <2>1, <2>2 DEF Finding
  <2>3. CASE ~(Gap(trace, i) <= ExpectedCycles)
    BY <2>1, <2>3 DEF Finding
  <2> QED
    BY <2>2, <2>3
<1> QED
  BY <1>1 DEF OnTime, DelaysOf

(* What the gate allows exceeds the baseline in no budgeted metric.             *)
LEMMA AllowedExceedsNothing ==
    ASSUME NEW base, NEW cand, NEW tagged, Verdict(base, cand, tagged) = "ALLOW"
    PROVE  /\ FirstMismatch(Oracle, cand) = 0
           /\ ~(NewUnknown(base, cand) > 0) /\ ~(NewExplained(base, cand) > 0)
<1>1. /\ TraceStatus(Oracle, cand) = "MATCH"
      /\ ~(NewUnknown(base, cand) > 0) /\ ~(NewExplained(base, cand) > 0)
  BY DEF Verdict, Decision, Blocks, Escalates
<1> QED
  BY <1>1 DEF TraceStatus

(* Where the baseline has no delay of a status, an excess of nought means the   *)
(* candidate has none either.                                                   *)
LEMMA NoExcessNoDelay ==
    ASSUME NEW cand \in Seq(Retired), NEW base \in Seq(Retired), NEW status,
           DelaysOf(base, status) = {},
           ~(Over(Cardinality(DelaysOf(cand, status)),
                  Cardinality(DelaysOf(base, status))) > 0)
    PROVE  DelaysOf(cand, status) = {}
<1>1. IsFiniteSet(DelaysOf(cand, status))
  BY DelaysAreFinite
<1>2. Cardinality(DelaysOf(cand, status)) \in Nat
  BY <1>1, FS_CardinalityType
<1>3. Cardinality(DelaysOf(base, status)) = 0
  BY FS_EmptySet
<1>4. Cardinality(DelaysOf(cand, status)) = 0
  BY <1>2, <1>3 DEF Over
<1> QED
  BY <1>1, <1>4, FS_EmptySet

(* On a baseline without delays, every simulation the gate would allow is on    *)
(* time and retires the oracle's instructions, for any simulations, any         *)
(* budgets and any expected cycle count.                                        *)
THEOREM AllowedIsOnTime == Spec => []AllowedRunIsOnTime
<1>1. TypeOK => AllowedRunIsOnTime
  <2> SUFFICES ASSUME TypeOK, NEW cand \in Traces, OnTime(runs[Base]),
                      Verdict(runs[Base], cand, request.tagged) = "ALLOW"
               PROVE  /\ OnTime(cand) /\ Len(cand) = Len(Oracle)
                      /\ \A i \in DOMAIN Oracle : Event(cand[i]) = Event(Oracle[i])
    BY DEF AllowedRunIsOnTime
  <2> DEFINE base == runs[Base]
  <2>1. base \in Seq(Retired) /\ cand \in Seq(Retired) /\ Oracle \in Seq(Retired)
    <3>1. base \in Traces /\ Oracle \in Traces
      BY GateAssumption DEF TypeOK
    <3> QED
      BY <3>1, GateAssumption DEF Parsed
  <2>2. /\ FirstMismatch(Oracle, cand) = 0
        /\ ~(NewUnknown(base, cand) > 0) /\ ~(NewExplained(base, cand) > 0)
    BY AllowedExceedsNothing
  <2>3. /\ DelaysOf(base, "UNKNOWN_DELAY") = {}
        /\ DelaysOf(base, "EXPLAINED_DELAY") = {}
    BY <2>1, OnTimeHasNoDelay
  <2> HIDE DEF base
  <2>4. /\ DelaysOf(cand, "UNKNOWN_DELAY") = {}
        /\ DelaysOf(cand, "EXPLAINED_DELAY") = {}
    BY <2>1, <2>2, <2>3, NoExcessNoDelay DEF NewUnknown, NewExplained, TimingMetrics
  <2>5. OnTime(cand)
    BY <2>1, <2>4, OnTimeHasNoDelay
  <2> QED
    BY <2>1, <2>2, <2>5, NoMismatchIsEqual
<1> QED
  BY <1>1, GateTypeCorrect, PTL

-----------------------------------------------------------------------------
(* The waveform adapter.  The inductive invariant is that the reader's values,  *)
(* once restored, are the design's: with it a step of the adapter can be        *)
(* compared with the step of the design that it reads.                          *)

(* The reader follows the design. *)
Follows ==
  /\ sharedCode \in BOOLEAN
  /\ wires \in [Alias -> {0, 1}]
  /\ values = [alias \in Alias |-> IF Recorded(alias) THEN wires[alias] ELSE Undefined]
  /\ sharedCode => wires["req"] = wires["gnt"]
  /\ outstanding \in 0 .. MaxOutstanding
  /\ cycles \in 0 .. MaxCycles /\ snapshots = cycles
  /\ pending \in BOOLEAN /\ waited \in 0 .. snapshots

(* Values that follow the design are restored to the signals of the design. *)
LEMMA RestoredSignals ==
  ASSUME NEW signals \in [Alias -> {0, 1}], sharedCode => signals["req"] = signals["gnt"]
  PROVE  Restore([alias \in Alias |-> IF Recorded(alias) THEN signals[alias] ELSE Undefined]) = signals
<1> DEFINE read == [alias \in Alias |-> IF Recorded(alias) THEN signals[alias] ELSE Undefined]
           observed == IF read["req"] # Undefined THEN read["req"] ELSE read["gnt"]
<1>1. CASE sharedCode
  <2>1. /\ read["clock"] = signals["clock"] /\ read["gnt"] = signals["gnt"]
        /\ read["rvalid"] = signals["rvalid"] /\ read["req"] = Undefined
    BY <1>1 DEF Recorded, Alias
  <2>2. observed = signals["gnt"]
    BY <2>1
  <2>3. \A alias \in Alias : [read EXCEPT !["req"] = observed, !["gnt"] = observed][alias] = signals[alias]
    <3> HIDE DEF observed
    <3> QED
      BY <1>1, <2>1, <2>2 DEF Alias
  <2>4. [read EXCEPT !["req"] = observed, !["gnt"] = observed] = signals
    <3> HIDE DEF observed
    <3> QED
      BY <2>3
  <2> QED
    BY <1>1, <2>4 DEF Restore
<1>2. CASE ~sharedCode
  BY <1>2 DEF Restore, Recorded
<1> QED
  BY <1>1, <1>2

(* One timestamp: the reader still follows the design, and its wait count   *)
(* moves as the signals of the design say.                                  *)
LEMMA ReadFollows ==
  ASSUME Follows, Read, wires' \in [Alias -> {0, 1}], sharedCode => wires'["req"] = wires'["gnt"]
  PROVE  /\ sharedCode' = sharedCode
         /\ values' = [alias \in Alias |-> IF Recorded(alias) THEN wires'[alias] ELSE Undefined]
         /\ IF wires["clock"] # 1 /\ wires'["clock"] = 1
            THEN /\ snapshots' = snapshots + 1
                 /\ pending' = Pending(pending, wires')
                 /\ waited' = IF pending' THEN waited + 1 ELSE waited
            ELSE UNCHANGED <<snapshots, pending, waited>>
<1>1. values' = [alias \in Alias |-> IF Recorded(alias) THEN wires'[alias] ELSE Undefined]
  BY SMT DEF Read, Follows
<1>2. Restore(values') = wires'
  BY <1>1, RestoredSignals
<1>3. values["clock"] = wires["clock"] /\ values'["clock"] = wires'["clock"]
  BY <1>1, SMT DEF Follows, Recorded, Alias
<1>4. RisingEdge(values, values') <=> wires["clock"] # 1 /\ wires'["clock"] = 1
  BY <1>3 DEF RisingEdge
<1> QED
  BY <1>1, <1>2, <1>4 DEF Read

(* The reader follows the design from the reset on. *)
LEMMA FollowsHolds == PortSpec => []Follows
<1>1. PortInit => Follows
  <2> SUFFICES ASSUME PortInit PROVE Follows
    OBVIOUS
  <2>1. wires \in [Alias -> {0, 1}] /\ wires["req"] = wires["gnt"]
    BY DEF PortInit, Alias
  <2>2. values = [alias \in Alias |-> IF Recorded(alias) THEN wires[alias] ELSE Undefined]
    BY DEF PortInit
  <2>3. sharedCode \in BOOLEAN /\ pending \in BOOLEAN
    BY DEF PortInit
  <2>4. /\ outstanding \in 0 .. MaxOutstanding
        /\ cycles \in 0 .. MaxCycles /\ snapshots = cycles /\ waited \in 0 .. snapshots
    BY WaveformAssumption DEF PortInit
  <2> QED
    BY <2>1, <2>2, <2>3, <2>4 DEF Follows
<1>2. Follows /\ [PortNext]_portVars => Follows'
  <2> SUFFICES ASSUME Follows, [PortNext]_portVars PROVE Follows'
    OBVIOUS
  <2>1. ASSUME NEW req \in {0, 1}, NEW gnt \in {0, 1}, NEW rvalid \in {0, 1},
               Cycle(req, gnt, rvalid)
        PROVE  Follows'
    <3>1. /\ wires' \in [Alias -> {0, 1}]
          /\ sharedCode => wires'["req"] = wires'["gnt"]
          /\ wires["clock"] # 1 /\ wires'["clock"] = 1
      BY <2>1, SMT DEF Cycle, Alias
    <3>2. /\ sharedCode' = sharedCode
          /\ values' = [alias \in Alias |-> IF Recorded(alias) THEN wires'[alias] ELSE Undefined]
          /\ snapshots' = snapshots + 1
          /\ pending' = Pending(pending, wires')
          /\ waited' = IF pending' THEN waited + 1 ELSE waited
      BY <2>1, <3>1, ReadFollows DEF Cycle
    <3>3. pending' \in BOOLEAN
      BY <3>2 DEF Pending
    <3>4. /\ outstanding' \in 0 .. MaxOutstanding /\ cycles' \in 0 .. MaxCycles
          /\ snapshots' = cycles' /\ waited' \in 0 .. snapshots'
      BY <2>1, <3>2, WaveformAssumption, SMT DEF Cycle, Follows
    <3> QED
      BY <3>1, <3>2, <3>3, <3>4 DEF Follows, Recorded
  <2>2. CASE FallingEdge
    <3>1. /\ wires' \in [Alias -> {0, 1}]
          /\ sharedCode => wires'["req"] = wires'["gnt"]
          /\ ~(wires["clock"] # 1 /\ wires'["clock"] = 1)
      BY <2>2, SMT DEF FallingEdge, Follows, Alias
    <3> QED
      BY <2>2, <3>1, ReadFollows DEF FallingEdge, Follows, Recorded
  <2>3. CASE OtherTimestamp
    BY <2>3, ReadFollows DEF OtherTimestamp, Follows, Recorded
  <2>4. CASE UNCHANGED portVars
    BY <2>4 DEF portVars, Follows, Recorded
  <2> QED
    BY <2>1, <2>2, <2>3, <2>4 DEF PortNext
<1> QED
  BY <1>1, <1>2, PTL DEF PortSpec

(* Every state of the adapter is typed; that the counters stay within the   *)
(* length of the waveform rests on one snapshot per cycle.                  *)
THEOREM PortTypeCorrect == PortSpec => []PortTypeOK
<1>1. Follows => PortTypeOK
  <2> SUFFICES ASSUME Follows PROVE PortTypeOK
    OBVIOUS
  <2>1. values \in [Alias -> {0, 1, Undefined}]
    BY DEF Follows
  <2>2. snapshots \in 0 .. MaxCycles /\ waited \in 0 .. MaxCycles
    BY WaveformAssumption, SMT DEF Follows
  <2>3. sharedCode \in BOOLEAN
    BY DEF Follows
  <2> QED
    BY <2>1, <2>2, <2>3 DEF Follows, PortTypeOK
<1> QED
  BY <1>1, FollowsHolds, PTL

(* Every rising edge of the design gives one snapshot, and what is restored *)
(* of a shared identifier is what the design had.                           *)
THEOREM OneSnapshotPerCycle == PortSpec => []SnapshotPerCycle
<1>1. Follows => SnapshotPerCycle
  BY RestoredSignals DEF Follows, SnapshotPerCycle
<1> QED
  BY <1>1, FollowsHolds, PTL

(* The adapter never counts a wait while nothing is outstanding, whether or *)
(* not the port overlaps its transactions.                                  *)
THEOREM NoWaitIsInvented == PortSpec => []NoInventedWait
<1>1. PortInit => NoInventedWait
  BY DEF PortInit, NoInventedWait
<1>2. Follows /\ NoInventedWait /\ [PortNext]_portVars => NoInventedWait'
  <2> SUFFICES ASSUME Follows, NoInventedWait, [PortNext]_portVars PROVE NoInventedWait'
    OBVIOUS
  <2>1. ASSUME NEW req \in {0, 1}, NEW gnt \in {0, 1}, NEW rvalid \in {0, 1},
               Cycle(req, gnt, rvalid)
        PROVE  NoInventedWait'
    <3>1. /\ wires' \in [Alias -> {0, 1}]
          /\ sharedCode => wires'["req"] = wires'["gnt"]
          /\ wires["clock"] # 1 /\ wires'["clock"] = 1
      BY <2>1, SMT DEF Cycle, Alias
    <3>2. pending' = Pending(pending, wires')
      BY <2>1, <3>1, ReadFollows DEF Cycle
    <3>3. pending' <=> (pending \/ (req = 1 /\ gnt = 1)) /\ rvalid # 1
      BY <2>1, <3>2 DEF Pending, Cycle
    <3>4. /\ req = 1 /\ gnt = 1 /\ rvalid # 1 => outstanding' > 0
          /\ outstanding > 0 /\ rvalid # 1 => outstanding' > 0
      BY <2>1, SMT DEF Cycle, Follows
    <3> QED
      BY <3>3, <3>4 DEF NoInventedWait
  <2>2. CASE FallingEdge
    <3>1. /\ wires' \in [Alias -> {0, 1}]
          /\ sharedCode => wires'["req"] = wires'["gnt"]
          /\ ~(wires["clock"] # 1 /\ wires'["clock"] = 1)
      BY <2>2, SMT DEF FallingEdge, Follows, Alias
    <3> QED
      BY <2>2, <3>1, ReadFollows DEF FallingEdge, NoInventedWait
  <2>3. CASE OtherTimestamp
    BY <2>3, ReadFollows DEF OtherTimestamp, Follows, NoInventedWait
  <2>4. CASE UNCHANGED portVars
    BY <2>4 DEF portVars, NoInventedWait
  <2> QED
    BY <2>1, <2>2, <2>3, <2>4 DEF PortNext
<1> QED
  BY <1>1, <1>2, FollowsHolds, PTL DEF PortSpec

(* Without overlap at most one transaction is outstanding and the pending   *)
(* flag is exact: this is what the refinement needs and what an overlapping *)
(* port breaks.                                                             *)
Exact == outstanding \in {0, 1} /\ (pending <=> outstanding > 0)

(* On a port that accepts a transaction only when the previous one is       *)
(* answered, the waited cycles are the documented ones: the adapter         *)
(* implements BusWait.                                                      *)
THEOREM WaitsAreAsPromised ==
  ASSUME ~Overlap
  PROVE  PortSpec => WaitsAsPromised
<1>1. PortInit => Exact /\ Promise!Init
  BY DEF PortInit, Exact, Promise!Init, Alias
<1>2. Follows /\ Exact /\ [PortNext]_portVars => Exact' /\ [Promise!Cycle]_(Promise!vars)
  <2> SUFFICES ASSUME Follows, Exact, [PortNext]_portVars
               PROVE  Exact' /\ [Promise!Cycle]_(Promise!vars)
    OBVIOUS
  <2>1. ASSUME NEW req \in {0, 1}, NEW gnt \in {0, 1}, NEW rvalid \in {0, 1},
               Cycle(req, gnt, rvalid)
        PROVE  Exact' /\ Promise!Cycle
    <3>1. /\ wires' \in [Alias -> {0, 1}]
          /\ sharedCode => wires'["req"] = wires'["gnt"]
          /\ wires["clock"] # 1 /\ wires'["clock"] = 1
      BY <2>1, SMT DEF Cycle, Alias
    <3>2. /\ pending' = Pending(pending, wires')
          /\ waited' = IF pending' THEN waited + 1 ELSE waited
      BY <2>1, <3>1, ReadFollows DEF Cycle
    <3>3. pending' <=> (pending \/ (req = 1 /\ gnt = 1)) /\ rvalid # 1
      BY <2>1, <3>2 DEF Pending, Cycle
    <3>4. /\ outstanding \in {0, 1}
          /\ rvalid = 1 => outstanding = 1
          /\ req = 1 /\ gnt = 1 => outstanding = 0
          /\ outstanding' = outstanding + (IF req = 1 /\ gnt = 1 THEN 1 ELSE 0) - rvalid
      BY <2>1 DEF Cycle, Exact
    <3>5. /\ req = 1 /\ gnt = 1 => rvalid = 0 /\ outstanding' = 1
          /\ ~(req = 1 /\ gnt = 1) /\ rvalid = 0 => outstanding' = outstanding
          /\ rvalid = 1 => outstanding' = 0
      BY <3>4, SMT
    <3>6. outstanding' \in {0, 1} /\ (pending' <=> outstanding' > 0)
      <4>1. CASE req = 1 /\ gnt = 1
        BY <4>1, <3>3, <3>5
      <4>2. CASE ~(req = 1 /\ gnt = 1) /\ rvalid = 0
        BY <4>2, <3>3, <3>4, <3>5 DEF Exact
      <4>3. CASE rvalid = 1
        BY <4>3, <3>3, <3>5
      <4> QED
        BY <4>1, <4>2, <4>3
    <3>7. waited' = IF outstanding' > 0 /\ ~(rvalid = 1) THEN waited + 1 ELSE waited
      BY <3>2, <3>3, <3>6
    <3>8. /\ wires'["req"] = 1 /\ wires'["gnt"] = 1 <=> req = 1 /\ gnt = 1
          /\ wires'["rvalid"] = 1 <=> rvalid = 1
      BY <2>1 DEF Cycle
    <3>9. /\ outstanding' = outstanding + (IF req = 1 /\ gnt = 1 THEN 1 ELSE 0)
                              - (IF rvalid = 1 THEN 1 ELSE 0)
          /\ rvalid = 1 => outstanding > 0
          /\ cycles' = cycles + 1
      BY <2>1, <3>4, SMT DEF Cycle
    <3>10. Promise!Cycle
      BY <3>7, <3>8, <3>9 DEF Promise!Cycle
    <3> QED
      BY <3>6, <3>10 DEF Exact
  <2>2. CASE FallingEdge
    <3>1. /\ wires' \in [Alias -> {0, 1}]
          /\ sharedCode => wires'["req"] = wires'["gnt"]
          /\ ~(wires["clock"] # 1 /\ wires'["clock"] = 1)
      BY <2>2, SMT DEF FallingEdge, Follows, Alias
    <3>2. /\ wires'["req"] = wires["req"] /\ wires'["gnt"] = wires["gnt"]
          /\ wires'["rvalid"] = wires["rvalid"]
      BY <2>2 DEF FallingEdge, Follows, Alias
    <3> QED
      BY <2>2, <3>1, <3>2, ReadFollows DEF FallingEdge, Exact, Promise!vars
  <2>3. CASE OtherTimestamp
    BY <2>3, ReadFollows DEF OtherTimestamp, Follows, Exact, Promise!vars
  <2>4. CASE UNCHANGED portVars
    BY <2>4 DEF portVars, Exact, Promise!vars
  <2> QED
    BY <2>1, <2>2, <2>3, <2>4 DEF PortNext
<1>3. PortSpec => WaitsAsPromised
  BY <1>1, <1>2, FollowsHolds, PTL DEF PortSpec, WaitsAsPromised, Promise!Spec
<1> QED
  BY <1>3
=============================================================================
