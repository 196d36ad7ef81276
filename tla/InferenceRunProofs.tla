------------------------- MODULE InferenceRunProofs -------------------------
(***************************************************************************)
(* What a run of the inference command leaves behind, for any stream, any  *)
(* edits of the request file and any number of killed and further runs.    *)
(* The inductive invariant describes the run step by step: the shape of    *)
(* the capture while the request is open and once it was returned, and     *)
(* what of the bundle has been written; with it the structural rules of    *)
(* the analyzer are facts about the lines the runner itself writes.        *)
(***************************************************************************)
EXTENDS InferenceRun, SequenceTheorems, FiniteSetTheorems, TLAPS

(* The steps of a run before the first byte of the bundle, and the others.   *)
Before == {"load", "connect", "send", "stream", "close", "check", "analyze"}
Writing == {"copy request", "copy capture", "write analysis", "open manifest",
            "fill manifest", "reopen manifest", "add provenance"}
Returned == {"CAPTURED", "REQUEST_FAILED"}

Analyses == [status : {"absent", "COMPLETE", "REQUEST_FAILED"}, figures : SUBSET Figures]
Manifests == [state : {"absent", "torn", "complete"}, runner : BOOLEAN, request : FileContents,
              capture : Seq(Events), analysis : Analyses]
Bundles == [raw : BOOLEAN, request : FileContents, capture : Seq(Events),
            analysis : Analyses, manifest : Manifests]

(* The whole type of the state, which TypeOK follows from. *)
TypeInv ==
  /\ request \in FileContents /\ sent \in FileContents
  /\ bundle \in Bundles /\ capture \in Seq(Events)
  /\ step \in {"idle"} \cup Before \cup Writing
  /\ client \in {"none", "open", "closed"}
  /\ result \in {"none", "raised"} \cup Returned
  /\ exit \in {"none", "killed", "0", "1", "2", "4"}
  /\ edits \in 0 .. MaxEdits /\ runs \in 0 .. MaxRuns

(* A capture while the request is open: its start, the response headers once *)
(* they are there, and then chunks.                                          *)
Open(lines) ==
  /\ Len(lines) >= 1 /\ lines[1].event = "request_start"
  /\ Len(lines) >= 2 => lines[2].event = "response_headers"
  /\ \A i \in DOMAIN lines : i >= 3 => lines[i].event = "chunk"

(* A capture that was returned: one start, at most one line of headers, right *)
(* after it, and one terminal line, the last.                                 *)
Complete(lines) ==
  /\ Len(lines) >= 2 /\ lines[1].event = "request_start"
  /\ lines[Len(lines)].event \in Terminal
  /\ \A i \in DOMAIN lines : 1 < i /\ i < Len(lines) =>
       lines[i].event = IF i = 2 THEN "response_headers" ELSE "chunk"

CaptureInv ==
  /\ step \in {"send", "stream"} => Open(capture) /\ (step = "send" <=> Len(capture) = 1)
  /\ step \in {"load", "connect", "send", "stream"} => result = "none"
  /\ step = "close" => result # "none"
  /\ step \in {"check", "analyze"} \cup Writing => result \in Returned
  /\ result \in Returned => Complete(capture)

(* What has been written of the bundle at each step of a run. *)
BundleInv ==
  /\ step \in Before => bundle = EmptyDir
  /\ step \in Writing => Analyzable(capture) /\ ~bundle.manifest.runner
  /\ step \in {"copy request", "copy capture", "write analysis", "open manifest",
               "fill manifest", "add provenance"} => bundle.manifest.state # "complete"
  /\ step \in Writing \ {"copy request", "copy capture"} => bundle.capture = capture
  /\ step \in Writing \ {"copy request", "copy capture", "write analysis"} =>
       bundle.analysis = Analysis(capture)
  /\ step \in {"reopen manifest", "add provenance"} =>
       /\ bundle.manifest.request = bundle.request
       /\ bundle.manifest.capture = bundle.capture
       /\ bundle.manifest.analysis = bundle.analysis

(* A run that has not ended has no exit code, and while nobody edits the      *)
(* request it stays the one that was accepted.                                *)
RunInv ==
  /\ step # "idle" => exit = "none"
  /\ edits = 0 /\ step \notin {"idle", "load"} => request \in Request

----------------------------------------------------------------------------
(* Lines of a capture                                                       *)

LEMMA EventsTyped ==
  /\ Event("request_start", {}) \in Events /\ Event("request_end", {}) \in Events
  /\ \A status \in Status : Event("response_headers", {status}) \in Events
  /\ \A chunk \in Chunks : Event("chunk", chunk) \in Events
  /\ \A text \in Texts : Event("request_error", text) \in Events
BY DEF Event, Events

LEMMA OneLine ==
  ASSUME NEW line \in Events
  PROVE  <<line>> \in Seq(Events)
OBVIOUS

(* What appending one line does. *)
LEMMA OneMoreLine ==
  ASSUME NEW lines \in Seq(Events), NEW line \in Events
  PROVE  /\ Append(lines, line) \in Seq(Events)
         /\ lines \o <<line>> = Append(lines, line)
         /\ Len(Append(lines, line)) = Len(lines) + 1
         /\ \A i \in 1 .. Len(lines) : Append(lines, line)[i] = lines[i]
         /\ Append(lines, line)[Len(lines) + 1] = line
BY AppendProperties, AppendIsConcat

(* A failed request adds its error line, after the headers of the response   *)
(* when there is one whose headers were not recorded yet.                    *)
LEMMA FailureLines ==
  ASSUME TypeInv, RequestFails
  PROVE  \E text \in Texts :
           \/ capture' = Append(capture, Event("request_error", text))
           \/ ~ResponseRecorded /\ \E status \in Status :
                capture' = Append(Append(capture, Event("response_headers", {status})),
                                  Event("request_error", text))
<1>1. PICK response \in {<<>>} \cup {<<Event("response_headers", {status})>> : status \in Status},
           text \in Texts :
             capture' = capture \o Append(IF ResponseRecorded THEN <<>> ELSE response,
                                          Event("request_error", text))
  BY DEF RequestFails, Finish
<1> DEFINE error == Event("request_error", text)
<1>2. capture \in Seq(Events) /\ error \in Events
  BY EventsTyped DEF TypeInv
<1>3. CASE ResponseRecorded \/ response = <<>>
  <2> HIDE DEF error
  <2>1. (IF ResponseRecorded THEN <<>> ELSE response) = <<>>
    BY <1>3
  <2>2. Append(<<>>, error) = <<error>>
    OBVIOUS
  <2>3. capture' = capture \o Append(IF ResponseRecorded THEN <<>> ELSE response, error)
    BY <1>1 DEF error
  <2>4. capture' = capture \o <<error>>
    BY <2>1, <2>2, <2>3
  <2>5. capture' = Append(capture, error)
    BY <1>2, <2>4, OneMoreLine
  <2> QED
    BY <2>5 DEF error
<1>4. CASE ~ResponseRecorded /\ response # <<>>
  <2>1. PICK status \in Status : response = <<Event("response_headers", {status})>>
    BY <1>4
  <2> DEFINE headers == Event("response_headers", {status})
  <2>2. headers \in Events
    BY EventsTyped
  <2> HIDE DEF headers, error
  <2>3. capture' = capture \o <<headers, error>>
    BY <1>1, <1>4, <2>1 DEF headers, error
  <2>4. <<headers, error>> = <<headers>> \o <<error>>
    BY <1>2, <2>2
  <2>5. <<headers>> \in Seq(Events) /\ <<error>> \in Seq(Events)
    BY <1>2, <2>2
  <2>6. capture' = (capture \o <<headers>>) \o <<error>>
    BY <1>2, <2>3, <2>4, <2>5, ConcatAssociative
  <2>7. capture' = Append(Append(capture, headers), error)
    BY <1>2, <2>2, <2>6, OneMoreLine
  <2> QED
    BY <1>4, <2>7 DEF headers, error
<1> QED
  BY <1>3, <1>4

(* On an open capture the headers are recorded from the second line on.      *)
LEMMA HeadersOfOpen ==
  ASSUME NEW lines \in Seq(Events), Open(lines)
  PROVE  Len(lines) >= 2 => Occurrences(lines, {"response_headers"}) = 1
<1> SUFFICES ASSUME Len(lines) >= 2 PROVE Occurrences(lines, {"response_headers"}) = 1
  OBVIOUS
<1>1. DOMAIN lines = 1 .. Len(lines) /\ Len(lines) \in Nat
  BY LenProperties
<1>2. \A i \in DOMAIN lines : i = 1 \/ i = 2 \/ i >= 3
  BY <1>1
<1>3. \A i \in DOMAIN lines : lines[i].event \in {"response_headers"} <=> i = 2
  BY <1>2 DEF Open
<1>4. {i \in DOMAIN lines : lines[i].event \in {"response_headers"}} = {2}
  BY <1>1, <1>3
<1> QED
  BY <1>4, FS_Singleton DEF Occurrences

LEMMA FirstLastBetween ==
  ASSUME NEW n \in Nat, n >= 2
  PROVE  /\ \A i \in 1 .. n : i = 1 \/ i = n \/ (1 < i /\ i < n)
         /\ 1 \in 1 .. n /\ n \in 1 .. n /\ 1 # n
OBVIOUS

LEMMA EndsOfLines ==
  ASSUME NEW lines \in Seq(Events)
  PROVE  Head(lines) = lines[1] /\ Last(lines) = lines[Len(lines)]
<1>1. Head(lines) = lines[1]
  OBVIOUS
<1>2. Last(lines) = lines[Len(lines)]
  BY DEF Last
<1> QED
  BY <1>1, <1>2

(* The analyzer's rules on structure hold of every returned capture: it can   *)
(* only be refused for a character, a status or figures the provider sent.     *)
LEMMA OnlyContentIsRefused ==
  ASSUME NEW lines \in Seq(Events), Complete(lines), ~Analyzable(lines)
  PROVE  \/ \E i \in DOMAIN lines : "separator" \in lines[i].detail
         \/ "outside 100..599" \in Details(lines, "response_headers")
         \/ ~FiguresAgree(Details(lines, "chunk"))
<1>1. PICK n \in Nat : n = Len(lines) /\ n >= 2 /\ DOMAIN lines = 1 .. n
  BY LenProperties DEF Complete
<1>2. /\ lines[1].event = "request_start" /\ lines[n].event \in Terminal
      /\ \A i \in 1 .. n : 1 < i /\ i < n =>
           lines[i].event = IF i = 2 THEN "response_headers" ELSE "chunk"
  BY <1>1, Zenon DEF Complete
<1>3. \A i \in 1 .. n : i = 1 \/ i = n \/ (1 < i /\ i < n)
  BY <1>1, FirstLastBetween
<1>4. 1 \in 1 .. n /\ n \in 1 .. n /\ 1 # n
  BY <1>1, FirstLastBetween
<1>5. \A i \in 1 .. n : lines[i].event \in {"request_start"} <=> i = 1
  BY <1>2, <1>3, <1>4 DEF Terminal
<1>6. \A i \in 1 .. n : lines[i].event \in Terminal <=> i = n
  BY <1>2, <1>3, <1>4 DEF Terminal
<1>7. \A i \in 1 .. n : lines[i].event \in {"response_headers"} => i = 2
  BY <1>2, <1>3, <1>4 DEF Terminal
<1>8. Head(lines).event = "request_start" /\ Last(lines).event \in Terminal
  <2>1. Head(lines) = lines[1] /\ Last(lines) = lines[n]
    BY <1>1, EndsOfLines
  <2> QED
    BY <1>2, <2>1
<1>9. Occurrences(lines, {"request_start"}) = 1
  <2>1. {i \in DOMAIN lines : lines[i].event \in {"request_start"}} = {1}
    BY <1>1, <1>4, <1>5
  <2> QED
    BY <2>1, FS_Singleton DEF Occurrences
<1>10. Occurrences(lines, Terminal) = 1
  <2>1. {i \in DOMAIN lines : lines[i].event \in Terminal} = {n}
    BY <1>1, <1>4, <1>6
  <2> QED
    BY <2>1, FS_Singleton DEF Occurrences
<1>11. Occurrences(lines, {"response_headers"}) <= 1
  <2>1. {i \in DOMAIN lines : lines[i].event \in {"response_headers"}} \in SUBSET {2}
    BY <1>1, <1>7
  <2>2. IsFiniteSet({2}) /\ Cardinality({2}) = 1
    BY FS_Singleton
  <2>3. Cardinality({i \in DOMAIN lines : lines[i].event \in {"response_headers"}}) <= Cardinality({2})
    BY <2>1, <2>2, FS_Subset, Zenon
  <2> QED
    BY <2>2, <2>3 DEF Occurrences
<1> QED
  BY <1>8, <1>9, <1>10, <1>11 DEF Analyzable

----------------------------------------------------------------------------
(* The type of the state.                                                   *)

LEMMA EmptyTyped ==
  /\ EmptyDir \in Bundles /\ NoManifest \in Manifests /\ NoAnalysis \in Analyses
  /\ \A lines \in Seq(Events) : Analysis(lines) \in Analyses
<1>1. NoAnalysis \in Analyses
  BY DEF NoAnalysis, Analyses
<1>2. <<>> \in Seq(Events)
  BY EmptySeq
<1>3. NoManifest \in Manifests
  BY <1>1, <1>2 DEF NoManifest, Manifests, FileContents
<1>4. EmptyDir \in Bundles
  BY <1>1, <1>2, <1>3 DEF EmptyDir, Bundles, FileContents
<1>5. \A lines \in Seq(Events) : Analysis(lines) \in Analyses
  BY DEF Analysis, Analyses
<1> QED
  BY <1>1, <1>3, <1>4, <1>5

LEMMA OneMore ==
  ASSUME NEW max \in Nat, NEW n \in 0 .. max, n < max
  PROVE  n + 1 \in 0 .. max
OBVIOUS

(* Every step keeps every variable in its type. *)
LEMMA TypeInvHolds == Spec => []TypeInv
<1> USE RunAssumption
<1>1. Init => TypeInv
  BY EmptyTyped, EmptySeq DEF Init, TypeInv, FileContents
<1>2. TypeInv /\ [Next]_vars => TypeInv'
  <2> SUFFICES ASSUME TypeInv, [Next]_vars PROVE TypeInv'
    OBVIOUS
  <2> USE DEF TypeInv, Before, Writing, Returned
  <2>1. CASE Start
    <3>1. runs' \in 0 .. MaxRuns /\ UNCHANGED edits
      BY <2>1 DEF Start
    <3>2. sent' \in FileContents /\ capture' \in Seq(Events)
      BY <2>1, EmptySeq DEF Start, FileContents
    <3>3. step' \in {"load", "idle"} /\ exit' \in {"none", "2"}
      BY <2>1 DEF Start, Exit
    <3> QED
      BY <2>1, <3>1, <3>2, <3>3, Zenon DEF Start
  <2>2. CASE LoadRequest
    <3>1. /\ step' \in {"connect", "idle"} /\ (exit' = exit \/ exit' \in {"1", "2"})
          /\ sent' = request
          /\ UNCHANGED <<request, bundle, client, capture, result, edits, runs>>
      BY <2>2 DEF LoadRequest, Exit, FileContents
    <3>2. exit' \in {"none", "killed", "0", "1", "2", "4"}
      BY <3>1
    <3> QED
      BY <3>1, <3>2, Zenon
  <2>3. CASE Connect
    <3>1. <<Event("request_start", {})>> \in Seq(Events)
      BY EventsTyped, OneLine
    <3> QED
      BY <2>3, <3>1 DEF Connect, Exit
  <2>4. CASE ReceiveHeaders
    <3>1. capture' \in Seq(Events)
      BY <2>4, EventsTyped, OneMoreLine, ConcatEmptySeq DEF ReceiveHeaders, Finish
    <3> QED
      BY <2>4, <3>1 DEF ReceiveHeaders, Finish
  <2>5. CASE ReceiveChunk
    <3>1. capture' \in Seq(Events)
      BY <2>5, EventsTyped, OneMoreLine, ConcatEmptySeq DEF ReceiveChunk, Finish
    <3> QED
      BY <2>5, <3>1 DEF ReceiveChunk, Finish
  <2>6. CASE StreamEnds
    <3>1. capture' \in Seq(Events)
      <4>1. PICK line \in Events : line = Event("request_end", {})
        BY EventsTyped
      <4>2. capture' = capture \o <<line>>
        BY <2>6, <4>1 DEF StreamEnds, Finish
      <4>3. capture' = Append(capture, line)
        BY <4>1, <4>2, OneMoreLine
      <4> QED
        BY <4>1, <4>3, OneMoreLine
    <3> QED
      BY <2>6, <3>1 DEF StreamEnds, Finish
  <2>7. CASE RequestFails
    <3>1. capture' \in Seq(Events)
      <4>1. PICK text \in Texts :
           \/ capture' = Append(capture, Event("request_error", text))
           \/ \E status \in Status :
                capture' = Append(Append(capture, Event("response_headers", {status})),
                                  Event("request_error", text))
        BY <2>7, FailureLines
      <4>2. PICK error \in Events : error = Event("request_error", text)
        BY EventsTyped
      <4>3. CASE capture' = Append(capture, error)
        BY <4>3, OneMoreLine
      <4>4. CASE \E status \in Status :
                    capture' = Append(Append(capture, Event("response_headers", {status})), error)
        <5>1. PICK headers \in Events : capture' = Append(Append(capture, headers), error)
          BY <4>4, EventsTyped
        <5>2. Append(capture, headers) \in Seq(Events)
          BY <5>1, OneMoreLine
        <5> QED
          BY <5>1, <5>2, OneMoreLine
      <4> QED
        BY <4>1, <4>2, <4>3, <4>4
    <3>2. step' = "close" /\ result' = "REQUEST_FAILED"
      BY <2>7 DEF RequestFails, Finish
    <3> QED
      BY <2>7, <3>1, <3>2 DEF RequestFails
  <2>8. CASE CloseClient
    BY <2>8 DEF CloseClient, Exit
  <2>9. CASE CheckRequest
    <3>1. /\ step' \in {"analyze", "idle"} /\ (exit' = exit \/ exit' \in {"1", "2"})
          /\ UNCHANGED <<request, bundle, sent, client, capture, result, edits, runs>>
      BY <2>9 DEF CheckRequest, Exit, FileContents
    <3>2. exit' \in {"none", "killed", "0", "1", "2", "4"}
      BY <3>1
    <3> QED
      BY <3>1, <3>2, Zenon
  <2>10. CASE AnalyzeCapture
    <3>1. [bundle EXCEPT !.raw = TRUE] \in Bundles
      BY DEF Bundles
    <3> QED
      BY <2>10, <3>1 DEF AnalyzeCapture, Exit
  <2>11. CASE CopyRequest
    <3>1. [bundle EXCEPT !.request = request] \in Bundles
      BY DEF Bundles
    <3> QED
      BY <2>11, <3>1 DEF CopyRequest, Exit
  <2>12. CASE CopyCapture
    <3>1. [bundle EXCEPT !.capture = capture] \in Bundles
      BY DEF Bundles
    <3> QED
      BY <2>12, <3>1 DEF CopyCapture
  <2>13. CASE WriteAnalysis
    <3>1. [bundle EXCEPT !.analysis = Analysis(capture)] \in Bundles
      BY EmptyTyped DEF Bundles
    <3> QED
      BY <2>13, <3>1 DEF WriteAnalysis
  <2>14. CASE OpenManifest
    <3>1. [bundle EXCEPT !.manifest.state = "torn"] \in Bundles
      BY DEF Bundles, Manifests
    <3> QED
      BY <2>14, <3>1 DEF OpenManifest
  <2>15. CASE FillManifest
    <3> DEFINE new == [state |-> "complete", runner |-> FALSE, request |-> bundle.request,
                       capture |-> bundle.capture, analysis |-> bundle.analysis]
    <3>1. new \in Manifests
      BY DEF Bundles, Manifests
    <3> HIDE DEF new
    <3>2. [bundle EXCEPT !.manifest = new] \in Bundles
      BY <3>1 DEF Bundles
    <3>3. bundle' = [bundle EXCEPT !.manifest = new]
      BY <2>15 DEF FillManifest, new
    <3> QED
      BY <2>15, <3>2, <3>3 DEF FillManifest
  <2>16. CASE AddProvenance
    <3>1. [bundle EXCEPT !.manifest.state = "complete", !.manifest.runner = TRUE] \in Bundles
      BY DEF Bundles, Manifests
    <3>2. step' = "idle" /\ exit' \in {"0", "1"}
      BY <2>16 DEF AddProvenance, Exit
    <3> QED
      BY <2>16, <3>1, <3>2 DEF AddProvenance
  <2>17. ASSUME NEW content \in FileContents, EditRequest(content) PROVE TypeInv'
    <3>1. edits' \in 0 .. MaxEdits
      <4>1. edits \in 0 .. MaxEdits /\ edits < MaxEdits /\ edits' = edits + 1
        BY <2>17, Zenon DEF EditRequest
      <4> QED
        BY <4>1, OneMore
    <3> QED
      BY <2>17, <3>1, Zenon DEF EditRequest
  <2>18. CASE ClearDirectory
    BY <2>18, EmptyTyped DEF ClearDirectory
  <2>19. CASE Kill
    BY <2>19 DEF Kill, Exit
  <2>20. CASE UNCHANGED vars
    BY <2>20 DEF vars
  <2> QED
    BY <2>1, <2>2, <2>3, <2>4, <2>5, <2>6, <2>7, <2>8, <2>9, <2>10, <2>11, <2>12, <2>13,
       <2>14, <2>15, <2>16, <2>17, <2>18, <2>19, <2>20 DEF Next, RunnerStep
<1> QED
  BY <1>1, <1>2, PTL DEF Spec

(* Every variable of a run stays in its type. *)
THEOREM RunTypeCorrect == Spec => []TypeOK
<1>1. TypeInv => TypeOK
  BY DEF TypeInv, TypeOK, Bundles, Manifests, Analyses, Returned
<1> QED
  BY <1>1, TypeInvHolds, PTL

----------------------------------------------------------------------------
(* The shape of the capture.                                                *)

LEMMA OpenStart == Open(<<Event("request_start", {})>>) /\ Len(<<Event("request_start", {})>>) = 1
<1> DEFINE start == Event("request_start", {})
<1>1. Len(<<start>>) = 1 /\ DOMAIN <<start>> = 1 .. 1 /\ <<start>>[1] = start
  OBVIOUS
<1>2. start.event = "request_start"
  BY DEF Event
<1> HIDE DEF start
<1>3. Open(<<start>>)
  BY <1>1, <1>2 DEF Open
<1> QED
  BY <1>1, <1>3 DEF start

(* What a line does to an open capture: headers as the second line and      *)
(* chunks after them keep it open, a terminal line completes it.            *)
LEMMA OpenGrows ==
  ASSUME NEW lines \in Seq(Events), Open(lines), NEW line \in Events
  PROVE  /\ Len(lines) = 1 /\ line.event = "response_headers" =>
              Open(Append(lines, line)) /\ Len(Append(lines, line)) = 2
         /\ Len(lines) >= 2 /\ line.event = "chunk" =>
              Open(Append(lines, line)) /\ Len(Append(lines, line)) >= 3
         /\ line.event \in Terminal => Complete(Append(lines, line))
<1> DEFINE new == Append(lines, line)
<1>1. PICK n \in Nat : n = Len(lines)
  BY LenProperties
<1>2. new \in Seq(Events) /\ Len(new) = n + 1 /\ DOMAIN new = 1 .. n + 1
  BY <1>1, OneMoreLine, LenProperties
<1>3. (\A i \in 1 .. n : new[i] = lines[i]) /\ new[n + 1] = line
  BY <1>1, OneMoreLine
<1>4. /\ n >= 1 /\ lines[1].event = "request_start"
      /\ n >= 2 => lines[2].event = "response_headers"
      /\ \A i \in 1 .. n : i >= 3 => lines[i].event = "chunk"
  BY <1>1, LenProperties DEF Open
<1> HIDE DEF new
<1>5. /\ new[1].event = "request_start"
      /\ n >= 2 => new[2].event = "response_headers"
      /\ \A i \in 1 .. n : i >= 3 => new[i].event = "chunk"
  BY <1>3, <1>4
<1>6. ASSUME n = 1, line.event = "response_headers" PROVE Open(new) /\ Len(new) = 2
  BY <1>2, <1>3, <1>5, <1>6 DEF Open
<1>7. ASSUME n >= 2, line.event = "chunk" PROVE Open(new) /\ Len(new) >= 3
  BY <1>2, <1>3, <1>5, <1>7 DEF Open
<1>8. ASSUME line.event \in Terminal PROVE Complete(new)
  BY <1>2, <1>3, <1>4, <1>5, <1>8 DEF Complete
<1> QED
  BY <1>1, <1>6, <1>7, <1>8 DEF new

LEMMA NeitherOne == 2 # 1 /\ \A n \in Nat : n >= 3 => n # 1
OBVIOUS

LEMMA AtLeastOne ==
  ASSUME NEW n \in Nat, n >= 1
  PROVE  n = 1 \/ n >= 2
OBVIOUS

(* While the headers of the response are not recorded, only the start is. *)
LEMMA OnlyTheStart ==
  ASSUME TypeInv, CaptureInv, step \in {"send", "stream"}, ~ResponseRecorded
  PROVE  Len(capture) = 1
<1>1. capture \in Seq(Events) /\ Open(capture)
  BY DEF TypeInv, CaptureInv
<1>2. PICK n \in Nat : n = Len(capture)
  BY <1>1, LenProperties
<1>3. n >= 1
  BY <1>1, <1>2, Zenon DEF Open
<1>4. ~(n >= 2)
  BY <1>1, <1>2, HeadersOfOpen, Zenon DEF ResponseRecorded
<1>5. n = 1
  BY <1>3, <1>4, AtLeastOne
<1> QED
  BY <1>2, <1>5

(* The runner keeps its capture in shape until it returns it. *)
LEMMA CaptureInvStep ==
  ASSUME TypeInv, CaptureInv, [Next]_vars
  PROVE  CaptureInv'
<1> USE DEF CaptureInv, Writing, Returned
<1>0. capture \in Seq(Events)
  BY DEF TypeInv
<1>1. CASE Start
  <2>1. step' \in {"load", "idle"} /\ result' = "none"
    BY <1>1, Zenon DEF Start, Exit
  <2> QED
    BY <2>1
<1>2. CASE LoadRequest
  <2>1. step = "load" /\ step' \in {"connect", "idle"} /\ UNCHANGED <<capture, result>>
    BY <1>2 DEF LoadRequest, Exit, TypeInv, FileContents
  <2> QED
    BY <2>1
<1>3. CASE Connect
  <2>1. CASE step' = "idle" /\ UNCHANGED <<capture, result>>
    BY <1>3, <2>1 DEF Connect
  <2>2. CASE step' = "send" /\ capture' = <<Event("request_start", {})>> /\ UNCHANGED result
    <3>1. Open(capture') /\ Len(capture') = 1
      BY <2>2, OpenStart
    <3> QED
      BY <1>3, <2>2, <3>1 DEF Connect
  <2> QED
    BY <1>3, <2>1, <2>2 DEF Connect, Exit
<1>4. CASE ReceiveHeaders
  <2>1. ASSUME NEW status \in Status, step' = "stream", UNCHANGED result,
               capture' = Append(capture, Event("response_headers", {status}))
        PROVE  CaptureInv'
    <3>1. Event("response_headers", {status}) \in Events
      BY EventsTyped
    <3>2. Event("response_headers", {status}).event = "response_headers"
      BY DEF Event
    <3>3. Open(capture) /\ Len(capture) = 1 /\ result = "none"
      BY <1>4 DEF ReceiveHeaders
    <3>4. Open(capture') /\ Len(capture') = 2
      BY <1>0, <2>1, <3>1, <3>2, <3>3, OpenGrows
    <3>5. Len(capture') # 1
      BY <3>4, NeitherOne
    <3> QED
      BY <2>1, <3>3, <3>4, <3>5, Zenon
  <2>2. CASE step' = "close" /\ result' = "raised"
    BY <2>2
  <2> QED
    BY <1>4, <2>1, <2>2 DEF ReceiveHeaders, Finish
<1>5. CASE ReceiveChunk
  <2>1. ASSUME NEW chunk \in Chunks, UNCHANGED <<step, result>>,
               capture' = Append(capture, Event("chunk", chunk))
        PROVE  CaptureInv'
    <3>1. Event("chunk", chunk) \in Events
      BY EventsTyped
    <3>2. Event("chunk", chunk).event = "chunk"
      BY DEF Event
    <3>3. Open(capture) /\ Len(capture) # 1 /\ result = "none" /\ step = "stream"
      BY <1>5 DEF ReceiveChunk
    <3>4. Len(capture) >= 2
      <4>1. Len(capture) \in Nat /\ Len(capture) >= 1
        BY <1>0, <3>3, LenProperties, Zenon DEF Open
      <4> QED
        BY <3>3, <4>1, AtLeastOne, Zenon
    <3>5. Open(capture') /\ Len(capture') >= 3
      BY <1>0, <2>1, <3>1, <3>2, <3>3, <3>4, OpenGrows
    <3>6. Len(capture') # 1
      <4>1. Len(capture') \in Nat
        BY <1>0, <2>1, <3>1, OneMoreLine, LenProperties, Zenon
      <4> QED
        BY <3>5, <4>1, NeitherOne
    <3> QED
      BY <2>1, <3>3, <3>5, <3>6
  <2>2. CASE step' = "close" /\ result' = "raised"
    BY <2>2
  <2> QED
    BY <1>5, <2>1, <2>2 DEF ReceiveChunk, Finish
<1>6. CASE StreamEnds
  <2>1. Event("request_end", {}) \in Events /\ Event("request_end", {}).event \in Terminal
    BY EventsTyped DEF Event, Terminal
  <2>2. Open(capture)
    BY <1>6 DEF StreamEnds
  <2>3. capture' = Append(capture, Event("request_end", {}))
    BY <1>0, <1>6, <2>1, OneMoreLine DEF StreamEnds, Finish
  <2>4. Complete(capture')
    BY <1>0, <2>1, <2>2, <2>3, OpenGrows
  <2> QED
    BY <1>6, <2>4 DEF StreamEnds, Finish
<1>7. CASE RequestFails
  <2>1. PICK text \in Texts :
          \/ capture' = Append(capture, Event("request_error", text))
          \/ ~ResponseRecorded /\ \E status \in Status :
               capture' = Append(Append(capture, Event("response_headers", {status})),
                                 Event("request_error", text))
    BY <1>7, FailureLines
  <2> DEFINE error == Event("request_error", text)
  <2>2. error \in Events /\ error.event \in Terminal
    BY EventsTyped DEF Event, Terminal
  <2>3. Open(capture) /\ step \in {"send", "stream"}
    BY <1>7 DEF RequestFails
  <2> HIDE DEF error
  <2>4. ASSUME capture' = Append(capture, error) PROVE Complete(capture')
    BY <1>0, <2>2, <2>3, <2>4, OpenGrows
  <2>5. ASSUME ~ResponseRecorded, NEW status \in Status,
               capture' = Append(Append(capture, Event("response_headers", {status})), error)
        PROVE  Complete(capture')
    <3> DEFINE headers == Event("response_headers", {status})
    <3>1. headers \in Events /\ headers.event = "response_headers"
      BY EventsTyped DEF Event
    <3>2. Len(capture) = 1
      BY <2>3, <2>5, OnlyTheStart
    <3> HIDE DEF headers
    <3>3. Open(Append(capture, headers)) /\ Append(capture, headers) \in Seq(Events)
      BY <1>0, <2>3, <3>1, <3>2, OpenGrows, OneMoreLine
    <3> QED
      BY <2>2, <2>5, <3>3, OpenGrows DEF headers
  <2>6. Complete(capture')
    BY <2>1, <2>4, <2>5 DEF error
  <2>7. step' = "close" /\ result' = "REQUEST_FAILED"
    BY <1>7 DEF RequestFails, Finish
  <2> QED
    BY <2>6, <2>7
<1>8. CASE CloseClient
  <2>1. result \in {"none", "raised"} \cup Returned
    BY DEF TypeInv
  <2>2. step' = "idle" \/ (step' = "check" /\ result # "raised")
    BY <1>8 DEF CloseClient, Exit
  <2>3. step = "close" /\ UNCHANGED <<capture, result>>
    BY <1>8 DEF CloseClient
  <2>4. CASE step' = "check" /\ result # "raised"
    BY <2>1, <2>3, <2>4
  <2>5. CASE step' = "idle"
    BY <2>3, <2>5
  <2> QED
    BY <2>2, <2>4, <2>5
<1>9. CASE CheckRequest
  <2>1. step = "check" /\ step' \in {"idle", "analyze"} /\ UNCHANGED <<capture, result>>
    BY <1>9 DEF CheckRequest, Exit, TypeInv, FileContents
  <2> QED
    BY <2>1
<1>10. CASE AnalyzeCapture
  BY <1>10 DEF AnalyzeCapture, Exit
<1>11. CASE CopyRequest
  BY <1>11 DEF CopyRequest, Exit
<1>12. CASE CopyCapture
  BY <1>12 DEF CopyCapture
<1>13. CASE WriteAnalysis
  BY <1>13 DEF WriteAnalysis
<1>14. CASE OpenManifest
  BY <1>14 DEF OpenManifest
<1>15. CASE FillManifest
  BY <1>15 DEF FillManifest
<1>16. CASE AddProvenance
  BY <1>16 DEF AddProvenance, Exit
<1>17. ASSUME NEW content \in FileContents, EditRequest(content) PROVE CaptureInv'
  BY <1>17 DEF EditRequest
<1>18. CASE ClearDirectory
  BY <1>18 DEF ClearDirectory
<1>19. CASE Kill
  BY <1>19 DEF Kill, Exit
<1>20. CASE UNCHANGED vars
  BY <1>20 DEF vars
<1> QED
  BY <1>1, <1>2, <1>3, <1>4, <1>5, <1>6, <1>7, <1>8, <1>9, <1>10, <1>11, <1>12, <1>13,
     <1>14, <1>15, <1>16, <1>17, <1>18, <1>19, <1>20 DEF Next, RunnerStep


----------------------------------------------------------------------------
(* What has been written.                                                   *)

LEMMA FreshBundle ==
  /\ EmptyDir.manifest.state = "absent" /\ EmptyDir.manifest.runner = FALSE
  /\ \A raw \in BOOLEAN : [EmptyDir EXCEPT !.raw = raw].manifest = EmptyDir.manifest
BY DEF EmptyDir, NoManifest

(* The bundle builder writes in its order, from an empty directory and of a *)
(* capture it accepted.                                                     *)
LEMMA BundleInvStep ==
  ASSUME TypeInv, BundleInv, [Next]_vars
  PROVE  BundleInv'
<1> USE DEF BundleInv, Before, Writing
<1>0. bundle \in Bundles /\ bundle.manifest \in Manifests
  BY DEF TypeInv, Bundles
<1>1. CASE Start
  <2>1. UNCHANGED bundle /\ (step' = "idle" \/ (step' = "load" /\ bundle = EmptyDir))
    BY <1>1 DEF Start, Exit, DirectoryIsEmpty
  <2> QED
    BY <2>1, FreshBundle
<1>2. CASE LoadRequest
  <2>1. step = "load" /\ step' \in {"connect", "idle"} /\ UNCHANGED <<bundle, capture>>
    BY <1>2 DEF LoadRequest, Exit, TypeInv, FileContents
  <2> QED
    BY <2>1, FreshBundle
<1>3. CASE Connect
  <2>1. step = "connect" /\ step' \in {"send", "idle"} /\ UNCHANGED bundle
    BY <1>3 DEF Connect, Exit
  <2> QED
    BY <2>1, FreshBundle
<1>4. CASE ReceiveHeaders \/ ReceiveChunk \/ StreamEnds \/ RequestFails
  <2>1. step \in {"send", "stream"} /\ step' \in {"send", "stream", "close"} /\ UNCHANGED bundle
    BY <1>4, Zenon DEF ReceiveHeaders, ReceiveChunk, StreamEnds, RequestFails, Finish
  <2> QED
    BY <2>1, FreshBundle
<1>5. CASE CloseClient
  <2>1. step = "close" /\ step' \in {"check", "idle"} /\ UNCHANGED bundle
    BY <1>5 DEF CloseClient, Exit
  <2> QED
    BY <2>1, FreshBundle
<1>6. CASE CheckRequest
  <2>1. step = "check" /\ step' \in {"analyze", "idle"} /\ UNCHANGED bundle
    BY <1>6 DEF CheckRequest, Exit, DirectoryIsEmpty, TypeInv, FileContents
  <2> QED
    BY <2>1, FreshBundle
<1>7. CASE AnalyzeCapture
  <2>1. CASE step' = "copy request" /\ bundle' = [bundle EXCEPT !.raw = TRUE]
                /\ Analyzable(capture) /\ UNCHANGED capture
    <3>1. bundle = EmptyDir
      BY <1>7 DEF AnalyzeCapture
    <3>2. bundle'.manifest.state = "absent" /\ bundle'.manifest.runner = FALSE
      BY <2>1, <3>1, FreshBundle
    <3> QED
      BY <2>1, <3>2
  <2>2. CASE step' = "idle"
    BY <2>2
  <2> QED
    BY <1>7, <2>1, <2>2 DEF AnalyzeCapture, Exit
<1>8. CASE CopyRequest
  <2>1. /\ step = "copy request" /\ step' \in {"copy capture", "idle"} /\ UNCHANGED capture
        /\ bundle' = [bundle EXCEPT !.request = request]
    BY <1>8 DEF CopyRequest, Exit
  <2>2. bundle'.manifest = bundle.manifest
    BY <1>0, <2>1 DEF Bundles
  <2> QED
    BY <2>1, <2>2
<1>9. CASE CopyCapture
  <2>1. bundle'.manifest = bundle.manifest /\ bundle'.capture = capture
    BY <1>0, <1>9 DEF CopyCapture, Bundles
  <2> QED
    BY <1>9, <2>1 DEF CopyCapture
<1>10. CASE WriteAnalysis
  <2>1. /\ bundle'.manifest = bundle.manifest /\ bundle'.capture = bundle.capture
        /\ bundle'.analysis = Analysis(capture)
    BY <1>0, <1>10 DEF WriteAnalysis, Bundles
  <2>2. step = "write analysis" /\ step' = "open manifest" /\ UNCHANGED capture
    BY <1>10 DEF WriteAnalysis
  <2> QED
    BY <2>1, <2>2
<1>11. CASE OpenManifest
  <2>1. /\ bundle'.capture = bundle.capture /\ bundle'.request = bundle.request
        /\ bundle'.analysis = bundle.analysis
        /\ bundle'.manifest = [bundle.manifest EXCEPT !.state = "torn"]
    BY <1>0, <1>11 DEF OpenManifest, Bundles
  <2>2. /\ bundle'.manifest.capture = bundle.manifest.capture
        /\ bundle'.manifest.request = bundle.manifest.request
        /\ bundle'.manifest.analysis = bundle.manifest.analysis
        /\ bundle'.manifest.runner = bundle.manifest.runner
        /\ bundle'.manifest.state = "torn"
    BY <1>0, <2>1 DEF Manifests
  <2>3. /\ \/ step = "open manifest" /\ step' = "fill manifest"
           \/ step = "reopen manifest" /\ step' = "add provenance"
        /\ UNCHANGED capture
    BY <1>11 DEF OpenManifest
  <2> QED
    BY <2>1, <2>2, <2>3
<1>12. CASE FillManifest
  <2> DEFINE filled == [state |-> "complete", runner |-> FALSE, request |-> bundle.request,
                        capture |-> bundle.capture, analysis |-> bundle.analysis]
  <2>0. /\ filled.request = bundle.request /\ filled.capture = bundle.capture
        /\ filled.analysis = bundle.analysis /\ filled.runner = FALSE
    OBVIOUS
  <2>1. /\ bundle'.capture = bundle.capture /\ bundle'.request = bundle.request
        /\ bundle'.analysis = bundle.analysis /\ bundle'.manifest = filled
    BY <1>0, <1>12 DEF FillManifest, Bundles
  <2> HIDE DEF filled
  <2>2. /\ bundle'.manifest.request = bundle'.request
        /\ bundle'.manifest.capture = bundle'.capture
        /\ bundle'.manifest.analysis = bundle'.analysis
        /\ ~bundle'.manifest.runner
    BY <2>0, <2>1
  <2>3. step = "fill manifest" /\ step' = "reopen manifest" /\ UNCHANGED capture
    BY <1>12 DEF FillManifest
  <2>4. bundle'.capture = bundle.capture /\ bundle'.analysis = bundle.analysis
    BY <2>1
  <2> QED
    BY <2>2, <2>3, <2>4
<1>13. CASE AddProvenance
  BY <1>13 DEF AddProvenance, Exit
<1>14. ASSUME NEW content \in FileContents, EditRequest(content) PROVE BundleInv'
  BY <1>14 DEF EditRequest
<1>15. CASE ClearDirectory
  BY <1>15 DEF ClearDirectory
<1>16. CASE Kill
  BY <1>16 DEF Kill, Exit
<1>17. CASE UNCHANGED vars
  BY <1>17 DEF vars
<1> QED
  BY <1>1, <1>2, <1>3, <1>4, <1>5, <1>6, <1>7, <1>8, <1>9, <1>10, <1>11, <1>12, <1>13,
     <1>14, <1>15, <1>16, <1>17 DEF Next, RunnerStep


----------------------------------------------------------------------------
(* The exit code.                                                           *)

LEMMA NotZero == \A n \in Nat : \A m \in 0 .. n : m + 1 # 0
OBVIOUS

(* A run has no exit code before it ends, and starts from an accepted       *)
(* request.                                                                 *)
LEMMA RunInvStep ==
  ASSUME TypeInv, RunInv, [Next]_vars
  PROVE  RunInv'
<1> USE DEF RunInv
<1>1. CASE Start
  <2>1. step' = "idle" \/ (step' = "load" /\ exit' = "none")
    BY <1>1 DEF Start, Exit
  <2> QED
    BY <2>1, Zenon
<1>2. CASE LoadRequest
  <2>1. step = "load" /\ UNCHANGED <<request, edits>>
    BY <1>2 DEF LoadRequest
  <2>2. step' = "idle" \/ (step' = "connect" /\ request \in Request /\ UNCHANGED exit)
    BY <1>2 DEF LoadRequest, Exit, TypeInv, FileContents
  <2> QED
    BY <2>1, <2>2, Zenon
<1>3. ASSUME \/ Connect \/ ReceiveHeaders \/ ReceiveChunk \/ StreamEnds \/ RequestFails
             \/ CloseClient \/ CheckRequest \/ AnalyzeCapture \/ CopyRequest \/ CopyCapture
             \/ WriteAnalysis \/ OpenManifest \/ FillManifest \/ AddProvenance
      PROVE  RunInv'
  <2>1. UNCHANGED <<request, edits>> /\ step \notin {"idle", "load"}
    BY <1>3, Zenon
       DEF Connect, ReceiveHeaders, ReceiveChunk, StreamEnds, RequestFails, CloseClient,
           CheckRequest, AnalyzeCapture, CopyRequest, CopyCapture, WriteAnalysis, OpenManifest,
           FillManifest, AddProvenance
  <2>2. step' = "idle" \/ UNCHANGED exit
    <3>1. CASE CheckRequest
      BY <3>1 DEF CheckRequest, Exit, TypeInv, FileContents
    <3> QED
      BY <1>3, <3>1, Zenon
         DEF Connect, ReceiveHeaders, ReceiveChunk, StreamEnds, RequestFails, CloseClient,
             AnalyzeCapture, CopyRequest, CopyCapture, WriteAnalysis, OpenManifest,
             FillManifest, AddProvenance, Exit
  <2> QED
    BY <2>1, <2>2, Zenon
<1>4. ASSUME NEW content \in FileContents, EditRequest(content) PROVE RunInv'
  <2>1. edits' # 0
    <3>1. edits \in 0 .. MaxEdits /\ edits' = edits + 1
      BY <1>4, Zenon DEF EditRequest, TypeInv
    <3> QED
      BY <3>1, NotZero, RunAssumption
  <2> QED
    BY <1>4, <2>1, Zenon DEF EditRequest
<1>5. CASE ClearDirectory
  BY <1>5, Zenon DEF ClearDirectory
<1>6. CASE Kill
  BY <1>6, Zenon DEF Kill, Exit
<1>7. CASE UNCHANGED vars
  BY <1>7, Zenon DEF vars
<1> QED
  BY <1>1, <1>2, <1>3, <1>4, <1>5, <1>6, <1>7, Zenon DEF Next, RunnerStep


(* The inductive invariant of a run. *)
LEMMA RunInvariant == Spec => [](TypeInv /\ CaptureInv /\ BundleInv /\ RunInv)
<1>1. Init => CaptureInv /\ BundleInv /\ RunInv
  BY DEF Init, CaptureInv, BundleInv, RunInv, Before, Writing, Returned
<1>2. TypeInv /\ CaptureInv /\ BundleInv /\ RunInv /\ [Next]_vars
        => CaptureInv' /\ BundleInv' /\ RunInv'
  BY CaptureInvStep, BundleInvStep, RunInvStep
<1> QED
  BY <1>1, <1>2, TypeInvHolds, PTL DEF Spec

(* Steps that touch nothing but the run itself. *)
LEMMA BundleUntouched ==
  ASSUME \/ Start \/ LoadRequest \/ Connect \/ ReceiveHeaders \/ ReceiveChunk \/ StreamEnds
         \/ RequestFails \/ CloseClient \/ CheckRequest \/ Kill \/ UNCHANGED vars
         \/ \E content \in FileContents : EditRequest(content)
  PROVE  UNCHANGED bundle
BY Zenon
   DEF Start, LoadRequest, Connect, ReceiveHeaders, ReceiveChunk, StreamEnds, RequestFails,
       CloseClient, CheckRequest, Kill, EditRequest, vars

(* A complete manifest describes the directory it is in, whoever was killed  *)
(* when: the builder writes it last, and opens it again only to add to it.   *)
THEOREM BundleWhole == Spec => []BundleIsWhole
<1>1. Init => BundleIsWhole
  BY FreshBundle DEF Init, BundleIsWhole
<1>2. TypeInv /\ BundleInv /\ BundleIsWhole /\ [Next]_vars => BundleIsWhole'
  <2> SUFFICES ASSUME TypeInv, BundleInv, BundleIsWhole, [Next]_vars
               PROVE  BundleIsWhole'
    OBVIOUS
  <2> USE DEF BundleIsWhole
  <2>0. bundle \in Bundles /\ bundle.manifest \in Manifests
    BY DEF TypeInv, Bundles
  <2>1. CASE UNCHANGED bundle
    BY <2>1
  <2>2. CASE AnalyzeCapture
    <3>1. bundle = EmptyDir
      BY <2>2 DEF AnalyzeCapture, BundleInv, Before
    <3>2. bundle'.manifest.state = "absent"
      BY <2>2, <3>1, FreshBundle DEF AnalyzeCapture
    <3> QED
      BY <3>2
  <2>3. CASE CopyRequest \/ CopyCapture \/ WriteAnalysis
    <3>1. bundle'.manifest = bundle.manifest
      BY <2>0, <2>3 DEF CopyRequest, CopyCapture, WriteAnalysis, Bundles
    <3>2. bundle.manifest.state # "complete"
      BY <2>3 DEF CopyRequest, CopyCapture, WriteAnalysis, BundleInv
    <3> QED
      BY <3>1, <3>2
  <2>4. CASE OpenManifest
    <3>1. bundle'.manifest.state = "torn"
      BY <2>0, <2>4 DEF OpenManifest, Bundles, Manifests
    <3> QED
      BY <3>1
  <2>5. CASE FillManifest
    <3>1. /\ bundle'.manifest.request = bundle'.request
          /\ bundle'.manifest.capture = bundle'.capture
          /\ bundle'.manifest.analysis = bundle'.analysis
          /\ bundle'.capture = bundle.capture /\ bundle'.analysis = bundle.analysis
      BY <2>0, <2>5 DEF FillManifest, Bundles
    <3>2. /\ bundle.capture = capture /\ bundle.analysis = Analysis(capture)
          /\ Analyzable(capture)
      BY <2>5 DEF FillManifest, BundleInv, Writing
    <3> QED
      BY <3>1, <3>2
  <2>6. CASE AddProvenance
    <3>1. /\ bundle'.capture = bundle.capture /\ bundle'.request = bundle.request
          /\ bundle'.analysis = bundle.analysis
          /\ bundle'.manifest = [bundle.manifest EXCEPT !.state = "complete", !.runner = TRUE]
      BY <2>0, <2>6 DEF AddProvenance, Bundles
    <3>2. /\ bundle'.manifest.capture = bundle.manifest.capture
          /\ bundle'.manifest.request = bundle.manifest.request
          /\ bundle'.manifest.analysis = bundle.manifest.analysis
      BY <2>0, <3>1 DEF Manifests
    <3>3. /\ bundle.capture = capture /\ bundle.analysis = Analysis(capture)
          /\ Analyzable(capture)
          /\ bundle.manifest.request = bundle.request
          /\ bundle.manifest.capture = bundle.capture
          /\ bundle.manifest.analysis = bundle.analysis
      BY <2>6 DEF AddProvenance, BundleInv, Writing
    <3> QED
      BY <3>1, <3>2, <3>3
  <2>7. CASE ClearDirectory
    <3>1. bundle'.manifest.state = "absent"
      BY <2>7, FreshBundle DEF ClearDirectory
    <3> QED
      BY <3>1
  <2> QED
    BY <2>1, <2>2, <2>3, <2>4, <2>5, <2>6, <2>7, BundleUntouched, Zenon DEF Next, RunnerStep
<1> QED
  BY <1>1, <1>2, RunInvariant, PTL DEF Spec

(* A finished bundle is out of reach of every later run: a run that writes   *)
(* started from an empty directory and has not marked the manifest yet.      *)
THEOREM BundleKept == Spec => BundleIsKept
<1>1. TypeInv /\ BundleInv /\ [Next]_vars
        => [bundle.manifest.state = "complete" /\ bundle.manifest.runner =>
              bundle' \in {bundle, EmptyDir}]_vars
  <2> SUFFICES ASSUME TypeInv, BundleInv, [Next]_vars,
                      bundle.manifest.state = "complete", bundle.manifest.runner
               PROVE  bundle' \in {bundle, EmptyDir}
    OBVIOUS
  <2>1. step \notin Writing /\ step # "analyze"
    BY FreshBundle DEF BundleInv, Before
  <2>2. CASE UNCHANGED bundle
    BY <2>2
  <2>3. CASE ClearDirectory
    BY <2>3 DEF ClearDirectory
  <2>4. ASSUME \/ AnalyzeCapture \/ CopyRequest \/ CopyCapture \/ WriteAnalysis
               \/ OpenManifest \/ FillManifest \/ AddProvenance
        PROVE  FALSE
    BY <2>1, <2>4
       DEF AnalyzeCapture, CopyRequest, CopyCapture, WriteAnalysis, OpenManifest,
           FillManifest, AddProvenance, Writing
  <2> QED
    BY <2>2, <2>3, <2>4, BundleUntouched, Zenon DEF Next, RunnerStep
<1> QED
  BY <1>1, RunInvariant, PTL DEF Spec, BundleIsKept


(* How a step leaves an exit code: the provenance step by the status of the  *)
(* analysis, the refusals with 2, all others with a code of their own.       *)
LEMMA ExitOfStep ==
  ASSUME TypeInv, RunInv, [Next]_vars
  PROVE  \/ AddProvenance
         \/ \E content \in FileContents : EditRequest(content)
         \/ UNCHANGED vars
         \/ exit' \in {"none", "killed", "1", "4"}
         \/ exit' = "2" /\ \/ Start \/ LoadRequest
                           \/ CloseClient /\ result = "raised"
                           \/ CheckRequest /\ (~DirectoryIsEmpty \/ request \in {Rejected, Absent})
                           \/ AnalyzeCapture /\ ~Analyzable(capture)
                           \/ CopyRequest /\ request = Absent
<1>1. step # "idle" => exit = "none"
  BY DEF RunInv
<1>2. CASE Start
  BY <1>2, Zenon DEF Start, Exit
<1>3. CASE LoadRequest
  BY <1>1, <1>3 DEF LoadRequest, Exit, TypeInv, FileContents
<1>4. CASE CheckRequest
  BY <1>1, <1>4 DEF CheckRequest, Exit, TypeInv, FileContents
<1>5. CASE CloseClient \/ AnalyzeCapture \/ CopyRequest
  BY <1>1, <1>5, Zenon DEF CloseClient, AnalyzeCapture, CopyRequest, Exit
<1>6. CASE Connect \/ ReceiveHeaders \/ ReceiveChunk \/ StreamEnds \/ RequestFails
  BY <1>1, <1>6, Zenon
     DEF Connect, ReceiveHeaders, ReceiveChunk, StreamEnds, RequestFails, Exit
<1>7. CASE CopyCapture \/ WriteAnalysis \/ OpenManifest \/ FillManifest
  BY <1>1, <1>7 DEF CopyCapture, WriteAnalysis, OpenManifest, FillManifest
<1>8. CASE ClearDirectory \/ Kill
  BY <1>8, Zenon DEF ClearDirectory, Kill, Exit
<1> QED
  BY <1>2, <1>3, <1>4, <1>5, <1>6, <1>7, <1>8, Zenon DEF Next, RunnerStep

(* Exit code 0 is only given where the analysis in the bundle says COMPLETE, *)
(* and that analysis is the one of the capture in the bundle.                *)
THEOREM ZeroIsComplete == Spec => []ZeroMeansComplete
<1>1. Init => ZeroMeansComplete
  BY DEF Init, ZeroMeansComplete
<1>2. TypeInv /\ BundleInv /\ RunInv /\ ZeroMeansComplete /\ [Next]_vars => ZeroMeansComplete'
  <2> SUFFICES ASSUME TypeInv, BundleInv, RunInv, ZeroMeansComplete, [Next]_vars, exit' = "0"
               PROVE  /\ bundle'.manifest.state = "complete" /\ bundle'.manifest.runner
                      /\ Last(bundle'.capture).event = "request_end"
                      /\ "2xx" \in Details(bundle'.capture, "response_headers")
    BY Zenon DEF ZeroMeansComplete
  <2>1. CASE UNCHANGED <<bundle, exit>>
    BY <2>1 DEF ZeroMeansComplete
  <2>2. CASE AddProvenance
    <3>0. bundle \in Bundles /\ bundle.manifest \in Manifests
      BY DEF TypeInv, Bundles
    <3>1. bundle.capture = capture /\ bundle.analysis = Analysis(capture)
      BY <2>2 DEF AddProvenance, BundleInv, Writing
    <3>2. bundle.analysis.status = "COMPLETE"
      BY <2>2, Zenon DEF AddProvenance, Exit
    <3>3. Analysis(capture).status = "COMPLETE"
      BY <3>1, <3>2
    <3>4. Last(capture).event = "request_end" /\ "2xx" \in Details(capture, "response_headers")
      BY <3>3 DEF Analysis
    <3>5. /\ bundle'.capture = bundle.capture
          /\ bundle'.manifest.state = "complete" /\ bundle'.manifest.runner
      BY <2>2, <3>0 DEF AddProvenance, Bundles, Manifests
    <3> QED
      BY <3>1, <3>4, <3>5
  <2> QED
    BY <2>1, <2>2, ExitOfStep DEF EditRequest, vars
<1> QED
  BY <1>1, <1>2, RunInvariant, PTL DEF Spec

(* The lines of the runner itself never get a capture refused: what remains  *)
(* is in the characters, the status and the figures the provider sent.       *)
THEOREM RejectionIsJustified == Spec => []RejectionHasReason
<1>1. Init => RejectionHasReason
  BY DEF Init, RejectionHasReason
<1>2. TypeInv /\ CaptureInv /\ BundleInv /\ RunInv /\ RejectionHasReason /\ [Next]_vars
        => RejectionHasReason'
  <2> SUFFICES ASSUME TypeInv, CaptureInv, BundleInv, RunInv, RejectionHasReason, [Next]_vars,
                      exit' = "2", result' \in Returned, edits' = 0
               PROVE  \/ \E i \in DOMAIN capture' : "separator" \in capture'[i].detail
                      \/ "outside 100..599" \in Details(capture', "response_headers")
                      \/ ~FiguresAgree(Details(capture', "chunk"))
    BY Zenon DEF RejectionHasReason, Returned
  <2>1. CASE UNCHANGED vars
    BY <2>1, Zenon DEF vars, RejectionHasReason, Returned
  <2>2. ASSUME NEW content \in FileContents, EditRequest(content) PROVE FALSE
    <3>1. edits \in 0 .. MaxEdits /\ edits' = edits + 1
      BY <2>2, Zenon DEF EditRequest, TypeInv
    <3> QED
      BY <3>1, NotZero, RunAssumption
  <2>3. CASE AnalyzeCapture /\ ~Analyzable(capture)
    <3>1. UNCHANGED <<capture, result>>
      BY <2>3 DEF AnalyzeCapture
    <3>2. capture \in Seq(Events) /\ Complete(capture)
      BY <3>1 DEF TypeInv, CaptureInv
    <3> QED
      BY <2>3, <3>1, <3>2, OnlyContentIsRefused
  <2>4. CASE Start \/ LoadRequest \/ (CloseClient /\ result = "raised")
    <3>1. result' \in {"none", "raised"}
      BY <2>4, Zenon DEF Start, LoadRequest, CloseClient, CaptureInv
    <3> QED
      BY <3>1 DEF Returned
  <2>5. ASSUME CheckRequest, ~DirectoryIsEmpty \/ request \in {Rejected, Absent} PROVE FALSE
    <3>1. step = "check" /\ UNCHANGED <<request, edits>>
      BY <2>5 DEF CheckRequest
    <3>2. bundle = EmptyDir
      BY <3>1 DEF BundleInv, Before
    <3>3. request \in Request
      BY <3>1, Zenon DEF RunInv
    <3> QED
      BY <2>5, <3>2, <3>3, RunAssumption DEF DirectoryIsEmpty
  <2>6. ASSUME CopyRequest, request = Absent PROVE FALSE
    <3>1. step = "copy request" /\ UNCHANGED edits
      BY <2>6 DEF CopyRequest
    <3>2. request \in Request
      BY <3>1, Zenon DEF RunInv
    <3> QED
      BY <2>6, <3>2, RunAssumption
  <2>7. CASE AddProvenance
    BY <2>7, Zenon DEF AddProvenance, Exit
  <2> QED
    BY <2>1, <2>2, <2>3, <2>4, <2>5, <2>6, <2>7, ExitOfStep, Zenon
<1> QED
  BY <1>1, <1>2, RunInvariant, PTL DEF Spec
=============================================================================
