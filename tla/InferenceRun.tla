--------------------------- MODULE InferenceRun ---------------------------
(***************************************************************************)
(* One authenticated streaming request and the evidence bundle made of it  *)
(* (cerebras_runner.py: run_cerebras_inference and capture_cerebras_stream;*)
(* inference_evidence.py: load_capture, analyze_capture and                *)
(* build_inference_bundle; the exit codes of cli.py).                      *)
(*                                                                         *)
(* The run reads the request file three times: to send it, to check it     *)
(* again, and to copy it into the bundle; a user may edit it meanwhile.    *)
(* The capture is written to a temporary directory that is gone when the   *)
(* run ends, packaged or not.  The process may be killed between any two   *)
(* of its file operations, and run again on the directory it left.  The    *)
(* provider and the SDK are external: every outcome the code handles.      *)
(***************************************************************************)
EXTENDS Naturals, Sequences, FiniteSets, SequencesExt

CONSTANTS
  Request,      \* request files the runner accepts
  Rejected,     \* a file it refuses: not JSON, another model, a credential, no streaming
  Undecodable,  \* a file that is not UTF-8
  Absent,       \* no file
  Chunks,       \* what a chunk of the stream may carry: sets of marks, see below
  MaxChunks,    \* bound on the length of a stream
  MaxEdits,     \* bound on the user's edits of the request
  MaxRuns       \* bound on the runs of the command

ASSUME RunAssumption ==
  /\ {Rejected, Undecodable, Absent} \cap Request = {}
  /\ MaxChunks \in Nat /\ MaxEdits \in Nat /\ MaxRuns \in Nat

VARIABLES
  request,  \* the request file
  bundle,   \* the evidence directory
  step,     \* where the run is; "idle" when none is running
  sent,     \* the request as it was loaded to be sent
  client,   \* the SDK client
  capture,  \* the temporary capture.jsonl
  result,   \* what capture_cerebras_stream returned
  exit,     \* exit code of the last run; "killed" if it was
  edits, runs

vars == <<request, bundle, step, sent, client, capture, result, exit, edits, runs>>

FileContents == Request \cup {Rejected, Undecodable, Absent}

(* Lines of the capture: the kind of event, and the marks of it that the    *)
(* analysis tells apart.  A chunk or an error text may hold a character that*)
(* str.splitlines takes for a line end (json.dumps with ensure_ascii=False  *)
(* writes U+2028 or U+0085 as it is).  A chunk may carry a usage object, a  *)
(* count of reasoning tokens in it, and a time_info object, of which two    *)
(* different ones each are enough here: "no tokens" and "no time" are those *)
(* with a completion count and a completion time of zero.  "malformed" is   *)
(* any figure refused by itself: not an object, not a number, negative, a   *)
(* total that is not the sum.                                               *)
Event(event, detail) == [event |-> event, detail |-> detail]
Status == {"2xx", "other", "outside 100..599"}
Texts == {{}, {"separator"}}
Usage == {"some tokens", "no tokens"}
Reasoning == {"some reasoned", "none reasoned"}
Times == {"some time", "no time"}
Figures == Usage \cup Reasoning \cup Times
Marks == Figures \cup {"separator", "malformed"}
Events ==
  [event : {"request_start", "request_end"}, detail : {{}}]
    \cup [event : {"response_headers"}, detail : {{status} : status \in Status}]
    \cup [event : {"chunk"}, detail : Chunks]
    \cup [event : {"request_error"}, detail : Texts]
Terminal == {"request_end", "request_error"}

(* One chunk has one usage object at most, reasoning tokens only inside it, *)
(* and one time_info object at most.                                        *)
ASSUME ChunksAssumption ==
  \A chunk \in Chunks :
    /\ chunk \subseteq Marks
    /\ \A kind \in {Usage, Reasoning, Times} : Cardinality(chunk \cap kind) <= 1
    /\ chunk \cap Reasoning # {} => chunk \cap Usage # {}

NoAnalysis == [status |-> "absent", figures |-> {}]
NoManifest == [state |-> "absent", runner |-> FALSE, request |-> Absent,
               capture |-> <<>>, analysis |-> NoAnalysis]
EmptyDir == [raw |-> FALSE, request |-> Absent, capture |-> <<>>,
             analysis |-> NoAnalysis, manifest |-> NoManifest]

----------------------------------------------------------------------------
(* load_capture and analyze_capture *)

Occurrences(lines, events) == Cardinality({i \in DOMAIN lines : lines[i].event \in events})
Details(lines, event) == UNION {lines[i].detail : i \in {j \in DOMAIN lines : lines[j].event = event}}

(* Every chunk's figures are sound, no two chunks report different ones, and*)
(* tokens were not completed in no time.                                    *)
FiguresAgree(marks) ==
  /\ "malformed" \notin marks
  /\ \A kind \in {Usage, Reasoning, Times} : Cardinality(marks \cap kind) <= 1
  /\ ~({"some tokens", "no time"} \subseteq marks)

Analyzable(lines) ==
  /\ \A i \in DOMAIN lines : "separator" \notin lines[i].detail
  /\ Head(lines).event = "request_start" /\ Occurrences(lines, {"request_start"}) = 1
  /\ Last(lines).event \in Terminal /\ Occurrences(lines, Terminal) = 1
  /\ Occurrences(lines, {"response_headers"}) <= 1
  /\ "outside 100..599" \notin Details(lines, "response_headers")
  /\ FiguresAgree(Details(lines, "chunk"))

Analysis(lines) ==
  [status  |-> IF Last(lines).event = "request_end" /\ "2xx" \in Details(lines, "response_headers")
               THEN "COMPLETE" ELSE "REQUEST_FAILED",
   figures |-> Figures \cap Details(lines, "chunk")]

----------------------------------------------------------------------------
(* From the command to the request. *)

Exit(code) == step' = "idle" /\ exit' = code

DirectoryIsEmpty == bundle = EmptyDir

TidiedBeforeChecked ==
  /\ step = "idle" /\ runs < MaxRuns
  /\ runs' = runs + 1
  /\ bundle' = [bundle EXCEPT !.manifest = NoManifest]
  /\ IF DirectoryIsEmpty THEN step' = "load" /\ exit' = "none" ELSE Exit("2")
  /\ sent' = Absent /\ client' = "none" /\ capture' = <<>> /\ result' = "none"
  /\ UNCHANGED <<request, edits>>

Start ==
  /\ step = "idle" /\ runs < MaxRuns
  /\ runs' = runs + 1
  /\ IF DirectoryIsEmpty THEN step' = "load" /\ exit' = "none" ELSE Exit("2")
  /\ sent' = Absent /\ client' = "none" /\ capture' = <<>> /\ result' = "none"
  /\ UNCHANGED <<request, bundle, edits>>

(* read_text raises UnicodeDecodeError, which neither _load_request nor     *)
(* main catches: the interpreter ends with exit code 1.                     *)
LoadRequest ==
  /\ step = "load"
  /\ CASE request \in Request            -> step' = "connect" /\ UNCHANGED exit
       [] request = Undecodable          -> Exit("1")
       [] request \in {Rejected, Absent} -> Exit("2")
  /\ sent' = request
  /\ UNCHANGED <<request, bundle, client, capture, result, edits, runs>>

EscalatedInsteadOfBlocked ==
  /\ step = "connect"
  /\ Exit("3") /\ UNCHANGED <<client, capture>>
  /\ UNCHANGED <<request, bundle, sent, result, edits, runs>>

(* No API key, no SDK, or a client that cannot be constructed: BLOCKED. *)
Connect ==
  /\ step = "connect"
  /\ \/ Exit("4") /\ UNCHANGED <<client, capture>>
     \/ /\ step' = "send" /\ client' = "open"
        /\ capture' = <<Event("request_start", {})>>
        /\ UNCHANGED exit
  /\ UNCHANGED <<request, bundle, sent, result, edits, runs>>

----------------------------------------------------------------------------
(* capture_cerebras_stream *)

(* Ends the capture: with a terminal line, or by raising a runner error.    *)
Finish(outcome, lines) == step' = "close" /\ result' = outcome /\ capture' = capture \o lines

ResponseRecorded == Occurrences(capture, {"response_headers"}) = 1

ReceiveHeaders ==
  /\ step = "send"
  /\ \/ \E status \in Status :
          /\ capture' = Append(capture, Event("response_headers", {status}))
          /\ step' = "stream" /\ UNCHANGED result
     \/ Finish("raised", <<>>)                \* no integer status code
  /\ UNCHANGED <<request, bundle, sent, client, exit, edits, runs>>

ReceiveChunk ==
  /\ step = "stream" /\ Occurrences(capture, {"chunk"}) < MaxChunks
  /\ \/ \E chunk \in Chunks :
          capture' = Append(capture, Event("chunk", chunk)) /\ UNCHANGED <<step, result>>
     \/ Finish("raised", <<>>)                \* a chunk that cannot be serialised
  /\ UNCHANGED <<request, bundle, sent, client, exit, edits, runs>>

StreamEnds ==
  /\ step = "stream"
  /\ Finish("CAPTURED", <<Event("request_end", {})>>)
  /\ UNCHANGED <<request, bundle, sent, client, exit, edits, runs>>

HeadersRecordedTwice ==
  /\ step \in {"send", "stream"}
  /\ \E response \in {<<>>} \cup {<<Event("response_headers", {status})>> : status \in Status},
        text \in Texts :
       Finish("REQUEST_FAILED", Append(response, Event("request_error", text)))
  /\ UNCHANGED <<request, bundle, sent, client, exit, edits, runs>>

FailedRequestSentAgain ==
  /\ step \in {"send", "stream"}
  /\ step' = "send" /\ capture' = <<Event("request_start", {})>>
  /\ UNCHANGED <<request, bundle, sent, client, result, exit, edits, runs>>

(* The SDK raises, from create or from the iteration, with or without a     *)
(* response; its headers are recorded unless they already were.             *)
RequestFails ==
  /\ step \in {"send", "stream"}
  /\ \E response \in {<<>>} \cup {<<Event("response_headers", {status})>> : status \in Status},
        text \in Texts :
       Finish("REQUEST_FAILED", Append(IF ResponseRecorded THEN <<>> ELSE response,
                                       Event("request_error", text)))
  /\ UNCHANGED <<request, bundle, sent, client, exit, edits, runs>>

(* The finally clause; an error of close() itself is only noted. *)
CloseClient ==
  /\ step = "close"
  /\ client' = "closed"
  /\ IF result = "raised" THEN Exit("2") ELSE step' = "check" /\ UNCHANGED exit
  /\ UNCHANGED <<request, bundle, sent, capture, result, edits, runs>>

----------------------------------------------------------------------------
(* build_inference_bundle: checks the directory and the request once more,  *)
(* then analyses, and only then begins to write.                            *)

CheckRequest ==
  /\ step = "check"
  /\ CASE ~DirectoryIsEmpty \/ request \in {Rejected, Absent} -> Exit("2")
       [] DirectoryIsEmpty /\ request = Undecodable           -> Exit("1")
       [] DirectoryIsEmpty /\ request \in Request             -> step' = "analyze" /\ UNCHANGED exit
  /\ UNCHANGED <<request, bundle, sent, client, capture, result, edits, runs>>

AnalyzeCapture ==
  /\ step = "analyze"
  /\ IF Analyzable(capture)
     THEN /\ bundle' = [bundle EXCEPT !.raw = TRUE]
          /\ step' = "copy request" /\ UNCHANGED exit
     ELSE Exit("2") /\ UNCHANGED bundle
  /\ UNCHANGED <<request, sent, client, capture, result, edits, runs>>

CopyRequest ==
  /\ step = "copy request"
  /\ IF request = Absent THEN Exit("2") ELSE step' = "copy capture" /\ UNCHANGED exit
  /\ bundle' = [bundle EXCEPT !.request = request]
  /\ UNCHANGED <<request, sent, client, capture, result, edits, runs>>

CopyCapture ==
  /\ step = "copy capture"
  /\ bundle' = [bundle EXCEPT !.capture = capture]
  /\ step' = "write analysis"
  /\ UNCHANGED <<request, sent, client, capture, result, exit, edits, runs>>

WriteAnalysis ==
  /\ step = "write analysis"
  /\ bundle' = [bundle EXCEPT !.analysis = Analysis(capture)]
  /\ step' = "open manifest"
  /\ UNCHANGED <<request, sent, client, capture, result, exit, edits, runs>>

(* write_text truncates, then fills.  The manifest is written twice: by the *)
(* bundle builder, and again with the runner's provenance.                  *)
OpenManifest ==
  /\ step \in {"open manifest", "reopen manifest"}
  /\ bundle' = [bundle EXCEPT !.manifest.state = "torn"]
  /\ step' = IF step = "open manifest" THEN "fill manifest" ELSE "add provenance"
  /\ UNCHANGED <<request, sent, client, capture, result, exit, edits, runs>>

ManifestBeforeCopies ==
  /\ step = "fill manifest"
  /\ bundle' = [bundle EXCEPT !.manifest =
       [state |-> "complete", runner |-> FALSE, request |-> sent,
        capture |-> bundle.capture, analysis |-> bundle.analysis]]
  /\ step' = "reopen manifest"
  /\ UNCHANGED <<request, sent, client, capture, result, exit, edits, runs>>

FillManifest ==
  /\ step = "fill manifest"
  /\ bundle' = [bundle EXCEPT !.manifest =
       [state |-> "complete", runner |-> FALSE, request |-> bundle.request,
        capture |-> bundle.capture, analysis |-> bundle.analysis]]
  /\ step' = "reopen manifest"
  /\ UNCHANGED <<request, sent, client, capture, result, exit, edits, runs>>

SuccessOfTheCall ==
  /\ step = "add provenance"
  /\ bundle' = [bundle EXCEPT !.manifest.state = "complete", !.manifest.runner = TRUE]
  /\ Exit(IF result = "CAPTURED" THEN "0" ELSE "1")
  /\ UNCHANGED <<request, sent, client, capture, result, edits, runs>>

AddProvenance ==
  /\ step = "add provenance"
  /\ bundle' = [bundle EXCEPT !.manifest.state = "complete", !.manifest.runner = TRUE]
  /\ Exit(IF bundle.analysis.status = "COMPLETE" THEN "0" ELSE "1")
  /\ UNCHANGED <<request, sent, client, capture, result, edits, runs>>

----------------------------------------------------------------------------
(* The surroundings: a user who edits the request or clears the directory   *)
(* before another run, and a kill.                                          *)

EditRequest(content) ==
  /\ edits < MaxEdits
  /\ content # request
  /\ request' = content
  /\ edits' = edits + 1
  /\ UNCHANGED <<bundle, step, sent, client, capture, result, exit, runs>>

ClearDirectory ==
  /\ step = "idle" /\ bundle # EmptyDir
  /\ bundle' = EmptyDir /\ exit' = "none"
  /\ UNCHANGED <<request, step, sent, client, capture, result, edits, runs>>

Kill ==
  /\ step # "idle"
  /\ Exit("killed") /\ client' = "none"
  /\ UNCHANGED <<request, bundle, sent, capture, result, edits, runs>>

Init ==
  /\ request \in FileContents
  /\ bundle = EmptyDir
  /\ step = "idle" /\ sent = Absent /\ client = "none"
  /\ capture = <<>> /\ result = "none" /\ exit = "none"
  /\ edits = 0 /\ runs = 0

RunnerStep ==
  \/ LoadRequest \/ Connect
  \/ ReceiveHeaders \/ ReceiveChunk \/ StreamEnds \/ RequestFails \/ CloseClient
  \/ CheckRequest \/ AnalyzeCapture \/ CopyRequest \/ CopyCapture \/ WriteAnalysis
  \/ OpenManifest \/ FillManifest \/ AddProvenance

Next ==
  \/ Start
  \/ RunnerStep
  \/ \E content \in FileContents : EditRequest(content)
  \/ ClearDirectory
  \/ Kill

Spec == Init /\ [][Next]_vars

(* The run is a sequential program, and every SDK call returns or raises    *)
(* within the client's timeout.                                             *)
FairSpec == Spec /\ WF_vars(RunnerStep)

----------------------------------------------------------------------------
(* Every variable has the shape given above. *)
TypeOK ==
  /\ request \in FileContents /\ sent \in FileContents
  /\ bundle.raw \in BOOLEAN /\ bundle.request \in FileContents
  /\ bundle.capture \in Seq(Events) /\ capture \in Seq(Events)
  /\ bundle.analysis.status \in {"absent", "COMPLETE", "REQUEST_FAILED"}
  /\ bundle.manifest.state \in {"absent", "torn", "complete"}
  /\ client \in {"none", "open", "closed"}
  /\ result \in {"none", "raised", "CAPTURED", "REQUEST_FAILED"}
  /\ exit \in {"none", "killed", "0", "1", "2", "4"}
  /\ edits \in 0 .. MaxEdits /\ runs \in 0 .. MaxRuns

(* Whenever a readable manifest is in the directory, be it after a kill,    *)
(* the bundle is whole: the files it lists are those present, and the       *)
(* analysis is the analysis of the capture beside it.                       *)
BundleIsWhole ==
  bundle.manifest.state = "complete" =>
    /\ bundle.manifest.request = bundle.request
    /\ bundle.manifest.capture = bundle.capture /\ Analyzable(bundle.capture)
    /\ bundle.manifest.analysis = bundle.analysis
    /\ bundle.analysis = Analysis(bundle.capture)

(* Exit code 0 means a bundle with provenance of a stream that ended and    *)
(* had a 2xx status.                                                        *)
ZeroMeansComplete ==
  exit = "0" =>
    /\ bundle.manifest.state = "complete" /\ bundle.manifest.runner
    /\ Last(bundle.capture).event = "request_end"
    /\ "2xx" \in Details(bundle.capture, "response_headers")

(* A run whose capture was returned ends without a bundle only for what the *)
(* provider sent, as long as nobody touches the request: a character the    *)
(* capture cannot be split at, a status that is none, or figures that are   *)
(* malformed or contradict each other.  The lines written by the runner     *)
(* itself always satisfy the analyzer's rules on structure.                 *)
RejectionHasReason ==
  exit = "2" /\ result \in {"CAPTURED", "REQUEST_FAILED"} /\ edits = 0 =>
    \/ \E i \in DOMAIN capture : "separator" \in capture[i].detail
    \/ "outside 100..599" \in Details(capture, "response_headers")
    \/ ~FiguresAgree(Details(capture, "chunk"))

(* A finished bundle is never changed by a run of the command on the same   *)
(* directory: only the user removes it.                                     *)
BundleIsKept ==
  [][bundle.manifest.state = "complete" /\ bundle.manifest.runner =>
       bundle' \in {bundle, EmptyDir}]_vars

(* A run that is started ends. *)
RunEnds == step # "idle" ~> step = "idle"

(* docs/CEREBRAS_CLOUD_RUNNER.md:9:  "A successful bundle proves that the   *)
(* preserved request, timestamped response stream, derived metrics, and     *)
(* manifest-listed files are mutually consistent": the request preserved is *)
(* the one the stream answers.                                              *)
PreservedRequestWasSent == exit = "0" => bundle.request = sent

(* docs/CEREBRAS_CLOUD_RUNNER.md:3: the command "immediately packages the   *)
(* observed stream as a verifiable evidence bundle": a stream that ended    *)
(* with a valid status and figures that agree is packaged, whatever its     *)
(* text.                                                                    *)
ObservedStreamIsPackaged ==
  exit = "2" /\ result = "CAPTURED" /\ edits = 0 =>
    \/ "outside 100..599" \in Details(capture, "response_headers")
    \/ ~FiguresAgree(Details(capture, "chunk"))

(* docs/CEREBRAS_CLOUD_RUNNER.md, exit codes: "`1`: a real HTTP, streaming, *)
(* or network failure was captured and packaged as `REQUEST_FAILED`".       *)
OneMeansPackagedFailure ==
  exit = "1" => bundle.manifest.state = "complete" /\ bundle.analysis.status = "REQUEST_FAILED"
=============================================================================
