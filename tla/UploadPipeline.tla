--------------------------- MODULE UploadPipeline ---------------------------
(***************************************************************************)
(* What the server does with an uploaded document: /ocr, /extract and      *)
(* /process (app.py), which POST /review/cases runs as well, from the      *)
(* bounded read (ingestion/) over the scan (scanning/), OCR (ocr/),        *)
(* extraction, verification and explanation to the verdict (processing/).  *)
(*                                                                         *)
(* A request is a task of the event loop.  Scanning and OCR are jobs that  *)
(* run in worker threads; a task that gives up waiting for its job, by a   *)
(* timeout or because it is cancelled, leaves the thread running.          *)
(***************************************************************************)
EXTENDS Integers, Sequences, FiniteSets

CONSTANTS Requests,
          Environments,   \* the environments a process may start in
          Severity,       \* the severities findings may have
          Commands,       \* Tesseract commands a process may be given
          NoCommand,      \* TESSERACT_CMD is not set
          DefaultCommand, \* pytesseract's own command
          Nobody,
          Workers,        \* threads of the default executor
          ImageBudget,    \* MAX_PAGE_IMAGE_BUNDLE_BYTES, in units
          MaxImage,       \* size of the largest page image, in units
          MaxPages,       \* MAX_PDF_PAGES
          MaxFindings,    \* bound on the findings of a verification
          MaxCancels      \* bound on cancelled requests

ASSUME NobodyAssumption == Nobody \notin Requests
ASSUME CommandAssumption ==
    NoCommand \notin Commands /\ DefaultCommand \notin {NoCommand}
ASSUME SeverityAssumption == Severity \subseteq {"info", "low", "medium", "high"}
ASSUME BoundAssumption ==
    /\ {Workers, MaxImage, MaxPages} \subseteq Nat \ {0}
    /\ {ImageBudget, MaxFindings, MaxCancels} \subseteq Nat

Route == {"ocr", "extract", "process"}

(* What the process environment says: of scanning, whether the provider    *)
(* that extraction and explanation share is configured, whether Tesseract's*)
(* language and timeout are valid, and its command.                        *)
Settings == [scanning : {"off", "on", "invalid"},
             provider : BOOLEAN,
             engine   : BOOLEAN,
             command  : Commands \cup {NoCommand}]

Rank == [info |-> 0, low |-> 1, medium |-> 2, high |-> 3]

(* ExplanationDraft: the finding a narrative is about, and whether         *)
(* _contains_untrusted_claim lets it through.                              *)
Draft == [finding_index : Nat, trusted : BOOLEAN]

Status == {"none", "ok", "invalid", "rejected", "unprocessable",
           "unavailable", "error", "cancelled"}

ASSUME EnvironmentAssumption == Environments \subseteq Settings

VARIABLES
    settings,     \* the environment
    pc,           \* where each request's task is
    route,        \* the route of each request
    status,       \* its answer
    scanner,      \* its scan: the thread's state, then the scanner's verdict
    scans,        \* TelemetryRegistry._scans
    quarantined,  \* requests whose bytes were put in quarantine
    pages,        \* pages of the decoded document
    clients,      \* provider clients the request has open
    job,          \* its OCR thread, then the thread's outcome
    read,         \* pages the OCR thread has recognised
    held,         \* bytes of the page images it has encoded
    images,       \* page images in its result
    temporary,    \* requests whose temporary directory exists
    lock,         \* the owner of _TESSERACT_LOCK
    command,      \* pytesseract.pytesseract.tesseract_cmd
    previous,     \* previous_command of each thread
    findings,     \* severities of the findings, in order
    explanations, \* one [finding, narrative, source] for each finding
    verdict,
    cancels       \* requests cancelled so far

scanVars == <<scanner, scans, quarantined>>
ocrVars == <<job, read, held, images, temporary, lock, command, previous>>
resultVars == <<findings, explanations, verdict>>
vars == <<settings, pc, route, status, scanVars, pages, clients, ocrVars,
          resultVars, cancels>>

NoVerdict == [status |-> "none", count |-> 0, highest |-> "none"]

-----------------------------------------------------------------------------
(* Worker threads.                                                         *)

ScanRunning(r) == scanner[r] = "running"
OcrRunning(r) == job[r] \in {"page", "waiting", "recognising"}

Busy == Cardinality({r \in Requests : ScanRunning(r)})
            + Cardinality({r \in Requests : OcrRunning(r)})
FreeWorker == Busy < Workers

(* The task stops with an answer and its request-scoped clients are closed *)
(* next.                                                                   *)
AnswerWith(r, s) ==
    /\ pc' = [pc EXCEPT ![r] = "close"]
    /\ status' = [status EXCEPT ![r] = s]

GoTo(r, where) ==
    /\ pc' = [pc EXCEPT ![r] = where]
    /\ UNCHANGED status

Arrive(r) ==
    /\ pc[r] = "idle"
    /\ \E p \in Route : route' = [route EXCEPT ![r] = p]
    /\ GoTo(r, "upload")
    /\ UNCHANGED <<settings, scanVars, pages, clients, ocrVars, resultVars,
                   cancels>>

(* scan_upload_bytes reads its settings: scanning that is configured badly *)
(* refuses the upload and counts nothing.  A quarantine whose directories  *)
(* cannot be made raises outside its try.                                  *)
BeginScan(r) ==
    \/ /\ settings.scanning = "invalid"
       /\ AnswerWith(r, "unavailable")
       /\ UNCHANGED scanner
    \/ /\ settings.scanning = "off"
       /\ GoTo(r, "decode")
       /\ UNCHANGED scanner
    \/ /\ settings.scanning = "on"
       /\ GoTo(r, "scan")
       /\ scanner' = [scanner EXCEPT ![r] = "queued"]
    \/ /\ settings.scanning = "on"
       /\ AnswerWith(r, "error")
       /\ UNCHANGED scanner

(* read_bounded_upload and validate_upload_head: empty, too large, of an   *)
(* unsupported type or of another type than declared; or scanned next.     *)
ReadUpload(r) ==
    /\ pc[r] = "upload"
    /\ FreeWorker
    /\ \/ BeginScan(r)
       \/ AnswerWith(r, "invalid") /\ UNCHANGED scanner
    /\ UNCHANGED <<settings, route, scans, quarantined, pages, clients,
                   ocrVars, resultVars, cancels>>

ScanStart(r) ==
    /\ scanner[r] = "queued"
    /\ FreeWorker
    /\ scanner' = [scanner EXCEPT ![r] = "running"]
    /\ UNCHANGED <<settings, pc, route, status, scans, quarantined, pages,
                   clients, ocrVars, resultVars, cancels>>

(* The thread ends; nobody sees the verdict of a scan that was given up.   *)
ScanEnd(r) ==
    /\ ScanRunning(r)
    /\ \E v \in {"clean", "found", "failed"} :
           scanner' = [scanner EXCEPT ![r] = IF pc[r] = "scan" THEN v
                                                               ELSE "ended"]
    /\ UNCHANGED <<settings, pc, route, status, scans, quarantined, pages,
                   clients, ocrVars, resultVars, cancels>>

Counted(outcome) == scans' = [scans EXCEPT ![outcome] = @ + 1]

(* A job the task no longer waits for: it never starts, its outcome is     *)
(* never seen, but a running thread goes on.                               *)
GivenUp(thread) ==
    IF thread \in {"running", "page", "waiting", "recognising"} THEN thread
                                                                ELSE "ended"

(* Mutant: a scan whose deadline passes lets the upload through.           *)
ScanTimeoutPasses(r) ==
    /\ pc[r] = "scan"
    /\ scanner' = [scanner EXCEPT ![r] = GivenUp(@)]
    /\ Counted("unavailable")
    /\ GoTo(r, "decode")
    /\ UNCHANGED <<settings, route, quarantined, pages, clients, ocrVars,
                   resultVars, cancels>>

(* The deadline of wait_for, which may pass with the verdict already there.*)
ScanTimeout(r) ==
    /\ pc[r] = "scan"
    /\ scanner' = [scanner EXCEPT ![r] = GivenUp(@)]
    /\ Counted("unavailable")
    /\ AnswerWith(r, "unavailable")
    /\ UNCHANGED <<settings, route, quarantined, pages, clients, ocrVars,
                   resultVars, cancels>>

ScanClean(r) ==
    /\ pc[r] = "scan" /\ scanner[r] = "clean"
    /\ Counted("clean")
    /\ GoTo(r, "decode")
    /\ UNCHANGED <<settings, route, scanner, quarantined, pages, clients,
                   ocrVars, resultVars, cancels>>

ScanFound(r) ==
    /\ pc[r] = "scan" /\ scanner[r] = "found"
    /\ Counted("rejected")
    /\ quarantined' = quarantined \cup {r}
    /\ AnswerWith(r, "rejected")
    /\ UNCHANGED <<settings, route, scanner, pages, clients, ocrVars,
                   resultVars, cancels>>

(* Mutant: a detection is counted before it is kept.                       *)
ScanUnavailableCountsRejected(r) ==
    /\ pc[r] = "scan" /\ scanner[r] \in {"failed", "found"}
    /\ Counted(IF scanner[r] = "found" THEN "rejected" ELSE "unavailable")
    /\ AnswerWith(r, "unavailable")
    /\ UNCHANGED <<settings, route, scanner, quarantined, pages, clients,
                   ocrVars, resultVars, cancels>>

(* Mutant: a scanner that failed is asked again, and again.                *)
ScanUnavailableRetries(r) ==
    /\ pc[r] = "scan" /\ scanner[r] = "failed"
    /\ scanner' = [scanner EXCEPT ![r] = "queued"]
    /\ UNCHANGED <<settings, pc, route, status, scans, quarantined, pages,
                   clients, ocrVars, resultVars, cancels>>

(* The scanner failed, or it found something that cannot be quarantined.   *)
ScanUnavailable(r) ==
    /\ pc[r] = "scan" /\ scanner[r] \in {"failed", "found"}
    /\ Counted("unavailable")
    /\ AnswerWith(r, "unavailable")
    /\ UNCHANGED <<settings, route, scanner, quarantined, pages, clients,
                   ocrVars, resultVars, cancels>>

(* decode_validated_upload: pages and pixels within their limits.          *)
Decode(r) ==
    /\ pc[r] = "decode"
    /\ FreeWorker
    /\ \/ /\ \E n \in 1..MaxPages : pages' = [pages EXCEPT ![r] = n]
          /\ GoTo(r, "depend")
       \/ AnswerWith(r, "invalid") /\ UNCHANGED pages
    /\ UNCHANGED <<settings, route, scanVars, clients, ocrVars, resultVars,
                   cancels>>

-----------------------------------------------------------------------------
(* Dependencies, in the order their parameters name them: the engine, the  *)
(* extractor, the reference store, the explainer.                          *)

WantsExtraction(r) == route[r] \in {"extract", "process"}

CanStart(r) == settings.engine /\ (WantsExtraction(r) => settings.provider)

Opened(r) == {c \in {"extractor", "explainer"} :
                  \/ route[r] = "process"
                  \/ route[r] = "extract" /\ c = "extractor"}

Depend(r) ==
    /\ pc[r] = "depend"
    /\ \/ /\ CanStart(r)
          /\ clients' = [clients EXCEPT ![r] = Opened(r)]
          /\ job' = [job EXCEPT ![r] = "queued"]
          /\ GoTo(r, "ocr")
       \/ /\ ~CanStart(r)
          /\ AnswerWith(r, "unavailable")
          /\ UNCHANGED <<clients, job>>
       \/ \* the reference store cannot be opened
          /\ CanStart(r) /\ route[r] = "process"
          /\ clients' = [clients EXCEPT ![r] = {"extractor"}]
          /\ AnswerWith(r, "unavailable")
          /\ UNCHANGED job
    /\ UNCHANGED <<settings, route, scanVars, pages, read, held, images,
                   temporary, lock, command, previous, resultVars, cancels>>

-----------------------------------------------------------------------------
(* OCRService._process, in its thread.                                     *)

(* Mutant: the directory is removed only after the last page.              *)
OcrEndsKeepingFailed(r, outcome) ==
    /\ job' = [job EXCEPT ![r] = outcome]
    /\ temporary' = IF outcome = "ok" THEN temporary \ {r} ELSE temporary

(* The with statement removes the directory on the way out, whoever waits. *)
OcrEnds(r, outcome) ==
    /\ job' = [job EXCEPT ![r] = outcome]
    /\ temporary' = temporary \ {r}

OcrStart(r) ==
    /\ job[r] = "queued"
    /\ FreeWorker
    /\ \/ /\ temporary' = temporary \cup {r}
          /\ job' = [job EXCEPT ![r] = "page"]
       \/ OcrEnds(r, "unprocessable")
    /\ UNCHANGED <<settings, pc, route, status, scanVars, pages, clients, read,
                   held, images, lock, command, previous, resultVars, cancels>>

(* Mutant: each image is held to the whole budget.                         *)
FitsAlone(r, size) == size <= ImageBudget

(* _BoundedBytesIO: what is left of the budget of the document.            *)
Fits(r, size) == size <= ImageBudget - held[r]

(* One more page is rendered and, for extraction, encoded as an image that *)
(* must fit what is left of the budget.                                    *)
RenderPage(r) ==
    /\ job[r] = "page"
    /\ read[r] < pages[r]
    /\ \/ /\ job' = [job EXCEPT ![r] = "waiting"]
          /\ IF WantsExtraction(r)
             THEN \E size \in 1..MaxImage :
                      /\ Fits(r, size)
                      /\ held' = [held EXCEPT ![r] = @ + size]
             ELSE UNCHANGED held
          /\ UNCHANGED temporary
       \/ OcrEnds(r, "unprocessable") /\ UNCHANGED held
    /\ UNCHANGED <<settings, pc, route, status, scanVars, pages, clients, read,
                   images, lock, command, previous, resultVars, cancels>>

TakeEngine(r) ==
    /\ job[r] = "waiting"
    /\ lock = Nobody
    /\ lock' = r
    /\ previous' = [previous EXCEPT ![r] = command]
    /\ command' = IF settings.command = NoCommand THEN command
                                                  ELSE settings.command
    /\ job' = [job EXCEPT ![r] = "recognising"]
    /\ UNCHANGED <<settings, pc, route, status, scanVars, pages, clients, read,
                   held, images, temporary, resultVars, cancels>>

(* Mutant: the command stays what this process set.                        *)
LeaveEngineKeepsCommand(r) ==
    /\ job[r] = "recognising"
    /\ command' = command
    /\ lock' = Nobody

LeaveEngine(r) ==
    /\ job[r] = "recognising"
    /\ command' = previous[r]
    /\ lock' = Nobody

(* TesseractEngine.recognize returns, fails or times out, or its output is *)
(* malformed.                                                              *)
Recognize(r) ==
    /\ LeaveEngine(r)
    /\ \/ /\ read' = [read EXCEPT ![r] = @ + 1]
          /\ images' = IF WantsExtraction(r)
                       THEN [images EXCEPT ![r] = @ + 1]
                       ELSE images
          /\ job' = [job EXCEPT ![r] = "page"]
          /\ UNCHANGED temporary
       \/ \E outcome \in {"unavailable", "unprocessable"} :
              OcrEnds(r, outcome) /\ UNCHANGED <<read, images>>
    /\ UNCHANGED <<settings, pc, route, status, scanVars, pages, clients,
                   held, previous, resultVars, cancels>>

OcrFinish(r) ==
    /\ job[r] = "page"
    /\ read[r] = pages[r]
    /\ OcrEnds(r, "ok")
    /\ UNCHANGED <<settings, pc, route, status, scanVars, pages, clients, read,
                   held, images, lock, command, previous, resultVars, cancels>>

(* The task takes up the outcome of its thread.                            *)
OcrAnswered(r) ==
    /\ pc[r] = "ocr"
    /\ job[r] \in {"ok", "unavailable", "unprocessable"}
    /\ IF job[r] = "ok" /\ WantsExtraction(r) THEN GoTo(r, "extract")
                                              ELSE AnswerWith(r, job[r])
    /\ UNCHANGED <<settings, route, scanVars, pages, clients, ocrVars,
                   resultVars, cancels>>

-----------------------------------------------------------------------------
(* Extraction, verification, explanation, verdict.                         *)

(* What a provider call that fails or misses its deadline answers, and one *)
(* whose reply cannot be parsed.                                           *)
ExtractionFailures == {"unavailable", "unprocessable"}

(* The provider fails or misses its deadline; it returns something that is *)
(* no extraction, or one whose evidence names a page or a span that is not *)
(* there (_evidence_is_grounded); or it returns a grounded extraction.     *)
Extract(r) ==
    /\ pc[r] = "extract"
    /\ FreeWorker
    /\ \/ \E s \in ExtractionFailures : AnswerWith(r, s)
       \/ route[r] = "extract" /\ AnswerWith(r, "ok")
       \/ route[r] = "process" /\ GoTo(r, "verify")
    /\ UNCHANGED <<settings, route, scanVars, pages, clients, ocrVars,
                   resultVars, cancels>>

SeqUpTo(S, n) == UNION {[1..k -> S] : k \in 0..n}

Verify(r) ==
    /\ pc[r] = "verify"
    /\ FreeWorker
    /\ \/ \E f \in SeqUpTo(Severity, MaxFindings) :
              findings' = [findings EXCEPT ![r] = f] /\ GoTo(r, "explain")
       \/ AnswerWith(r, "unavailable") /\ UNCHANGED findings
    /\ UNCHANGED <<settings, route, scanVars, pages, clients, ocrVars,
                   explanations, verdict, cancels>>

(* validated_narratives: every index exactly once, every narrative safe.   *)
Usable(n, drafts) ==
    /\ Len(drafts) = n
    /\ {drafts[k].finding_index : k \in 1..n} = 0..(n - 1)
    /\ \A k \in 1..n : drafts[k].trusted

(* Mutant: narratives are taken in the order of the reply.                 *)
NarrativesAsReplied(n, drafts) == drafts

Narratives(n, drafts) ==
    [i \in 1..n |-> CHOOSE d \in {drafts[k] : k \in 1..n} :
                        d.finding_index = i - 1]

Rendered(n) ==
    [i \in 1..n |-> [finding |-> i, source |-> "deterministic",
                     narrative |-> [finding_index |-> i - 1, trusted |-> TRUE]]]

Guided(n, drafts) ==
    [i \in 1..n |-> [finding |-> i, source |-> "llm",
                     narrative |-> Narratives(n, drafts)[i]]]

(* What a provider may return: drafts about findings that exist or not.    *)
Drafts == SeqUpTo([finding_index : 0..MaxFindings, trusted : BOOLEAN],
                  MaxFindings)

Highest(f) == CHOOSE s \in {f[k] : k \in 1..Len(f)} :
                  \A k \in 1..Len(f) : Rank[f[k]] <= Rank[s]

DeriveVerdict(f) ==
    IF f = <<>> THEN [status |-> "clear", count |-> 0, highest |-> "none"]
    ELSE [status |-> "review_required", count |-> Len(f),
          highest |-> Highest(f)]

(* ExplanationService.explain asks the provider when there is something to *)
(* explain, and falls back when anything is wrong with its answer; the     *)
(* verdict is derived next, from the findings alone.                       *)
Explain(r) ==
    /\ pc[r] = "explain"
    /\ LET n == Len(findings[r]) IN
       \/ explanations' = [explanations EXCEPT ![r] = Rendered(n)]
       \/ /\ n > 0
          /\ \E drafts \in Drafts :
                 explanations' = [explanations EXCEPT ![r] =
                     IF Usable(n, drafts) THEN Guided(n, drafts)
                                          ELSE Rendered(n)]
    /\ verdict' = [verdict EXCEPT ![r] = DeriveVerdict(findings[r])]
    /\ AnswerWith(r, "ok")
    /\ UNCHANGED <<settings, route, scanVars, pages, clients, ocrVars,
                   findings, cancels>>

(* What a task held of its document is gone with it, unless the OCR thread *)
(* it gave up still uses it.                                               *)
Dropped(f, r) == IF OcrRunning(r) THEN f ELSE [f EXCEPT ![r] = 0]

(* Dependencies with a yield are torn down and close their clients.        *)
Close(r) ==
    /\ pc[r] = "close"
    /\ clients' = [clients EXCEPT ![r] = {}]
    /\ findings' = [findings EXCEPT ![r] = <<>>]
    /\ explanations' = [explanations EXCEPT ![r] = <<>>]
    /\ verdict' = [verdict EXCEPT ![r] = NoVerdict]
    /\ pages' = Dropped(pages, r)
    /\ read' = Dropped(read, r)
    /\ held' = Dropped(held, r)
    /\ images' = Dropped(images, r)
    /\ GoTo(r, "done")
    /\ UNCHANGED <<settings, route, scanVars, job, temporary, lock, command,
                   previous, cancels>>

(* The task is cancelled where it waits; a job that is running goes on.    *)
Cancel(r) ==
    /\ pc[r] \in {"upload", "scan", "decode", "depend", "ocr", "extract",
                  "verify", "explain"}
    /\ cancels < MaxCancels
    /\ cancels' = cancels + 1
    /\ scanner' = [scanner EXCEPT ![r] = IF pc[r] = "scan" THEN GivenUp(@)
                                                           ELSE @]
    /\ job' = [job EXCEPT ![r] = IF pc[r] = "ocr" THEN GivenUp(@) ELSE @]
    /\ AnswerWith(r, "cancelled")
    /\ UNCHANGED <<settings, route, scans, quarantined, pages, clients, read,
                   held, images, temporary, lock, command, previous, resultVars>>

-----------------------------------------------------------------------------
Init ==
    /\ settings \in Environments
    /\ pc = [r \in Requests |-> "idle"]
    /\ route = [r \in Requests |-> "ocr"]
    /\ status = [r \in Requests |-> "none"]
    /\ scanner = [r \in Requests |-> "none"]
    /\ scans = [o \in {"clean", "rejected", "unavailable"} |-> 0]
    /\ quarantined = {}
    /\ pages = [r \in Requests |-> 0]
    /\ clients = [r \in Requests |-> {}]
    /\ job = [r \in Requests |-> "none"]
    /\ read = [r \in Requests |-> 0]
    /\ held = [r \in Requests |-> 0]
    /\ images = [r \in Requests |-> 0]
    /\ temporary = {}
    /\ lock = Nobody
    /\ command = DefaultCommand
    /\ previous = [r \in Requests |-> DefaultCommand]
    /\ findings = [r \in Requests |-> <<>>]
    /\ explanations = [r \in Requests |-> <<>>]
    /\ verdict = [r \in Requests |-> NoVerdict]
    /\ cancels = 0

Task(r) ==
    \/ ReadUpload(r) \/ ScanTimeout(r) \/ ScanClean(r) \/ ScanFound(r)
    \/ ScanUnavailable(r) \/ Decode(r) \/ Depend(r) \/ OcrAnswered(r)
    \/ Extract(r) \/ Verify(r) \/ Explain(r) \/ Close(r)

ScanThread(r) == ScanStart(r) \/ ScanEnd(r)

OcrThread(r) ==
    \/ OcrStart(r) \/ RenderPage(r) \/ TakeEngine(r) \/ Recognize(r)
    \/ OcrFinish(r)

AllDone == (\A r \in Requests : pc[r] = "done") /\ Busy = 0

Next ==
    \/ \E r \in Requests :
           Arrive(r) \/ Task(r) \/ ScanThread(r) \/ OcrThread(r) \/ Cancel(r)
    \/ AllDone /\ UNCHANGED vars

Spec == Init /\ [][Next]_vars

(* Every task is run again once what it waits for is there or its deadline *)
(* has passed (the scan's timeout, 120 seconds for a provider, SQLite's    *)
(* five seconds); a scan ends by the timeout of its socket and a page by   *)
(* Tesseract's.                                                            *)
FairSpec ==
    /\ Spec
    /\ \A r \in Requests : /\ WF_vars(Task(r))
                           /\ WF_vars(ScanThread(r))
                           /\ WF_vars(OcrThread(r))

-----------------------------------------------------------------------------
(* Properties.                                                             *)

Place == {"idle", "upload", "scan", "decode", "depend", "ocr", "extract",
          "verify", "explain", "close", "done"}

TaskTypeOK ==
    /\ settings \in Settings
    /\ pc \in [Requests -> Place]
    /\ route \in [Requests -> Route]
    /\ status \in [Requests -> Status]
    /\ pages \in [Requests -> 0..MaxPages]
    /\ clients \in [Requests -> SUBSET {"extractor", "explainer"}]
    /\ cancels \in 0..MaxCancels

ScanTypeOK ==
    /\ scanner \in [Requests -> {"none", "queued", "running", "clean", "found",
                                 "failed", "ended"}]
    /\ scans \in [{"clean", "rejected", "unavailable"} -> Nat]
    /\ quarantined \subseteq Requests

OcrTypeOK ==
    /\ job \in [Requests -> {"none", "queued", "page", "waiting", "recognising",
                             "ok", "unavailable", "unprocessable", "ended"}]
    /\ read \in [Requests -> 0..MaxPages]
    /\ held \in [Requests -> 0..ImageBudget]
    /\ images \in [Requests -> 0..MaxPages]
    /\ temporary \subseteq Requests
    /\ lock \in Requests \cup {Nobody}
    /\ command \in Commands \cup {DefaultCommand}
    /\ previous \in [Requests -> Commands \cup {DefaultCommand}]

Explanation == [finding : Nat, source : {"deterministic", "llm"},
                narrative : Draft]

Verdict == [status : {"none", "clear", "review_required"}, count : Nat,
            highest : Severity \cup {"none"}]

ResultTypeOK ==
    /\ findings \in [Requests -> Seq(Severity)]
    /\ explanations \in [Requests -> Seq(Explanation)]
    /\ verdict \in [Requests -> Verdict]

(* The type invariant; the images of a document stay within its budget.    *)
TypeOK == TaskTypeOK /\ ScanTypeOK /\ OcrTypeOK /\ ResultTypeOK

Beyond(r) == pc[r] \in {"depend", "ocr", "extract", "verify", "explain"}

(* Scanning fails closed.  With scanning on, bytes that reach the decoder, *)
(* the engine or a provider were answered "clean" by their own scan; with  *)
(* invalid settings none reach them; bytes are refused as malicious        *)
(* exactly when they are in quarantine; and no late verdict of a scan that *)
(* was given up changes an answer.                                         *)
FailsClosed ==
    \A r \in Requests :
        /\ \/ Beyond(r) \/ pc[r] = "decode" \/ job[r] # "none"
           \/ status[r] = "ok"
           => /\ settings.scanning # "invalid"
              /\ settings.scanning = "on" => scanner[r] = "clean"
        /\ status[r] = "rejected" <=> r \in quarantined
        /\ r \in quarantined => scanner[r] = "found"

(* The scan counters are what the answers say: one "clean" for each upload *)
(* decoded after a scan, one "rejected" for each refusal, one              *)
(* "unavailable" for each scan that was tried and got no answer.           *)
ScansAccounted ==
    /\ scans["rejected"] = Cardinality(quarantined)
    /\ scans["clean"] = Cardinality({r \in Requests : /\ scanner[r] = "clean"
                                                      /\ pc[r] # "scan"})
    /\ scans["unavailable"] =
           Cardinality({r \in Requests : /\ scanner[r] \notin {"none", "clean"}
                                         /\ status[r] = "unavailable"})

(* One page is recognised at a time, with the command this process was     *)
(* given; and whenever nobody recognises, pytesseract has its own command  *)
(* back, whatever way the recognition ended.                               *)
EngineRestored ==
    /\ \A r \in Requests : job[r] = "recognising" <=> lock = r
    /\ command = IF lock = Nobody \/ settings.command = NoCommand
                 THEN DefaultCommand
                 ELSE settings.command

(* A document is on disk only while its OCR thread runs, and a provider    *)
(* client is open only while its request does: nothing is left behind by   *)
(* a failure, a refused dependency, a timeout or a cancelled request.      *)
NothingLeft ==
    /\ \A r \in Requests : r \in temporary <=> OcrRunning(r)
    /\ \A r \in Requests : pc[r] \in {"idle", "done"} => clients[r] = {}
    /\ \A r \in Requests : pc[r] \in {"extract", "verify"} => "extractor" \in clients[r]

(* Whatever ends a request, and whenever, puts everything back: the file   *)
(* on disk, the provider's clients and the engine's global command.        *)
ResourcesRestored == EngineRestored /\ NothingLeft

(* What a successful answer holds: every page read and, for extraction,    *)
(* paired with an image inside the budget; one explanation for each        *)
(* finding, about that finding and never with a claim of the provider, all *)
(* from one source; a verdict that is clear exactly when there is no       *)
(* finding and names the worst severity otherwise.                         *)
ResultGrounded ==
    \A r \in Requests : pc[r] = "close" /\ status[r] = "ok" =>
        /\ read[r] = pages[r] /\ pages[r] > 0
        /\ WantsExtraction(r) => /\ images[r] = pages[r]
                                 /\ held[r] <= ImageBudget
        /\ route[r] = "process" =>
             /\ Len(explanations[r]) = Len(findings[r])
             /\ \A i \in 1..Len(findings[r]) :
                    /\ explanations[r][i].finding = i
                    /\ explanations[r][i].narrative.finding_index = i - 1
                    /\ explanations[r][i].narrative.trusted
                    /\ explanations[r][i].source = explanations[r][1].source
             /\ verdict[r].status = "clear" <=> findings[r] = <<>>
             /\ verdict[r].count = Len(findings[r])
             /\ findings[r] # <<>> =>
                    \E i \in 1..Len(findings[r]) :
                        verdict[r].highest = findings[r][i]
             /\ \A i \in 1..Len(findings[r]) :
                    Rank[findings[r][i]] <= Rank[verdict[r].highest]

(* Every request is answered and leaves nothing: no thread, no directory,  *)
(* no client and not the engine's lock.                                    *)
EveryRequestEnds ==
    \A r \in Requests :
        pc[r] # "idle" ~> /\ pc[r] = "done"
                          /\ r \notin temporary
                          /\ clients[r] = {}
                          /\ lock # r
                          /\ ~ScanRunning(r)
=============================================================================
