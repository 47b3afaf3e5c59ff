------------------------ MODULE UploadPipelineProofs ------------------------
(***************************************************************************)
(* Theorems about UploadPipeline, for any number of requests, workers and  *)
(* pages, any budget and any set of environments.                          *)
(***************************************************************************)
EXTENDS UploadPipeline, TLAPS, FiniteSetTheorems

Step(r) == Arrive(r) \/ Task(r) \/ ScanThread(r) \/ OcrThread(r) \/ Cancel(r)

(* A request is the document of one task and the job of at most one OCR    *)
(* thread, which sees its pages one by one.                                *)
PagesInv(r) ==
    /\ pc[r] \in {"idle", "upload", "scan", "decode", "depend"} =>
           job[r] = "none" /\ read[r] = 0 /\ images[r] = 0
    /\ pc[r] = "ocr" => job[r] \notin {"none", "ended"}
    /\ pc[r] \in {"depend", "ocr"} => pages[r] > 0
    /\ job[r] = "queued" => pc[r] = "ocr"
    /\ OcrRunning(r) => pages[r] > 0
    /\ read[r] <= pages[r]
    /\ job[r] \in {"waiting", "recognising"} => read[r] < pages[r]
    /\ images[r] = IF WantsExtraction(r) THEN read[r] ELSE 0
    /\ job[r] = "ok" /\ pc[r] # "done" => read[r] = pages[r] /\ pages[r] > 0
    /\ pc[r] \in {"extract", "verify", "explain"} => job[r] = "ok"
    /\ pc[r] = "close" /\ status[r] = "ok" => job[r] = "ok"

-----------------------------------------------------------------------------
(* Type correctness.                                                       *)

(* Each step keeps the types of the tasks.                                 *)
LEMMA TaskTypeStep ==
    ASSUME TaskTypeOK, OcrTypeOK, NEW r \in Requests, Step(r)
    PROVE  TaskTypeOK'
<1> USE BoundAssumption DEF TaskTypeOK
<1>1. CASE Arrive(r)
  BY <1>1 DEF Arrive, GoTo, Place
<1>2. CASE ReadUpload(r)
  BY <1>2 DEF ReadUpload, BeginScan, AnswerWith, GoTo, Place, Status
<1>3. CASE ScanTimeout(r) \/ ScanFound(r) \/ ScanUnavailable(r)
  BY <1>3 DEF ScanTimeout, ScanFound, ScanUnavailable, AnswerWith, Place, Status
<1>4. CASE ScanClean(r)
  BY <1>4 DEF ScanClean, GoTo, Place
<1>5. CASE Decode(r)
  BY <1>5 DEF Decode, GoTo, AnswerWith, Place, Status
<1>6. CASE Depend(r)
  BY <1>6 DEF Depend, Opened, GoTo, AnswerWith, Place, Status
<1>7. CASE OcrAnswered(r)
  BY <1>7 DEF OcrAnswered, OcrTypeOK, GoTo, AnswerWith, Place, Status
<1>8. CASE Extract(r)
  BY <1>8 DEF Extract, ExtractionFailures, GoTo, AnswerWith, Place, Status
<1>9. CASE Verify(r)
  BY <1>9 DEF Verify, GoTo, AnswerWith, Place, Status
<1>10. CASE Explain(r)
  BY <1>10 DEF Explain, AnswerWith, Place, Status
<1>11. CASE Close(r)
  BY <1>11 DEF Close, GoTo, Dropped, Place
<1>12. CASE Cancel(r)
  BY <1>12 DEF Cancel, AnswerWith, Place, Status
<1>13. CASE ScanThread(r)
  BY <1>13 DEF ScanThread, ScanStart, ScanEnd
<1>14. CASE OcrThread(r)
  BY <1>14 DEF OcrThread, OcrStart, RenderPage, TakeEngine, Recognize, OcrFinish
<1> QED
  BY <1>1, <1>2, <1>3, <1>4, <1>5, <1>6, <1>7, <1>8, <1>9, <1>10, <1>11, <1>12,
     <1>13, <1>14 DEF Step, Task

(* Each step keeps the types of the scans.                                 *)
LEMMA ScanTypeStep ==
    ASSUME ScanTypeOK, NEW r \in Requests, Step(r)
    PROVE  ScanTypeOK'
<1> USE DEF ScanTypeOK
<1>1. CASE ReadUpload(r)
  BY <1>1 DEF ReadUpload, BeginScan
<1>2. CASE ScanTimeout(r)
  BY <1>2 DEF ScanTimeout, GivenUp, Counted
<1>3. CASE ScanClean(r) \/ ScanFound(r) \/ ScanUnavailable(r)
  BY <1>3 DEF ScanClean, ScanFound, ScanUnavailable, Counted
<1>4. CASE ScanStart(r)
  BY <1>4 DEF ScanStart
<1>5. CASE ScanEnd(r)
  BY <1>5 DEF ScanEnd
<1>6. CASE Cancel(r)
  BY <1>6 DEF Cancel, GivenUp
<1>7. CASE \/ Arrive(r) \/ Decode(r) \/ Depend(r) \/ OcrAnswered(r)
           \/ Extract(r) \/ Verify(r) \/ Explain(r) \/ Close(r) \/ OcrThread(r)
  BY <1>7 DEF Arrive, Decode, Depend, OcrAnswered, Extract, Verify, Explain,
              Close, OcrThread, OcrStart, RenderPage, TakeEngine, Recognize,
              OcrFinish, scanVars
<1> QED
  BY <1>1, <1>2, <1>3, <1>4, <1>5, <1>6, <1>7 DEF Step, Task, ScanThread

(* Each step keeps the types of the OCR threads: no page too many, no image *)
(* over the budget.                                                        *)
LEMMA OcrTypeStep ==
    ASSUME OcrTypeOK, TaskTypeOK, NEW r \in Requests, PagesInv(r), Step(r)
    PROVE  OcrTypeOK'
<1> USE BoundAssumption, CommandAssumption DEF OcrTypeOK
<1>1. CASE Depend(r)
  BY <1>1 DEF Depend
<1>2. CASE OcrStart(r)
  BY <1>2 DEF OcrStart, OcrEnds
<1>3. CASE RenderPage(r)
  BY <1>3 DEF RenderPage, OcrEnds, Fits
<1>4. CASE TakeEngine(r)
  BY <1>4 DEF TakeEngine, TaskTypeOK, Settings
<1>5. CASE Recognize(r)
  BY <1>5 DEF Recognize, LeaveEngine, OcrEnds, TaskTypeOK, PagesInv, WantsExtraction
<1>6. CASE OcrFinish(r)
  BY <1>6 DEF OcrFinish, OcrEnds
<1>7. CASE Close(r)
  BY <1>7 DEF Close, Dropped
<1>8. CASE Cancel(r)
  BY <1>8 DEF Cancel, GivenUp
<1>9. CASE \/ Arrive(r) \/ ReadUpload(r) \/ ScanTimeout(r) \/ ScanClean(r)
           \/ ScanFound(r) \/ ScanUnavailable(r) \/ Decode(r) \/ OcrAnswered(r)
           \/ Extract(r) \/ Verify(r) \/ Explain(r) \/ ScanThread(r)
  BY <1>9 DEF Arrive, ReadUpload, ScanTimeout, ScanClean, ScanFound,
              ScanUnavailable, Decode, OcrAnswered, Extract, Verify, Explain,
              ScanThread, ScanStart, ScanEnd, ocrVars
<1> QED
  BY <1>1, <1>2, <1>3, <1>4, <1>5, <1>6, <1>7, <1>8, <1>9 DEF Step, Task, OcrThread

(* A bounded sequence is a sequence, of its own length.                    *)
LEMMA SeqUpToIsSeq ==
    ASSUME NEW S, NEW n \in Nat, NEW f \in SeqUpTo(S, n)
    PROVE  /\ f \in Seq(S)
           /\ Len(f) \in 0..n
           /\ f \in [1..Len(f) -> S]
<1>1. PICK k \in 0..n : f \in [1..k -> S]
  BY DEF SeqUpTo
<1>2. f \in Seq(S) /\ Len(f) = k
  BY <1>1
<1> QED
  BY <1>1, <1>2

(* The verdict names the severity of some finding, and of none worse.      *)
LEMMA HighestIsWorst ==
    ASSUME NEW f \in Seq(Severity), f # <<>>
    PROVE  /\ \E i \in 1..Len(f) : Highest(f) = f[i]
           /\ \A k \in 1..Len(f) : Rank[f[k]] <= Rank[Highest(f)]
<1> DEFINE S == {f[k] : k \in 1..Len(f)}
<1> DEFINE Worst(s) == \A k \in 1..Len(f) : Rank[f[k]] <= Rank[s]
<1>1. S \subseteq {"info", "low", "medium", "high"} /\ S # {}
  <2>1. \A k \in 1..Len(f) : f[k] \in Severity
    OBVIOUS
  <2>2. f[1] \in S
    OBVIOUS
  <2> QED
    BY <2>1, <2>2, SeverityAssumption
<1>2. \E s \in S : \A t \in S : Rank[t] <= Rank[s]
  <2> HIDE DEF S
  <2>1. /\ Rank["info"] = 0 /\ Rank["low"] = 1
        /\ Rank["medium"] = 2 /\ Rank["high"] = 3
    BY DEF Rank
  <2>2. CASE "high" \in S
    BY <1>1, <2>1, <2>2
  <2>3. CASE "high" \notin S /\ "medium" \in S
    BY <1>1, <2>1, <2>3
  <2>4. CASE "high" \notin S /\ "medium" \notin S /\ "low" \in S
    BY <1>1, <2>1, <2>4
  <2>5. CASE "high" \notin S /\ "medium" \notin S /\ "low" \notin S
    <3>1. "info" \in S /\ \A t \in S : t = "info"
      BY <1>1, <2>5
    <3> QED
      BY <2>1, <3>1
  <2> QED
    BY <2>2, <2>3, <2>4, <2>5
<1>3. \E s \in S : Worst(s)
  BY <1>2
<1>4. Highest(f) = CHOOSE s \in S : Worst(s)
  BY DEF Highest
<1>5. Highest(f) \in S /\ Worst(Highest(f))
  <2> HIDE DEF S, Worst
  <2> QED
    BY <1>3, <1>4
<1> QED
  BY <1>5

(* Usable drafts give every finding a narrative of its own.                *)
LEMMA NarrativesMatch ==
    ASSUME NEW n \in Nat, NEW drafts \in Drafts, Usable(n, drafts),
           NEW i \in 1..n
    PROVE  /\ Narratives(n, drafts)[i] \in Draft
           /\ Narratives(n, drafts)[i].finding_index = i - 1
           /\ Narratives(n, drafts)[i].trusted
<1> DEFINE S == {drafts[k] : k \in 1..n}
           D == [finding_index : 0..MaxFindings, trusted : BOOLEAN]
<1>1. drafts \in [1..n -> D]
  <2>1. MaxFindings \in Nat /\ drafts \in SeqUpTo(D, MaxFindings)
    BY BoundAssumption DEF Drafts
  <2> HIDE DEF D
  <2> QED
    BY <2>1, SeqUpToIsSeq DEF Usable
<1>2. \A d \in S : d \in Draft /\ d.trusted
  BY <1>1, BoundAssumption DEF Usable, Draft
<1>3. \E d \in S : d.finding_index = i - 1
  <2>1. {drafts[k].finding_index : k \in 1..n} = 0..(n - 1)
    BY Zenon DEF Usable
  <2>2. i - 1 \in 0..(n - 1)
    OBVIOUS
  <2>3. PICK k \in 1..n : drafts[k].finding_index = i - 1
    BY <2>1, <2>2
  <2> QED
    BY <2>3
<1>4. Narratives(n, drafts)[i] = CHOOSE d \in S : d.finding_index = i - 1
  BY DEF Narratives
<1>5. Narratives(n, drafts)[i] \in S /\ Narratives(n, drafts)[i].finding_index = i - 1
  <2> HIDE DEF S
  <2> QED
    BY <1>3, <1>4
<1> QED
  BY <1>2, <1>5

(* Each step keeps the types of findings, explanations and verdicts.       *)
LEMMA ResultTypeStep ==
    ASSUME ResultTypeOK, NEW r \in Requests, Step(r)
    PROVE  ResultTypeOK'
<1> USE DEF ResultTypeOK
<1>1. CASE Verify(r)
  <2>1. CASE UNCHANGED findings
    BY <1>1, <2>1 DEF Verify
  <2>2. CASE ~UNCHANGED findings
    <3>1. PICK f \in SeqUpTo(Severity, MaxFindings) :
              findings' = [findings EXCEPT ![r] = f]
      BY <1>1, <2>2 DEF Verify
    <3>2. f \in Seq(Severity)
      BY SeqUpToIsSeq, BoundAssumption
    <3> QED
      BY <1>1, <3>1, <3>2 DEF Verify
  <2> QED
    BY <2>1, <2>2
<1>2. CASE Explain(r)
  <2> DEFINE n == Len(findings[r])
  <2>1. n \in Nat
    OBVIOUS
  <2>2. Rendered(n) \in Seq(Explanation)
    BY <2>1 DEF Rendered, Explanation, Draft
  <2>3. ASSUME NEW drafts \in Drafts, Usable(n, drafts)
        PROVE  Guided(n, drafts) \in Seq(Explanation)
    <3>1. \A i \in 1..n : Narratives(n, drafts)[i] \in Draft
      BY <2>1, <2>3, NarrativesMatch
    <3>2. Guided(n, drafts) = [i \in 1..n |->
              [finding |-> i, source |-> "llm",
               narrative |-> Narratives(n, drafts)[i]]]
      BY DEF Guided
    <3> QED
      BY <2>1, <3>1, <3>2 DEF Explanation
  <2>4. explanations' \in [Requests -> Seq(Explanation)]
    <3>1. PICK e : e \in Seq(Explanation) /\ explanations' = [explanations EXCEPT ![r] = e]
      BY <1>2, <2>2, <2>3 DEF Explain
    <3> QED
      BY <3>1
  <2>5. DeriveVerdict(findings[r]) \in Verdict
    <3>1. CASE findings[r] = <<>>
      BY <3>1 DEF DeriveVerdict, Verdict
    <3>2. CASE findings[r] # <<>>
      <4>1. findings[r] \in Seq(Severity)
        OBVIOUS
      <4>2. PICK i \in 1..Len(findings[r]) : Highest(findings[r]) = findings[r][i]
        BY <3>2, <4>1, HighestIsWorst
      <4>3. Highest(findings[r]) \in Severity
        BY <4>1, <4>2
      <4> QED
        BY <2>1, <3>2, <4>3 DEF DeriveVerdict, Verdict
    <3> QED
      BY <3>1, <3>2
  <2>6. verdict' \in [Requests -> Verdict]
    BY <1>2, <2>5 DEF Explain
  <2> QED
    BY <1>2, <2>4, <2>6 DEF Explain
<1>3. CASE Close(r)
  BY <1>3 DEF Close, NoVerdict, Verdict
<1>4. CASE \/ Arrive(r) \/ ReadUpload(r) \/ ScanTimeout(r) \/ ScanClean(r)
           \/ ScanFound(r) \/ ScanUnavailable(r) \/ Decode(r) \/ Depend(r)
           \/ OcrAnswered(r) \/ Extract(r) \/ ScanThread(r) \/ OcrThread(r)
           \/ Cancel(r)
  BY <1>4 DEF Arrive, ReadUpload, ScanTimeout, ScanClean, ScanFound,
              ScanUnavailable, Decode, Depend, OcrAnswered, Extract, Cancel,
              ScanThread, ScanStart, ScanEnd, OcrThread, OcrStart, RenderPage,
              TakeEngine, Recognize, OcrFinish, resultVars
<1> QED
  BY <1>1, <1>2, <1>3, <1>4 DEF Step, Task

-----------------------------------------------------------------------------
(* A step of one request leaves the others alone, but for what they share. *)

(* What belongs to request q is as it was.                                 *)
Same(q) ==
    /\ pc'[q] = pc[q] /\ status'[q] = status[q] /\ route'[q] = route[q]
    /\ scanner'[q] = scanner[q] /\ (q \in quarantined' <=> q \in quarantined)
    /\ pages'[q] = pages[q] /\ clients'[q] = clients[q]
    /\ job'[q] = job[q] /\ read'[q] = read[q] /\ images'[q] = images[q]
    /\ (q \in temporary' <=> q \in temporary)
    /\ previous'[q] = previous[q]
    /\ findings'[q] = findings[q] /\ explanations'[q] = explanations[q]
    /\ verdict'[q] = verdict[q]

(* A step of r changes nothing of q.                                       *)
LEMMA Frame ==
    ASSUME TypeOK, NEW r \in Requests, Step(r), NEW q \in Requests, q # r
    PROVE  Same(q)
<1> USE DEF TypeOK, TaskTypeOK, ScanTypeOK, OcrTypeOK, ResultTypeOK, Same,
            scanVars, ocrVars, resultVars, AnswerWith, GoTo
<1>1. CASE Arrive(r)
  BY <1>1 DEF Arrive
<1>2. CASE ReadUpload(r)
  BY <1>2 DEF ReadUpload, BeginScan
<1>3. CASE ScanTimeout(r) \/ ScanClean(r) \/ ScanFound(r) \/ ScanUnavailable(r)
  BY <1>3 DEF ScanTimeout, ScanClean, ScanFound, ScanUnavailable
<1>4. CASE Decode(r) \/ Depend(r)
  BY <1>4 DEF Decode, Depend
<1>5. CASE OcrAnswered(r) \/ Extract(r)
  BY <1>5 DEF OcrAnswered, Extract
<1>6. CASE Verify(r) \/ Explain(r)
  BY <1>6 DEF Verify, Explain
<1>7. CASE Close(r)
  <2>1. CASE OcrRunning(r)
    BY <1>7, <2>1 DEF Close, Dropped
  <2>2. CASE ~OcrRunning(r)
    BY <1>7, <2>2 DEF Close, Dropped
  <2> QED
    BY <2>1, <2>2
<1>8. CASE ScanThread(r)
  BY <1>8 DEF ScanThread, ScanStart, ScanEnd
<1>9. CASE OcrStart(r) \/ RenderPage(r) \/ OcrFinish(r)
  BY <1>9 DEF OcrStart, RenderPage, OcrFinish, OcrEnds
<1>10. CASE TakeEngine(r) \/ Recognize(r)
  BY <1>10 DEF TakeEngine, Recognize, LeaveEngine, OcrEnds
<1>11. CASE Cancel(r)
  BY <1>11 DEF Cancel
<1> QED
  BY <1>1, <1>2, <1>3, <1>4, <1>5, <1>6, <1>7, <1>8, <1>9, <1>10,
     <1>11 DEF Step, Task, OcrThread

(* A step of a request keeps the invariant of its pages.                   *)
LEMMA PagesStep ==
    ASSUME TypeOK, NEW r \in Requests, PagesInv(r), Step(r)
    PROVE  PagesInv(r)'
<1> USE BoundAssumption
    DEF TypeOK, TaskTypeOK, OcrTypeOK, PagesInv, WantsExtraction, OcrRunning,
        ocrVars, AnswerWith, GoTo, Route
<1>1. CASE Arrive(r)
  BY <1>1 DEF Arrive
<1>2. CASE ReadUpload(r)
  BY <1>2 DEF ReadUpload, BeginScan
<1>3. CASE ScanTimeout(r) \/ ScanClean(r) \/ ScanFound(r) \/ ScanUnavailable(r)
  BY <1>3 DEF ScanTimeout, ScanClean, ScanFound, ScanUnavailable
<1>4. CASE Decode(r)
  BY <1>4 DEF Decode
<1>5. CASE Depend(r)
  BY <1>5 DEF Depend
<1>6. CASE OcrAnswered(r)
  BY <1>6 DEF OcrAnswered
<1>7. CASE Extract(r)
  BY <1>7 DEF Extract, ExtractionFailures
<1>8. CASE Verify(r) \/ Explain(r)
  BY <1>8 DEF Verify, Explain
<1>9. CASE Close(r)
  <2>1. CASE OcrRunning(r)
    BY <1>9, <2>1 DEF Close, Dropped
  <2>2. CASE ~OcrRunning(r)
    BY <1>9, <2>2 DEF Close, Dropped
  <2> QED
    BY <2>1, <2>2
<1>10. CASE Cancel(r)
  BY <1>10 DEF Cancel, GivenUp
<1>11. CASE ScanThread(r)
  BY <1>11 DEF ScanThread, ScanStart, ScanEnd
<1>12. CASE OcrStart(r)
  BY <1>12 DEF OcrStart, OcrEnds
<1>13. CASE RenderPage(r)
  BY <1>13 DEF RenderPage, OcrEnds
<1>14. CASE TakeEngine(r)
  BY <1>14 DEF TakeEngine
<1>15. CASE Recognize(r)
  BY <1>15 DEF Recognize, LeaveEngine, OcrEnds
<1>16. CASE OcrFinish(r)
  BY <1>16 DEF OcrFinish, OcrEnds
<1> QED
  BY <1>1, <1>2, <1>3, <1>4, <1>5, <1>6, <1>7, <1>8, <1>9, <1>10, <1>11, <1>12,
     <1>13, <1>14, <1>15, <1>16 DEF Step, Task, OcrThread

-----------------------------------------------------------------------------
(* Scanning.                                                               *)

Reaches(r) == \/ Beyond(r) \/ pc[r] = "decode" \/ job[r] # "none"
              \/ status[r] = "ok"

ScanInv(r) ==
    /\ pc[r] \in {"idle", "upload"} => scanner[r] = "none"
    /\ pc[r] = "scan" => /\ scanner[r] \notin {"none", "ended"}
                         /\ settings.scanning = "on"
    /\ status[r] = "none" <=> pc[r] \notin {"close", "done"}
    /\ Reaches(r) => /\ settings.scanning # "invalid"
                     /\ settings.scanning = "on" => scanner[r] = "clean"
    /\ status[r] = "rejected" <=> r \in quarantined
    /\ r \in quarantined => scanner[r] = "found"
    /\ settings.scanning # "on" => scanner[r] = "none"

(* A step of a request keeps the invariant of its scan.                    *)
LEMMA ScanStep ==
    ASSUME TypeOK, NEW r \in Requests, PagesInv(r), ScanInv(r), Step(r)
    PROVE  ScanInv(r)'
<1> USE DEF TypeOK, TaskTypeOK, ScanTypeOK, OcrTypeOK, PagesInv, ScanInv,
            Reaches, Beyond, OcrRunning, scanVars, ocrVars, AnswerWith, GoTo
<1>1. CASE Arrive(r)
  BY <1>1 DEF Arrive
<1>2. CASE ReadUpload(r)
  BY <1>2 DEF ReadUpload, BeginScan, Settings
<1>3. CASE ScanTimeout(r)
  BY <1>3 DEF ScanTimeout, GivenUp
<1>4. CASE ScanClean(r) \/ ScanFound(r) \/ ScanUnavailable(r)
  BY <1>4 DEF ScanClean, ScanFound, ScanUnavailable
<1>5. CASE Decode(r)
  BY <1>5 DEF Decode
<1>6. CASE Depend(r)
  BY <1>6 DEF Depend
<1>7. CASE OcrAnswered(r)
  BY <1>7 DEF OcrAnswered
<1>8. CASE Extract(r)
  BY <1>8 DEF Extract, ExtractionFailures
<1>9. CASE Verify(r) \/ Explain(r)
  BY <1>9 DEF Verify, Explain
<1>10. CASE Close(r)
  BY <1>10 DEF Close
<1>11. CASE Cancel(r)
  BY <1>11 DEF Cancel, GivenUp
<1>12. CASE ScanStart(r)
  BY <1>12 DEF ScanStart
<1>13. CASE ScanEnd(r)
  BY <1>13 DEF ScanEnd, ScanRunning
<1>14. CASE OcrThread(r)
  BY <1>14 DEF OcrThread, OcrStart, RenderPage, TakeEngine, Recognize, OcrFinish,
               LeaveEngine, OcrEnds
<1> QED
  BY <1>1, <1>2, <1>3, <1>4, <1>5, <1>6, <1>7, <1>8, <1>9, <1>10, <1>11, <1>12,
     <1>13, <1>14 DEF Step, Task, ScanThread

-----------------------------------------------------------------------------
(* The engine: its lock, its command, and the command to put back.         *)

EngineInv ==
    /\ EngineRestored
    /\ \A r \in Requests : job[r] = "recognising" => previous[r] = DefaultCommand

(* Each step leaves the engine as the lock says.                           *)
LEMMA EngineStep ==
    ASSUME TypeOK, NEW r \in Requests, PagesInv(r), EngineInv, Step(r)
    PROVE  EngineInv'
<1> USE NobodyAssumption, CommandAssumption
    DEF TypeOK, TaskTypeOK, OcrTypeOK, EngineInv, EngineRestored, ocrVars
<1>1. CASE Depend(r)
  BY <1>1 DEF Depend, PagesInv
<1>2. CASE OcrStart(r) \/ RenderPage(r) \/ OcrFinish(r)
  BY <1>2 DEF OcrStart, RenderPage, OcrFinish, OcrEnds
<1>3. CASE TakeEngine(r)
  BY <1>3 DEF TakeEngine
<1>4. CASE Recognize(r)
  <2>1. lock = r /\ previous[r] = DefaultCommand
    BY <1>4 DEF Recognize, LeaveEngine
  <2>2. lock' = Nobody /\ command' = DefaultCommand
    BY <1>4, <2>1 DEF Recognize, LeaveEngine
  <2>3. \A q \in Requests : job'[q] # "recognising"
    BY <1>4, <2>1 DEF Recognize, OcrEnds
  <2> QED
    BY <1>4, <2>2, <2>3 DEF Recognize
<1>5. CASE Cancel(r)
  BY <1>5 DEF Cancel, GivenUp
<1>6. CASE \/ Arrive(r) \/ ReadUpload(r) \/ ScanTimeout(r) \/ ScanClean(r)
           \/ ScanFound(r) \/ ScanUnavailable(r) \/ Decode(r) \/ OcrAnswered(r)
           \/ Extract(r) \/ Verify(r) \/ Explain(r) \/ Close(r) \/ ScanThread(r)
  BY <1>6 DEF Arrive, ReadUpload, ScanTimeout, ScanClean, ScanFound,
              ScanUnavailable, Decode, OcrAnswered, Extract, Verify, Explain,
              Close, ScanThread, ScanStart, ScanEnd
<1> QED
  BY <1>1, <1>2, <1>3, <1>4, <1>5, <1>6 DEF Step, Task, OcrThread

-----------------------------------------------------------------------------
(* What a request holds.                                                   *)

HeldInv(r) ==
    /\ r \in temporary <=> OcrRunning(r)
    /\ pc[r] \in {"idle", "done"} => clients[r] = {}
    /\ pc[r] = "ocr" /\ WantsExtraction(r) => "extractor" \in clients[r]
    /\ pc[r] \in {"extract", "verify"} => "extractor" \in clients[r]

(* A step of a request keeps what is said of what it holds.                *)
LEMMA HeldStep ==
    ASSUME TypeOK, NEW r \in Requests, PagesInv(r), HeldInv(r), Step(r)
    PROVE  HeldInv(r)'
<1> USE DEF TypeOK, TaskTypeOK, OcrTypeOK, PagesInv, HeldInv, OcrRunning,
            WantsExtraction, ocrVars, AnswerWith, GoTo
<1>1. CASE Arrive(r)
  BY <1>1 DEF Arrive
<1>2. CASE ReadUpload(r)
  BY <1>2 DEF ReadUpload, BeginScan
<1>3. CASE ScanTimeout(r) \/ ScanClean(r) \/ ScanFound(r) \/ ScanUnavailable(r)
  BY <1>3 DEF ScanTimeout, ScanClean, ScanFound, ScanUnavailable
<1>4. CASE Decode(r)
  BY <1>4 DEF Decode
<1>5. CASE Depend(r)
  BY <1>5 DEF Depend, Opened
<1>6. CASE OcrAnswered(r)
  BY <1>6 DEF OcrAnswered
<1>7. CASE Extract(r)
  BY <1>7 DEF Extract
<1>8. CASE Verify(r) \/ Explain(r)
  BY <1>8 DEF Verify, Explain
<1>9. CASE Close(r)
  BY <1>9 DEF Close
<1>10. CASE Cancel(r)
  BY <1>10 DEF Cancel, GivenUp
<1>11. CASE ScanThread(r)
  BY <1>11 DEF ScanThread, ScanStart, ScanEnd
<1>12. CASE OcrStart(r) \/ RenderPage(r) \/ OcrFinish(r)
  BY <1>12 DEF OcrStart, RenderPage, OcrFinish, OcrEnds
<1>13. CASE TakeEngine(r) \/ Recognize(r)
  BY <1>13 DEF TakeEngine, Recognize, LeaveEngine, OcrEnds
<1> QED
  BY <1>1, <1>2, <1>3, <1>4, <1>5, <1>6, <1>7, <1>8, <1>9, <1>10, <1>11, <1>12,
     <1>13 DEF Step, Task, OcrThread

-----------------------------------------------------------------------------
(* What a successful answer holds.                                         *)

Explained(f, e, v) ==
    /\ Len(e) = Len(f)
    /\ \A i \in 1..Len(f) : /\ e[i].finding = i
                            /\ e[i].narrative.finding_index = i - 1
                            /\ e[i].narrative.trusted
                            /\ e[i].source = e[1].source
    /\ v.status = "clear" <=> f = <<>>
    /\ v.count = Len(f)
    /\ f # <<>> => \E i \in 1..Len(f) : v.highest = f[i]
    /\ \A i \in 1..Len(f) : Rank[f[i]] <= Rank[v.highest]

ResultInv(r) ==
    pc[r] = "close" /\ status[r] = "ok" /\ route[r] = "process" =>
        Explained(findings[r], explanations[r], verdict[r])

(* What ExplanationService.explain and derive_verdict return.              *)
LEMMA ExplainedSo ==
    ASSUME TypeOK, NEW r \in Requests, Explain(r)
    PROVE  Explained(findings[r], explanations'[r], verdict'[r])
<1> DEFINE f == findings[r]
           n == Len(f)
<1>1. f \in Seq(Severity) /\ n \in Nat
  BY DEF TypeOK, ResultTypeOK
<1>2. /\ Len(Rendered(n)) = n
      /\ \A i \in 1..n : /\ Rendered(n)[i].finding = i
                         /\ Rendered(n)[i].narrative.finding_index = i - 1
                         /\ Rendered(n)[i].narrative.trusted
                         /\ Rendered(n)[i].source = "deterministic"
  <2> HIDE DEF n
  <2> QED
    BY <1>1 DEF Rendered
<1>3. ASSUME NEW drafts \in Drafts, Usable(n, drafts)
      PROVE  /\ Len(Guided(n, drafts)) = n
             /\ \A i \in 1..n : /\ Guided(n, drafts)[i].finding = i
                                /\ Guided(n, drafts)[i].narrative.finding_index = i - 1
                                /\ Guided(n, drafts)[i].narrative.trusted
                                /\ Guided(n, drafts)[i].source = "llm"
  <2> HIDE DEF n
  <2>1. \A i \in 1..n : /\ Narratives(n, drafts)[i].finding_index = i - 1
                       /\ Narratives(n, drafts)[i].trusted
    BY <1>1, <1>3, NarrativesMatch
  <2> QED
    BY <1>1, <2>1 DEF Guided
<1>4. \/ explanations'[r] = Rendered(n)
      \/ \E drafts \in Drafts :
             Usable(n, drafts) /\ explanations'[r] = Guided(n, drafts)
  BY DEF Explain, TypeOK, ResultTypeOK
<1>5. verdict'[r] = DeriveVerdict(f)
  BY DEF Explain, TypeOK, ResultTypeOK
<1>6. /\ Len(explanations'[r]) = n
      /\ \A i \in 1..n : /\ explanations'[r][i].finding = i
                         /\ explanations'[r][i].narrative.finding_index = i - 1
                         /\ explanations'[r][i].narrative.trusted
                         /\ explanations'[r][i].source = explanations'[r][1].source
  <2> HIDE DEF n
  <2>1. CASE explanations'[r] = Rendered(n)
    BY <1>1, <1>2, <2>1
  <2>2. CASE explanations'[r] # Rendered(n)
    BY <1>1, <1>3, <1>4, <2>2
  <2> QED
    BY <2>1, <2>2
<1>7. CASE f = <<>>
  BY <1>1, <1>5, <1>6, <1>7 DEF Explained, DeriveVerdict
<1>8. CASE f # <<>>
  <2>1. verdict'[r] = [status |-> "review_required", count |-> n,
                       highest |-> Highest(f)]
    BY <1>5, <1>8 DEF DeriveVerdict
  <2>2. /\ verdict'[r].status = "review_required"
        /\ verdict'[r].count = n
        /\ verdict'[r].highest = Highest(f)
    BY <2>1
  <2>3. /\ \E i \in 1..n : Highest(f) = f[i]
        /\ \A i \in 1..n : Rank[f[i]] <= Rank[Highest(f)]
    BY <1>1, <1>8, HighestIsWorst
  <2> QED
    BY <1>6, <1>8, <2>2, <2>3 DEF Explained
<1> QED
  BY <1>7, <1>8

(* A step of a request keeps its answer explained.                         *)
LEMMA ResultStep ==
    ASSUME TypeOK, NEW r \in Requests, PagesInv(r), ScanInv(r), ResultInv(r), Step(r)
    PROVE  ResultInv(r)'
<1> USE DEF TypeOK, TaskTypeOK, ResultInv, AnswerWith, GoTo
<1>1. CASE Explain(r)
  BY <1>1, ExplainedSo DEF Explain
<1>2. CASE Arrive(r) \/ ReadUpload(r)
  BY <1>2 DEF Arrive, ReadUpload, BeginScan
<1>3. CASE ScanTimeout(r) \/ ScanClean(r) \/ ScanFound(r) \/ ScanUnavailable(r)
  BY <1>3 DEF ScanTimeout, ScanClean, ScanFound, ScanUnavailable
<1>4. CASE Decode(r) \/ Depend(r)
  BY <1>4 DEF Decode, Depend
<1>5. CASE OcrAnswered(r) \/ Extract(r)
  BY <1>5 DEF OcrAnswered, Extract, ExtractionFailures, WantsExtraction
<1>6. CASE Verify(r)
  BY <1>6 DEF Verify
<1>7. CASE Close(r) \/ Cancel(r)
  BY <1>7 DEF Close, Cancel
<1>8. CASE ScanThread(r) \/ OcrThread(r)
  BY <1>8 DEF ScanThread, ScanStart, ScanEnd, OcrThread, OcrStart, RenderPage,
              TakeEngine, Recognize, OcrFinish, resultVars
<1> QED
  BY <1>1, <1>2, <1>3, <1>4, <1>5, <1>6, <1>7, <1>8 DEF Step, Task

-----------------------------------------------------------------------------
(* The counters of the scans.                                              *)

Clean(r) == scanner[r] = "clean" /\ pc[r] # "scan"
Unanswered(r) == scanner[r] \notin {"none", "clean"} /\ status[r] = "unavailable"

Cleans == {r \in Requests : Clean(r)}
Unanswereds == {r \in Requests : Unanswered(r)}

CountInv ==
    /\ IsFiniteSet(quarantined) /\ scans["rejected"] = Cardinality(quarantined)
    /\ IsFiniteSet(Cleans) /\ scans["clean"] = Cardinality(Cleans)
    /\ IsFiniteSet(Unanswereds) /\ scans["unavailable"] = Cardinality(Unanswereds)

(* Each step counts what it decides, and nothing else.                     *)
LEMMA CountStep ==
    ASSUME TypeOK, NEW r \in Requests, PagesInv(r), ScanInv(r), CountInv, Step(r)
    PROVE  CountInv'
<1> USE DEF TypeOK, TaskTypeOK, ScanTypeOK, OcrTypeOK, ScanInv
<1>1. \A q \in Requests \ {r} : (Clean(q)' <=> Clean(q))
                              /\ (Unanswered(q)' <=> Unanswered(q))
  BY Frame DEF Same, Clean, Unanswered
<1>2. CASE ScanClean(r)
  <2>1. ~Clean(r) /\ Clean(r)' /\ ~Unanswered(r) /\ ~Unanswered(r)'
    BY <1>2 DEF ScanClean, GoTo, Clean, Unanswered
  <2>2. Cleans' = Cleans \cup {r} /\ Unanswereds' = Unanswereds /\ r \notin Cleans
    BY <1>1, <2>1 DEF Cleans, Unanswereds
  <2>3. /\ scans'["clean"] = scans["clean"] + 1
        /\ scans'["rejected"] = scans["rejected"]
        /\ scans'["unavailable"] = scans["unavailable"]
        /\ quarantined' = quarantined
    BY <1>2 DEF ScanClean, Counted
  <2>4. IsFiniteSet(Cleans') /\ Cardinality(Cleans') = Cardinality(Cleans) + 1
    BY <2>2, FS_AddElement DEF CountInv
  <2> QED
    BY <2>2, <2>3, <2>4 DEF CountInv
<1>3. CASE ScanFound(r)
  <2>1. ~Clean(r) /\ ~Clean(r)' /\ ~Unanswered(r) /\ ~Unanswered(r)'
    BY <1>3 DEF ScanFound, AnswerWith, Clean, Unanswered
  <2>2. /\ Cleans' = Cleans /\ Unanswereds' = Unanswereds
        /\ quarantined' = quarantined \cup {r} /\ r \notin quarantined
    BY <1>1, <1>3, <2>1 DEF Cleans, Unanswereds, ScanFound
  <2>3. /\ scans'["rejected"] = scans["rejected"] + 1
        /\ scans'["clean"] = scans["clean"]
        /\ scans'["unavailable"] = scans["unavailable"]
    BY <1>3 DEF ScanFound, Counted
  <2>4. /\ IsFiniteSet(quarantined')
        /\ Cardinality(quarantined') = Cardinality(quarantined) + 1
    BY <2>2, FS_AddElement DEF CountInv
  <2> QED
    BY <2>2, <2>3, <2>4 DEF CountInv
<1>4. CASE ScanTimeout(r) \/ ScanUnavailable(r)
  <2>1. ~Clean(r) /\ ~Clean(r)' /\ ~Unanswered(r) /\ Unanswered(r)'
    BY <1>4 DEF ScanTimeout, ScanUnavailable, GivenUp, AnswerWith, Clean, Unanswered
  <2>2. /\ Cleans' = Cleans /\ quarantined' = quarantined
        /\ Unanswereds' = Unanswereds \cup {r} /\ r \notin Unanswereds
    BY <1>1, <1>4, <2>1 DEF Cleans, Unanswereds, ScanTimeout, ScanUnavailable
  <2>3. /\ scans'["unavailable"] = scans["unavailable"] + 1
        /\ scans'["clean"] = scans["clean"]
        /\ scans'["rejected"] = scans["rejected"]
    BY <1>4 DEF ScanTimeout, ScanUnavailable, Counted
  <2>4. /\ IsFiniteSet(Unanswereds')
        /\ Cardinality(Unanswereds') = Cardinality(Unanswereds) + 1
    BY <2>2, FS_AddElement DEF CountInv
  <2> QED
    BY <2>2, <2>3, <2>4 DEF CountInv
<1>5. ASSUME UNCHANGED <<scans, quarantined>>, Clean(r)' <=> Clean(r),
             Unanswered(r)' <=> Unanswered(r)
      PROVE  CountInv'
  <2>1. Cleans' = Cleans /\ Unanswereds' = Unanswereds
    BY <1>1, <1>5 DEF Cleans, Unanswereds
  <2> QED
    BY <1>5, <2>1 DEF CountInv
<1> USE DEF Clean, Unanswered, AnswerWith, GoTo, scanVars
<1>6. CASE Arrive(r) \/ ReadUpload(r)
  BY <1>5, <1>6 DEF Arrive, ReadUpload, BeginScan
<1>7. CASE Decode(r) \/ Depend(r)
  BY <1>5, <1>7, EnvironmentAssumption DEF Decode, Depend, Reaches, Beyond, Settings
<1>8. CASE OcrAnswered(r)
  BY <1>5, <1>8 DEF OcrAnswered, Reaches, Beyond, Settings
<1>9. CASE Extract(r)
  BY <1>5, <1>9 DEF Extract, ExtractionFailures, Reaches, Beyond, Settings
<1>10. CASE Verify(r) \/ Explain(r)
  BY <1>5, <1>10 DEF Verify, Explain, Reaches, Beyond, Settings
<1>11. CASE Close(r)
  BY <1>5, <1>11 DEF Close
<1>12. CASE Cancel(r)
  BY <1>5, <1>12 DEF Cancel, GivenUp
<1>13. CASE ScanStart(r)
  BY <1>5, <1>13 DEF ScanStart
<1>14. CASE ScanEnd(r)
  BY <1>5, <1>14 DEF ScanEnd, ScanRunning
<1>15. CASE OcrThread(r)
  BY <1>5, <1>15 DEF OcrThread, OcrStart, RenderPage, TakeEngine, Recognize, OcrFinish
<1> QED
  BY <1>2, <1>3, <1>4, <1>6, <1>7, <1>8, <1>9, <1>10, <1>11, <1>12, <1>13, <1>14,
     <1>15 DEF Step, Task, ScanThread

-----------------------------------------------------------------------------
(* The inductive invariant.                                                *)

RequestInv(r) == PagesInv(r) /\ ScanInv(r) /\ HeldInv(r) /\ ResultInv(r)

Inv == TypeOK /\ EngineInv /\ CountInv /\ \A r \in Requests : RequestInv(r)

(* The invariant holds at first.                                           *)
LEMMA InitInv == Init => Inv
<1> SUFFICES ASSUME Init PROVE Inv
  OBVIOUS
<1>1. TaskTypeOK
  BY BoundAssumption, EnvironmentAssumption DEF Init, TaskTypeOK, Place, Route, Status
<1>2. ScanTypeOK
  BY DEF Init, ScanTypeOK
<1>3. OcrTypeOK
  BY BoundAssumption DEF Init, OcrTypeOK
<1>4. ResultTypeOK
  <2>1. <<>> \in Seq(Severity) /\ <<>> \in Seq(Explanation)
    OBVIOUS
  <2>2. NoVerdict \in Verdict
    BY DEF NoVerdict, Verdict
  <2> QED
    BY <2>1, <2>2 DEF Init, ResultTypeOK
<1>5. EngineInv
  BY NobodyAssumption DEF Init, EngineInv, EngineRestored
<1>6. CountInv
  <2>1. Cleans = {} /\ Unanswereds = {} /\ quarantined = {}
    BY DEF Init, Cleans, Clean, Unanswereds, Unanswered
  <2> QED
    BY <2>1, FS_EmptySet DEF Init, CountInv
<1>7. ASSUME NEW r \in Requests
      PROVE  PagesInv(r) /\ ScanInv(r) /\ HeldInv(r) /\ ResultInv(r)
  BY DEF Init, PagesInv, ScanInv, HeldInv, ResultInv, OcrRunning, WantsExtraction,
         Reaches, Beyond
<1> QED
  BY <1>1, <1>2, <1>3, <1>4, <1>5, <1>6, <1>7 DEF Inv, TypeOK, RequestInv

(* A step of r keeps the invariant of q.                                   *)
LEMMA FrameInv ==
    ASSUME TypeOK, NEW r \in Requests, Step(r), NEW q \in Requests, q # r,
           RequestInv(q)
    PROVE  RequestInv(q)'
<1>1. Same(q) /\ settings' = settings
  <2>1. settings' = settings
    BY DEF Step, Task, ScanThread, OcrThread, Arrive, ReadUpload, ScanTimeout,
           ScanClean, ScanFound, ScanUnavailable, Decode, Depend, OcrAnswered,
           Extract, Verify, Explain, Close, ScanStart, ScanEnd, OcrStart,
           RenderPage, TakeEngine, Recognize, OcrFinish, Cancel
  <2> QED
    BY <2>1, Frame
<1>2. PagesInv(q)'
  BY <1>1 DEF RequestInv, PagesInv, Same, OcrRunning, WantsExtraction
<1>3. ScanInv(q)'
  BY <1>1 DEF RequestInv, ScanInv, Same, Reaches, Beyond
<1>4. HeldInv(q)'
  BY <1>1 DEF RequestInv, HeldInv, Same, OcrRunning, WantsExtraction
<1>5. ResultInv(q)'
  BY <1>1 DEF RequestInv, ResultInv, Same
<1> QED
  BY <1>2, <1>3, <1>4, <1>5 DEF RequestInv

(* Every step keeps the invariant.                                         *)
LEMMA StepInv ==
    ASSUME Inv, NEW r \in Requests, Step(r)
    PROVE  Inv'
<1> USE DEF Inv, RequestInv
<1>1. TypeOK'
  BY TaskTypeStep, ScanTypeStep, OcrTypeStep, ResultTypeStep DEF TypeOK
<1>2. EngineInv'
  BY EngineStep
<1>3. CountInv'
  BY CountStep
<1>4. RequestInv(r)'
  BY PagesStep, ScanStep, HeldStep, ResultStep
<1>5. \A q \in Requests : q # r => RequestInv(q)'
  BY FrameInv
<1> QED
  BY <1>1, <1>2, <1>3, <1>4, <1>5

(* So does a step that changes nothing.                                    *)
LEMMA StutterInv ==
    ASSUME Inv, UNCHANGED vars
    PROVE  Inv'
<1> USE DEF vars, scanVars, ocrVars, resultVars
<1>1. TypeOK'
  BY DEF Inv, TypeOK, TaskTypeOK, ScanTypeOK, OcrTypeOK, ResultTypeOK
<1>2. EngineInv'
  BY DEF Inv, EngineInv, EngineRestored
<1>3. CountInv'
  <2>1. Cleans' = Cleans /\ Unanswereds' = Unanswereds
    BY DEF Cleans, Clean, Unanswereds, Unanswered
  <2> QED
    BY <2>1 DEF Inv, CountInv
<1>4. ASSUME NEW r \in Requests
      PROVE  RequestInv(r)'
  BY DEF Inv, RequestInv, PagesInv, ScanInv, HeldInv, ResultInv, OcrRunning,
         WantsExtraction, Reaches, Beyond
<1> QED
  BY <1>1, <1>2, <1>3, <1>4 DEF Inv

(* The invariant holds in every reachable state.                           *)
LEMMA Invariance == Spec => []Inv
<1>1. Inv /\ [Next]_vars => Inv'
  <2> SUFFICES ASSUME Inv, [Next]_vars PROVE Inv'
    OBVIOUS
  <2>1. CASE UNCHANGED vars
    BY <2>1, StutterInv
  <2>2. ASSUME NEW r \in Requests, Step(r) PROVE Inv'
    BY <2>2, StepInv
  <2> QED
    BY <2>1, <2>2 DEF Next, Step
<1> QED
  BY InitInv, <1>1, PTL DEF Spec

-----------------------------------------------------------------------------
(* The results.                                                            *)

(* Every reachable state is well typed; the images of a document stay      *)
(* within MAX_PAGE_IMAGE_BUNDLE_BYTES.                                     *)
THEOREM TypeCorrect == Spec => []TypeOK
BY Invariance, PTL DEF Inv

(* Nothing unscanned reaches the decoder, the engine or a provider, however*)
(* scans, their deadlines and cancellations interleave.                    *)
THEOREM ScanningFailsClosed == Spec => []FailsClosed
<1>1. Inv => FailsClosed
  BY DEF Inv, RequestInv, ScanInv, Reaches, FailsClosed
<1> QED
  BY <1>1, Invariance, PTL

(* record_scan_outcome is called once for each outcome that was acted on.  *)
THEOREM CountersCorrect == Spec => []ScansAccounted
<1>1. Inv => ScansAccounted
  BY DEF Inv, CountInv, Cleans, Clean, Unanswereds, Unanswered, ScansAccounted
<1> QED
  BY <1>1, Invariance, PTL

(* The engine is used by one thread at a time and gets its command back.   *)
THEOREM EngineCorrect == Spec => []EngineRestored
<1>1. Inv => EngineRestored
  BY DEF Inv, EngineInv
<1> QED
  BY <1>1, Invariance, PTL

(* No directory outlives its thread and no client its request.             *)
THEOREM NothingIsLeft == Spec => []NothingLeft
<1>1. Inv => NothingLeft
  BY DEF Inv, RequestInv, HeldInv, NothingLeft
<1> QED
  BY <1>1, Invariance, PTL

(* A successful answer is complete, in order and free of provider claims.  *)
THEOREM ResultCorrect == Spec => []ResultGrounded
<1>1. Inv => ResultGrounded
  <2> SUFFICES ASSUME Inv, NEW r \in Requests,
                      pc[r] = "close", status[r] = "ok"
               PROVE  /\ read[r] = pages[r] /\ pages[r] > 0
                      /\ WantsExtraction(r) => /\ images[r] = pages[r]
                                               /\ held[r] <= ImageBudget
                      /\ route[r] = "process" =>
                             Explained(findings[r], explanations[r], verdict[r])
    BY DEF ResultGrounded, Explained
  <2>1. job[r] = "ok"
    BY DEF Inv, RequestInv, PagesInv
  <2>2. held[r] <= ImageBudget
    BY BoundAssumption DEF Inv, TypeOK, OcrTypeOK
  <2> QED
    BY <2>1, <2>2 DEF Inv, RequestInv, PagesInv, ResultInv
<1> QED
  BY <1>1, Invariance, PTL

(* Whatever fails or is late, nothing a request took stays taken.          *)
THEOREM ResourcesAreRestored == Spec => []ResourcesRestored
<1>1. EngineRestored /\ NothingLeft => ResourcesRestored
  BY DEF ResourcesRestored
<1> QED
  BY <1>1, EngineCorrect, NothingIsLeft, PTL

=============================================================================
