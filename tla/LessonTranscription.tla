------------------------- MODULE LessonTranscription -------------------------
(* The transcript of one lesson: submissions to the transcription service   *)
(* (transcribe_lesson_task), the hash in Redis that remembers which job is  *)
(* the lesson's, the callbacks that store the text and its search vector    *)
(* (process_transcription_callback), and the summaries that are written     *)
(* from it (summarize_lesson_task).                                         *)
EXTENDS Integers

CONSTANTS
  Submissions,     \* tasks of transcribe_lesson_task
  Callbacks,       \* requests of the service that may be under way at once
  Summaries,       \* tasks of summarize_lesson_task that may be waiting or running
  MaxRetries,
  MaxJobs,         \* jobs the service takes; a job is its place among them, and
                   \* stands for its transcript
  Silent,          \* those of them in whose recording nothing is said
  MaxDeliveries,   \* callbacks in all, repetitions included
  MaxRequests      \* summaries an administrator asks for

ASSUME TranscriptionAssumption ==
  /\ MaxRetries \in Nat /\ MaxJobs \in Nat /\ MaxDeliveries \in Nat /\ MaxRequests \in Nat
  /\ Silent \subseteq 1..MaxJobs

VARIABLES
  lessonThere,
  text, tsv, summary,   \* of the lesson's row: the job each was made from, or 0
  pending,         \* the lesson's entry in transcription:pending, or 0
  jobs,            \* how many jobs the service has taken
  submission, callback, summarizer,   \* control point and copies of each
  deliveries, requests,
  latest,          \* history: the job that was recorded last
  stored,          \* history: the jobs whose transcript was stored
  entangled,       \* history: a job was recorded in the middle of a callback
  repeated,        \* history: a callback found its own transcript stored
  crossed,         \* history: two summaries were written at once
  lost             \* history: a fault cost a summary

row == <<lessonThere, text, tsv, summary>>
history == <<latest, stored, entangled, repeated, crossed, lost>>
transcriptionVars ==
  <<row, pending, jobs, submission, callback, summarizer, deliveries, requests, history>>

Jobs == 1..MaxJobs
JobOrNone == 0..MaxJobs

NewSubmission == [pc |-> "idle", job |-> 0, tries |-> 0]
NoCallback == [pc |-> "idle", job |-> 0, copy |-> 0]
NoSummary == [pc |-> "idle", copy |-> 0, tries |-> 0]

TranscriptionInit ==
  /\ lessonThere = TRUE /\ text = 0 /\ tsv = 0 /\ summary = 0
  /\ pending = 0 /\ jobs = 0
  /\ submission = [s \in Submissions |-> NewSubmission]
  /\ callback = [c \in Callbacks |-> NoCallback]
  /\ summarizer = [z \in Summaries |-> NoSummary]
  /\ deliveries = 0 /\ requests = 0
  /\ latest = 0 /\ stored = {}
  /\ entangled = FALSE /\ repeated = FALSE /\ crossed = FALSE /\ lost = FALSE

-----------------------------------------------------------------------------
(* Submission.                                                              *)

TriggerTranscription(s) ==
  /\ submission[s].pc = "idle" /\ lessonThere
  /\ submission' = [submission EXCEPT ![s].pc = "queued"]
  /\ UNCHANGED <<jobs, pending, latest, entangled>>

\* The service answers with the identifier of a new job.
SubmitTranscription(s) ==
  /\ submission[s].pc = "queued" /\ jobs < MaxJobs
  /\ jobs' = jobs + 1
  /\ submission' = [submission EXCEPT ![s].pc = "submitted", ![s].job = jobs + 1]
  /\ UNCHANGED <<pending, latest, entangled>>

\* hset: whatever job the lesson had is forgotten.
RecordJob(s) ==
  /\ submission[s].pc = "submitted"
  /\ pending' = submission[s].job
  /\ latest' = submission[s].job
  /\ entangled' = (entangled \/ \E c \in Callbacks :
                     callback[c].pc \in {"found", "loaded", "committed"})
  /\ submission' = [submission EXCEPT ![s] = [NewSubmission EXCEPT !.pc = "done"]]
  /\ UNCHANGED jobs

\* The service, or Redis after it: the retry submits once more.
SubmissionFails(s) ==
  /\ submission[s].pc \in {"queued", "submitted"}
  /\ submission' = [submission EXCEPT ![s] =
       IF @.tries < MaxRetries
         THEN [NewSubmission EXCEPT !.pc = "queued", !.tries = submission[s].tries + 1]
         ELSE [NewSubmission EXCEPT !.pc = "done"]]
  /\ UNCHANGED <<jobs, pending, latest, entangled>>

SubmissionDies(s) ==
  /\ submission[s].pc \in {"queued", "submitted"}
  /\ submission' = [submission EXCEPT ![s] = [NewSubmission EXCEPT !.pc = "done"]]
  /\ UNCHANGED <<jobs, pending, latest, entangled>>

SubmissionStep(s) ==
  /\ \/ TriggerTranscription(s) \/ SubmitTranscription(s) \/ RecordJob(s)
     \/ SubmissionFails(s) \/ SubmissionDies(s)
  /\ UNCHANGED <<row, callback, summarizer, deliveries, requests, stored, repeated, crossed,
                 lost>>

-----------------------------------------------------------------------------
(* The callback.                                                            *)

\* The service reports a job that is completed, perhaps again, and hands out
\* its transcript; a report of any other job changes nothing.
ReceiveCallback(c, j) ==
  /\ callback[c].pc = "idle" /\ deliveries < MaxDeliveries /\ j <= jobs
  /\ deliveries' = deliveries + 1
  /\ callback' = [callback EXCEPT ![c] = [pc |-> "fetched", job |-> j, copy |-> 0]]
  /\ UNCHANGED <<text, tsv, pending, summarizer, stored, repeated, lost>>

Goto(c, pc) ==
  callback' = [callback EXCEPT ![c] = IF pc = "idle" THEN NoCallback ELSE [@ EXCEPT !.pc = pc]]

\* Faulty variant: the entry is taken out of the hash where it is found.
FindLessonTakes(c) ==
  /\ callback[c].pc = "fetched"
  /\ Goto(c, IF pending = callback[c].job THEN "found" ELSE "idle")
  /\ pending' = IF pending = callback[c].job THEN 0 ELSE pending
  /\ UNCHANGED <<text, tsv, summarizer, deliveries, stored, repeated, lost>>

\* hgetall: the lesson whose pending job this is, else NO_PENDING_LESSON.
FindLesson(c) ==
  /\ callback[c].pc = "fetched"
  /\ Goto(c, IF pending = callback[c].job THEN "found" ELSE "idle")
  /\ UNCHANGED <<text, tsv, pending, summarizer, deliveries, stored, repeated, lost>>

LoadLesson(c) ==
  /\ callback[c].pc = "found"
  /\ IF lessonThere
       THEN callback' = [callback EXCEPT ![c].pc = "loaded", ![c].copy = text]
       ELSE Goto(c, "idle")
  /\ repeated' = (repeated \/ (lessonThere /\ text = callback[c].job))
  /\ UNCHANGED <<text, tsv, pending, summarizer, deliveries, stored, lost>>

\* Faulty variant: the search vector is made for a lesson's first transcript.
IndexedOnce(c) == IF callback[c].copy = 0 THEN callback[c].job ELSE tsv

Indexed(c) == callback[c].job

\* The session writes the text if it differs from its copy, and must then find
\* the row; the search vector is set by a statement of its own.
CommitTranscript(c) ==
  /\ callback[c].pc = "loaded"
  /\ LET j == callback[c].job
         changed == callback[c].copy # j
     IN  IF lessonThere
           THEN /\ text' = IF changed THEN j ELSE text
                /\ tsv' = Indexed(c)
                /\ stored' = stored \cup {j}
                /\ Goto(c, "committed")
           ELSE /\ Goto(c, IF changed THEN "idle" ELSE "committed")
                /\ UNCHANGED <<text, tsv, stored>>
  /\ UNCHANGED <<pending, summarizer, deliveries, repeated, lost>>

\* hdel by lesson, whichever job the entry names by now.
ClearPending(c) ==
  /\ callback[c].pc = "committed"
  /\ pending' = 0
  /\ Goto(c, "cleared")
  /\ UNCHANGED <<text, tsv, summarizer, deliveries, stored, repeated, lost>>

QueueSummary ==
  \E z \in Summaries :
    /\ summarizer[z].pc = "idle"
    /\ summarizer' = [summarizer EXCEPT ![z].pc = "queued"]

SendSummary(c) ==
  /\ callback[c].pc = "cleared"
  /\ QueueSummary
  /\ Goto(c, "idle")
  /\ UNCHANGED <<text, tsv, pending, deliveries, stored, repeated, lost>>

\* The database, Redis or the process fails; the service may call again.
CallbackFails(c) ==
  /\ callback[c].pc # "idle"
  /\ Goto(c, "idle")
  /\ lost' = (lost \/ callback[c].pc \in {"committed", "cleared"})
  /\ UNCHANGED <<text, tsv, pending, summarizer, deliveries, stored, repeated>>

CallbackStep(c) ==
  /\ \/ \E j \in Jobs : ReceiveCallback(c, j)
     \/ FindLesson(c) \/ LoadLesson(c) \/ CommitTranscript(c) \/ ClearPending(c)
     \/ SendSummary(c) \/ CallbackFails(c)
  /\ UNCHANGED <<lessonThere, summary, jobs, submission, requests, latest, entangled, crossed>>

-----------------------------------------------------------------------------
(* The summary.                                                             *)

TriggerSummary ==
  /\ lessonThere /\ text # 0 /\ requests < MaxRequests
  /\ requests' = requests + 1
  /\ QueueSummary
  /\ UNCHANGED <<summary, crossed, lost>>

\* A transcript without words is stored like any other, but not summarized.
WorthSummarizing == lessonThere /\ text # 0 /\ text \notin Silent

\* The transcript is read, and the language model takes its time.
ReadTranscript(z) ==
  /\ summarizer[z].pc = "queued"
  /\ summarizer' = [summarizer EXCEPT ![z] =
       IF WorthSummarizing THEN [@ EXCEPT !.pc = "writing", !.copy = text] ELSE NoSummary]
  /\ crossed' = (crossed \/ \E o \in Summaries : summarizer[o].pc = "writing")
  /\ UNCHANGED <<summary, requests, lost>>

WriteSummary(z) ==
  /\ summarizer[z].pc = "writing" /\ lessonThere
  /\ summary' = summarizer[z].copy
  /\ summarizer' = [summarizer EXCEPT ![z] = NoSummary]
  /\ UNCHANGED <<requests, crossed, lost>>

\* Faulty variant: the exception is logged and the task returns.
AfterSummaryFailsLogged(z) == NoSummary

\* The retry reads again.
AfterSummaryFails(z) ==
  IF summarizer[z].tries < MaxRetries
    THEN [NoSummary EXCEPT !.pc = "queued", !.tries = summarizer[z].tries + 1]
    ELSE NoSummary

\* The model or the database fails, or the row is gone.
SummaryFails(z) ==
  /\ summarizer[z].pc = "writing"
  /\ summarizer' = [summarizer EXCEPT ![z] = AfterSummaryFails(z)]
  /\ lost' = (lost \/ summarizer[z].tries = MaxRetries)
  /\ UNCHANGED <<summary, requests, crossed>>

SummaryDies(z) ==
  /\ summarizer[z].pc \in {"queued", "writing"}
  /\ summarizer' = [summarizer EXCEPT ![z] = NoSummary]
  /\ lost' = TRUE
  /\ UNCHANGED <<summary, requests, crossed>>

SummaryStep ==
  /\ \/ TriggerSummary
     \/ \E z \in Summaries :
          ReadTranscript(z) \/ WriteSummary(z) \/ SummaryFails(z) \/ SummaryDies(z)
  /\ UNCHANGED <<lessonThere, text, tsv, pending, jobs, submission, callback, deliveries,
                 latest, stored, entangled, repeated>>

-----------------------------------------------------------------------------
\* The row goes; the entry in Redis and the tasks do not know.
RemoveLesson ==
  /\ lessonThere
  /\ lessonThere' = FALSE /\ text' = 0 /\ tsv' = 0 /\ summary' = 0
  /\ UNCHANGED <<pending, jobs, submission, callback, summarizer, deliveries, requests,
                 history>>

TranscriptionNext ==
  \/ \E s \in Submissions : SubmissionStep(s)
  \/ \E c \in Callbacks : CallbackStep(c)
  \/ SummaryStep
  \/ RemoveLesson

TranscriptionSpec == TranscriptionInit /\ [][TranscriptionNext]_transcriptionVars

-----------------------------------------------------------------------------
(* The properties.                                                          *)

TranscriptionTypeOK ==
  /\ lessonThere \in BOOLEAN
  /\ text \in JobOrNone /\ tsv \in JobOrNone /\ summary \in JobOrNone
  /\ pending \in JobOrNone /\ jobs \in JobOrNone
  /\ submission \in [Submissions -> [pc : {"idle", "queued", "submitted", "done"},
                                     job : JobOrNone, tries : 0..MaxRetries]]
  /\ callback \in [Callbacks -> [pc : {"idle", "fetched", "found", "loaded", "committed",
                                       "cleared"},
                                 job : JobOrNone, copy : JobOrNone]]
  /\ summarizer \in [Summaries -> [pc : {"idle", "queued", "writing"}, copy : JobOrNone,
                                   tries : 0..MaxRetries]]
  /\ deliveries \in 0..MaxDeliveries /\ requests \in 0..MaxRequests
  /\ latest \in JobOrNone /\ stored \subseteq Jobs
  /\ {entangled, repeated, crossed, lost} \subseteq BOOLEAN

\* Search looks where the transcript is: text and search vector are of one job,
\* whatever callbacks of different jobs overlap, fail and are sent again, unless a
\* callback runs on a row that holds its own transcript already: the session then
\* skips the text and writes the vector (services/internal.py:54).
TextAndIndexAgree == ~repeated => text = tsv

\* The job recorded last stays pending until its transcript is stored, so that a
\* callback that failed can be sent again; unless it was recorded in the middle of
\* another callback, whose hdel takes it away (services/internal.py:66).
RecordedJobsStayPending ==
  ~entangled /\ latest # 0 /\ latest \notin stored => pending = latest

\* When all is quiet, the summary is of the stored transcript if that has any
\* words, provided no fault took a summary away and no two were written at once:
\* the task is sent after the commit and reads for itself (tasks/transcription.py:52).
\* A silent recording leaves the summary of an earlier one (tasks/transcription.py:60).
QuietSummaryIsCurrent ==
  /\ \A c \in Callbacks : callback[c].pc \notin {"committed", "cleared"}
  /\ \A z \in Summaries : summarizer[z].pc = "idle"
  /\ ~lost /\ ~crossed
  => summary = text \/ text \in Silent
==============================================================================
