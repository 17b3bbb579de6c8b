--------------------------- MODULE DocumentPipelines ---------------------------
(***************************************************************************)
(* The S3 document service and its two background pipelines: API handlers  *)
(* create, re-trigger and delete documents, Celery workers run the tasks   *)
(* `documents.ocr` and `documents.push_base64`.  Handlers are split at     *)
(* their awaits; workers are other processes, so a task is split at every  *)
(* access to the database, to S3 and to the broker.                        *)
(*                                                                         *)
(* Rows whose file lies on the local disk (kind "local") are written by    *)
(* store_local_document; here they are just there, and can be re-triggered *)
(* and deleted like the others.  Tenants are never deleted.  The column    *)
(* s3_url_ocr_json is left out: every read derives it from ocr_status.     *)
(***************************************************************************)
EXTENDS Integers, FiniteSets, OrmSession

CONSTANTS
    DocIds,         \* uuids a row of table document may get
    DocNames,       \* dedup keys (tenant, owner_ref, file_name, document_type)
    Contents,       \* file bytes, with the mime type and size they imply
    LocalDocs,      \* ids of the rows that store_local_document wrote
    Callers,        \* API requests in flight at most
    Workers,        \* Celery worker processes
    S3Refuses,      \* may S3 leave objects that a bulk delete names?
    MaxRetries,     \* ocr_max_retries, base64_max_retries
    MaxCalls,       \* bound: API requests in all
    MaxCrashes,     \* bound: worker crashes in all
    Nil,
    Gone            \* the row had this id and was deleted

Tasks == {"ocr", "base64"}

OcrStatus    == {"not_requested", "pending", "done", "failed"}
Base64Status == {"pending", "sent", "failed"}

\* `file` stands for mime_type and file_size; the bytes are in S3.
Rows == [name          : DocNames,
         kind          : {"s3", "local"},
         file          : Contents,
         ocr_status    : OcrStatus,
         ocr_text      : Contents \cup {Nil},
         base64_status : Base64Status]

\* A task message: its document and how often it was retried.
Messages == [task : Tasks, id : DocIds, retries : 0..MaxRetries]

\* A task being run: the row it loaded and the bytes it processed.
Runs == [pc   : {"work", "store", "commit", "fail", "notify"},
         msg  : Messages,
         seen : Rows,
         got  : Contents \cup {Nil}]

\* An API request: the row it loaded (Nil for an insert), the row it writes,
\* and the tasks it has to enqueue once that is committed.
Requests == [pc    : {"put", "commit", "refresh", "publish", "drop"},
             op    : {"upload", "trigger", "delete"},
             id    : DocIds,
             seen  : Rows \cup {Nil},
             new   : Rows \cup {Nil},
             tasks : SUBSET Tasks]

ASSUME PipelineConstants ==
    /\ LocalDocs \subseteq DocIds
    /\ S3Refuses \in BOOLEAN
    /\ MaxRetries \in Nat /\ MaxCalls \in Nat /\ MaxCrashes \in Nat

ASSUME PipelineMarkers ==
    /\ Nil # Gone
    /\ Nil \notin Contents
    /\ Nil \notin Rows /\ Gone \notin Rows
    /\ Nil \notin Runs /\ Nil \notin Requests

VARIABLES
    rows,       \* table document: id -> row, Nil (not drawn yet) or Gone
    originals,  \* S3: document id -> bytes under build_original_key, or Nil
    ocr_jsons,  \* S3: document id -> bytes recognised in ocr.json, or Nil
    queue,      \* broker: how many copies of each message wait in it
    runs,       \* what each worker is doing
    requests,   \* what each API handler is doing
    notified,   \* history: values of ocr_status announced to the tenant
    stranded,   \* history: <<task, id>> whose task was lost or given up
    wiped,      \* history: ids whose objects a DELETE set out to remove
    calls,      \* API requests so far
    crashes     \* worker crashes so far

vars == <<rows, originals, ocr_jsons, queue, runs, requests, notified,
          stranded, wiped, calls, crashes>>

S3 == <<originals, ocr_jsons>>
History == <<notified, stranded, wiped>>
Bounds == <<calls, crashes>>

TypeOK ==
    /\ rows \in [DocIds -> Rows \cup {Nil, Gone}]
    /\ originals \in [DocIds -> Contents \cup {Nil}]
    /\ ocr_jsons \in [DocIds -> Contents \cup {Nil}]
    /\ queue \in [Messages -> Nat]
    /\ runs \in [Workers -> Runs \cup {Nil}]
    /\ requests \in [Callers -> Requests \cup {Nil}]
    /\ notified \in [DocIds -> SUBSET OcrStatus]
    /\ stranded \subseteq Tasks \X DocIds
    /\ wiped \subseteq DocIds
    /\ calls \in 0..MaxCalls /\ crashes \in 0..MaxCrashes
    /\ \A w \in Workers : runs[w] # Nil /\ runs[w].pc \in {"store", "commit"}
         => runs[w].got \in Contents

\* store_local_document leaves base64_status to the server default "pending";
\* what it leaves as text does not follow from the status (OcrFails and
\* DoneHasText of CollectionPortal).
LocalRow(name, file, status, text) ==
    [name |-> name, kind |-> "local", file |-> file, ocr_status |-> status,
     ocr_text |-> text, base64_status |-> "pending"]

Init ==
    /\ \E name \in [LocalDocs -> DocNames], file \in [LocalDocs -> Contents],
          status \in [LocalDocs -> OcrStatus \ {"pending"}],
          text \in [LocalDocs -> Contents \cup {Nil}] :
         /\ \A d, e \in LocalDocs : name[d] = name[e] => d = e
         /\ rows = [d \in DocIds |->
                      IF d \in LocalDocs
                      THEN LocalRow(name[d], file[d], status[d], text[d])
                      ELSE Nil]
    /\ originals = [d \in DocIds |-> Nil]
    /\ ocr_jsons = [d \in DocIds |-> Nil]
    /\ queue = [m \in Messages |-> 0]
    /\ runs = [w \in Workers |-> Nil]
    /\ requests = [c \in Callers |-> Nil]
    /\ notified = [d \in DocIds |-> {}]
    /\ stranded = {} /\ wiped = {}
    /\ calls = 0 /\ crashes = 0

Exists(d) == rows[d] \notin {Nil, Gone}

Matching(name) == {d \in DocIds : Exists(d) /\ rows[d].name = name}

Enqueued(m) == [queue EXCEPT ![m] = @ + 1]

Message(task, d) == [task |-> task, id |-> d, retries |-> 0]

-----------------------------------------------------------------------------
(* API handlers. *)

\* A request arrives, and holds `request` when it first awaits.
Begin(c, request) ==
    /\ requests[c] = Nil
    /\ calls < MaxCalls
    /\ requests' = [requests EXCEPT ![c] = request]
    /\ calls' = calls + 1

GoOn(c, pc) == requests' = [requests EXCEPT ![c].pc = pc]
Ends(c) == requests' = [requests EXCEPT ![c] = Nil]

\* A uuid nobody has drawn before.
Fresh(d) ==
    /\ rows[d] = Nil /\ originals[d] = Nil
    /\ \A c \in Callers : requests[c] # Nil => requests[c].id # d

\* Attributes create_or_update_document gives a row it creates ...
NewRow(name, content, queue_ocr) ==
    [name |-> name, kind |-> "s3", file |-> content,
     ocr_status |-> IF queue_ocr THEN "pending" ELSE "not_requested",
     ocr_text |-> Nil, base64_status |-> "pending"]

\* ... and assigns on one it found: s3_url is not among them.
Reassigned(row, content, queue_ocr) ==
    [row EXCEPT !.file = content,
                !.ocr_status = IF queue_ocr THEN "pending" ELSE "not_requested",
                !.ocr_text = Nil,
                !.base64_status = "pending"]

\* Mutant: either pipeline instead of both.
OneTask(queue_ocr) == IF queue_ocr THEN {"ocr"} ELSE {"base64"}

UploadTasks(queue_ocr) == {"base64"} \cup (IF queue_ocr THEN {"ocr"} ELSE {})

\* create_or_update_document: _find_by_dedup_key decides the id.
FindByDedupKey(c, name, content, queue_ocr) ==
    /\ \E d \in DocIds :
         /\ \/ Matching(name) = {d}
            \/ Matching(name) = {} /\ Fresh(d)
         /\ Begin(c, [pc |-> "put", op |-> "upload", id |-> d,
                      seen |-> IF Exists(d) THEN rows[d] ELSE Nil,
                      new |-> IF Exists(d)
                              THEN Reassigned(rows[d], content, queue_ocr)
                              ELSE NewRow(name, content, queue_ocr),
                      tasks |-> UploadTasks(queue_ocr)])
    /\ UNCHANGED <<rows, S3, queue, runs, History, crashes>>

\* upload_fileobj replaces the object at the row's key.
PutOriginal(c) ==
    /\ requests[c] # Nil /\ requests[c].pc = "put"
    /\ originals' = [originals EXCEPT ![requests[c].id] = requests[c].new.file]
    /\ GoOn(c, "commit")
    /\ UNCHANGED <<rows, ocr_jsons, queue, runs, History, Bounds>>

\* enqueue_ocr up to its commit; where it returns early nothing changes.
LoadTrigger(c, d, force) ==
    /\ Exists(d)
    /\ rows[d].ocr_status # "pending"
    /\ rows[d].ocr_status = "done" => force
    /\ Begin(c, [pc |-> "commit", op |-> "trigger", id |-> d, seen |-> rows[d],
                 new |-> [rows[d] EXCEPT !.ocr_status = "pending"],
                 tasks |-> {"ocr"}])
    /\ UNCHANGED <<rows, S3, queue, runs, History, crashes>>

\* The commit of an upload or trigger.  An INSERT needs the unique key free,
\* an UPDATE the row still there; otherwise the request fails (FailRequest).
CommitRequest(c) ==
    /\ requests[c] # Nil /\ requests[c].pc = "commit"
    /\ LET r == requests[c] IN
         \/ /\ r.seen = Nil
            /\ Matching(r.new.name) = {}
            /\ rows' = [rows EXCEPT ![r.id] = r.new]
         \/ /\ r.seen # Nil
            /\ Exists(r.id)
            /\ rows' = [rows EXCEPT ![r.id] = OrmUpdate(@, r.seen, r.new)]
    /\ GoOn(c, "refresh")
    /\ UNCHANGED <<S3, queue, runs, History, Bounds>>

\* db.refresh raises when the row is gone (FailRequest).
RefreshRequest(c) ==
    /\ requests[c] # Nil /\ requests[c].pc = "refresh"
    /\ Exists(requests[c].id)
    /\ requests' = [requests EXCEPT ![c].pc = "publish",
                                    ![c].seen = rows[requests[c].id]]
    /\ UNCHANGED <<rows, S3, queue, runs, History, Bounds>>

\* notify_doc_processed hands the tenant's broker what the row it was given
\* says; whether the broker takes it makes no difference to the caller.
Notified(d, row) == [notified EXCEPT ![d] = @ \cup {row.ocr_status}]

\* The calls of delay(), base64 first; an upload without OCR is then announced,
\* unless building the payload raises.
PublishTask(c) ==
    /\ requests[c] # Nil /\ requests[c].pc = "publish"
    /\ LET r == requests[c]
           task == IF "base64" \in r.tasks THEN "base64" ELSE "ocr"
       IN /\ queue' = Enqueued(Message(task, r.id))
          /\ IF r.tasks # {task}
             THEN /\ requests' = [requests EXCEPT ![c].tasks = @ \ {task}]
                  /\ UNCHANGED notified
             ELSE /\ Ends(c)
                  /\ \/ task = "base64" /\ notified' = Notified(r.id, r.seen)
                     \/ UNCHANGED notified
    /\ UNCHANGED <<rows, S3, runs, stranded, wiped, Bounds>>

\* delete_prefix is best-effort: delete_objects reports what it could not delete
\* in its answer, which is not looked at.
DeletedFrom(store, d) ==
    {[store EXCEPT ![d] = Nil]} \cup (IF S3Refuses THEN {store} ELSE {})

\* delete_document: load the row, delete what is under its S3 prefix ...
DeleteObjects(c, d) ==
    /\ Exists(d)
    /\ Begin(c, [pc |-> "drop", op |-> "delete", id |-> d, seen |-> rows[d],
                 new |-> Nil, tasks |-> {}])
    /\ originals' \in DeletedFrom(originals, d)
    /\ ocr_jsons' \in DeletedFrom(ocr_jsons, d)
    /\ wiped' = wiped \cup {d}
    /\ UNCHANGED <<rows, queue, runs, notified, stranded, crashes>>

\* ... and delete it; deleting a row that is gone already only warns.
DropRow(c) ==
    /\ requests[c] # Nil /\ requests[c].pc = "drop"
    /\ rows' = [rows EXCEPT ![requests[c].id] = Gone]
    /\ Ends(c)
    /\ UNCHANGED <<S3, queue, runs, History, Bounds>>

\* A request ends early at any await or broker call: its connection or process
\* died, the database or the broker refused.  What it had yet to enqueue for a
\* row it committed is lost.
FailRequest(c) ==
    /\ requests[c] # Nil
    /\ Ends(c)
    /\ stranded' = IF requests[c].pc \in {"refresh", "publish"}
                   THEN stranded \cup (requests[c].tasks \X {requests[c].id})
                   ELSE stranded
    /\ UNCHANGED <<rows, S3, queue, runs, notified, wiped, Bounds>>

-----------------------------------------------------------------------------
(* Celery workers. *)

Running(w, pc) == runs[w] # Nil /\ runs[w].pc = pc

Delivered(m) == [queue EXCEPT ![m] = @ - 1]

StatusFor(row, task) ==
    IF task = "ocr" THEN row.ocr_status ELSE row.base64_status

IsPending(d, task) == Exists(d) /\ StatusFor(rows[d], task) = "pending"

\* A worker takes a message and loads its row; a task whose row is gone or no
\* longer pending returns at once.
ReceiveTask(w, m) ==
    /\ runs[w] = Nil
    /\ queue[m] > 0
    /\ queue' = Delivered(m)
    /\ IF IsPending(m.id, m.task)
       THEN runs' = [runs EXCEPT ![w] = [pc |-> "work", msg |-> m,
                                         seen |-> rows[m.id], got |-> Nil]]
       ELSE UNCHANGED runs
    /\ UNCHANGED <<rows, S3, requests, History, Bounds>>

\* Mutant: the file that is not there is taken for an empty one.
WorkBlindly(w) ==
    /\ Running(w, "work")
    /\ LET r == runs[w] IN
         runs' = [runs EXCEPT
                    ![w].pc = IF r.msg.task = "ocr" THEN "store" ELSE "commit",
                    ![w].got = originals[r.msg.id]]
    /\ UNCHANGED <<rows, S3, queue, requests, History, Bounds>>

\* Mutant: the row is committed without its ocr.json.
WorkSkipsJson(w) ==
    /\ Running(w, "work")
    /\ originals[runs[w].msg.id] # Nil
    /\ runs' = [runs EXCEPT ![w].pc = "commit",
                            ![w].got = originals[runs[w].msg.id]]
    /\ UNCHANGED <<rows, S3, queue, requests, History, Bounds>>

\* get_object_bytes and then perform_ocr or base64_service.push: they answer,
WorkSucceeds(w) ==
    /\ Running(w, "work")
    /\ originals[runs[w].msg.id] # Nil
    /\ LET r == runs[w] IN
         runs' = [runs EXCEPT
                    ![w].pc = IF r.msg.task = "ocr" THEN "store" ELSE "commit",
                    ![w].got = originals[r.msg.id]]
    /\ UNCHANGED <<rows, S3, queue, requests, History, Bounds>>

\* or they fail for good, or the file is missing,
WorkFails(w) ==
    /\ Running(w, "work")
    /\ runs' = [runs EXCEPT ![w].pc = "fail"]
    /\ UNCHANGED <<rows, S3, queue, requests, History, Bounds>>

\* Mutant: retries are neither counted nor bounded.
RetryForever(w) ==
    /\ Running(w, "work")
    /\ originals[runs[w].msg.id] # Nil
    /\ queue' = Enqueued(runs[w].msg)
    /\ runs' = [runs EXCEPT ![w] = Nil]
    /\ UNCHANGED <<rows, S3, requests, History, Bounds>>

\* or they fail for now: self.retry publishes the message again and ends the
\* run,
WorkRetries(w) ==
    /\ Running(w, "work")
    /\ originals[runs[w].msg.id] # Nil
    /\ runs[w].msg.retries < MaxRetries
    /\ queue' = Enqueued([runs[w].msg EXCEPT !.retries = @ + 1])
    /\ runs' = [runs EXCEPT ![w] = Nil]
    /\ UNCHANGED <<rows, S3, requests, History, Bounds>>

\* unless it was retried often enough: retry(exc=exc) raises exc itself then,
\* which `except MaxRetriesExceededError` and the sibling handlers do not see,
\* and the task ends with the row still pending.
GiveUp(w) ==
    /\ Running(w, "work")
    /\ originals[runs[w].msg.id] # Nil
    /\ runs[w].msg.retries = MaxRetries
    /\ runs' = [runs EXCEPT ![w] = Nil]
    /\ stranded' = stranded \cup {<<runs[w].msg.task, runs[w].msg.id>>}
    /\ UNCHANGED <<rows, S3, queue, requests, notified, wiped, Bounds>>

\* upload_json.
StoreJson(w) ==
    /\ Running(w, "store")
    /\ ocr_jsons' = [ocr_jsons EXCEPT ![runs[w].msg.id] = runs[w].got]
    /\ runs' = [runs EXCEPT ![w].pc = "commit"]
    /\ UNCHANGED <<rows, originals, queue, requests, History, Bounds>>

\* Mutant: one pipeline that fails fails the document.
FailedBoth(r) == [r.seen EXCEPT !.ocr_status = "failed", !.base64_status = "failed"]

\* What a task assigns when it succeeded, and when it failed.
Succeeded(r) ==
    IF r.msg.task = "ocr"
    THEN [r.seen EXCEPT !.ocr_status = "done", !.ocr_text = r.got]
    ELSE [r.seen EXCEPT !.base64_status = "sent"]

Failed(r) ==
    IF r.msg.task = "ocr"
    THEN [r.seen EXCEPT !.ocr_status = "failed"]
    ELSE [r.seen EXCEPT !.base64_status = "failed"]

\* The commit that ends the work; only OCR is announced to the tenant.  On a
\* row deleted meanwhile it raises (TaskRaises).
CommitRun(w) ==
    /\ Running(w, "commit") \/ Running(w, "fail")
    /\ LET r == runs[w] IN
         /\ Exists(r.msg.id)
         /\ rows' = [rows EXCEPT ![r.msg.id] =
               OrmUpdate(@, r.seen, IF r.pc = "commit" THEN Succeeded(r)
                                                       ELSE Failed(r))]
         /\ runs' = IF r.msg.task = "ocr"
                    THEN [runs EXCEPT ![w].pc = "notify"]
                    ELSE [runs EXCEPT ![w] = Nil]
    /\ UNCHANGED <<S3, queue, requests, History, Bounds>>

\* Mutant: that a task ended is taken for success.
NotifySuccess(w) ==
    /\ Running(w, "notify")
    /\ Exists(runs[w].msg.id)
    /\ notified' = [notified EXCEPT ![runs[w].msg.id] = @ \cup {"done"}]
    /\ runs' = [runs EXCEPT ![w] = Nil]
    /\ UNCHANGED <<rows, S3, queue, requests, stranded, wiped, Bounds>>

\* db.refresh, then notify_doc_processed with what the row says by now.
NotifyTenant(w) ==
    /\ Running(w, "notify")
    /\ Exists(runs[w].msg.id)
    /\ notified' = Notified(runs[w].msg.id, rows[runs[w].msg.id])
    /\ runs' = [runs EXCEPT ![w] = Nil]
    /\ UNCHANGED <<rows, S3, queue, requests, stranded, wiped, Bounds>>

\* S3, the database, the broker of a retry or a vanished row makes the task
\* raise outside its `try`: Celery acknowledges the message all the same, as it
\* does when only the pool child that ran the task was killed.
TaskRaises(w) ==
    /\ runs[w] # Nil
    /\ runs[w].pc = "work" => runs[w].msg.retries < MaxRetries
    /\ runs' = [runs EXCEPT ![w] = Nil]
    /\ stranded' = IF runs[w].pc = "notify" THEN stranded
                   ELSE stranded \cup {<<runs[w].msg.task, runs[w].msg.id>>}
    /\ UNCHANGED <<rows, S3, queue, requests, notified, wiped, Bounds>>

\* Mutant: the message was acknowledged when it was delivered.
CrashLosesMessage(w) ==
    /\ runs[w] # Nil
    /\ crashes < MaxCrashes
    /\ crashes' = crashes + 1
    /\ runs' = [runs EXCEPT ![w] = Nil]
    /\ UNCHANGED <<rows, S3, queue, requests, History, calls>>

\* task_acks_late: the message of a worker that dies is delivered again.
WorkerCrash(w) ==
    /\ runs[w] # Nil
    /\ crashes < MaxCrashes
    /\ crashes' = crashes + 1
    /\ queue' = Enqueued(runs[w].msg)
    /\ runs' = [runs EXCEPT ![w] = Nil]
    /\ UNCHANGED <<rows, S3, requests, History, calls>>

-----------------------------------------------------------------------------
Arrive(c) ==
    \/ \E name \in DocNames, content \in Contents, queue_ocr \in BOOLEAN :
          FindByDedupKey(c, name, content, queue_ocr)
    \/ \E d \in DocIds, force \in BOOLEAN : LoadTrigger(c, d, force)
    \/ \E d \in DocIds : DeleteObjects(c, d)

HandlerStep(c) ==
    \/ PutOriginal(c)
    \/ CommitRequest(c)
    \/ RefreshRequest(c)
    \/ PublishTask(c)
    \/ DropRow(c)
    \/ FailRequest(c)

WorkerStep(w) ==
    \/ \E m \in Messages : ReceiveTask(w, m)
    \/ WorkSucceeds(w)
    \/ WorkFails(w)
    \/ WorkRetries(w)
    \/ GiveUp(w)
    \/ StoreJson(w)
    \/ CommitRun(w)
    \/ NotifyTenant(w)
    \/ TaskRaises(w)

Next ==
    \/ \E c \in Callers : Arrive(c) \/ HandlerStep(c)
    \/ \E w \in Workers : WorkerStep(w) \/ WorkerCrash(w)

\* Handlers go on or fail, and workers keep consuming; nothing forces a request
\* to arrive, a provider to answer well or a worker to crash.
Fairness ==
    /\ \A c \in Callers : WF_vars(HandlerStep(c))
    /\ \A w \in Workers : WF_vars(WorkerStep(w))

Spec == Init /\ [][Next]_vars

FairSpec == Spec /\ Fairness
-----------------------------------------------------------------------------
(* What holds. *)

\* Somebody will still deal with the task of this document.
Covered(task, d) ==
    \/ \E m \in Messages : m.task = task /\ m.id = d /\ queue[m] > 0
    \/ \E w \in Workers : /\ runs[w] # Nil /\ runs[w].pc # "notify"
                          /\ runs[w].msg.task = task /\ runs[w].msg.id = d
    \/ \E c \in Callers : /\ requests[c] # Nil /\ requests[c].id = d
                          /\ requests[c].pc \in {"refresh", "publish"}
                          /\ task \in requests[c].tasks

\* A row that waits for a task: for base64 only where the S3 service wrote it,
\* store_local_document leaves the default "pending" and enqueues nothing.
Awaits(d, task) ==
    /\ IsPending(d, task)
    /\ task = "base64" => rows[d].kind = "s3"

\* A row says "pending" only while a message, a worker or a handler still owes
\* it the task, or after that task was lost: concurrent triggers, re-uploads,
\* deletes and re-deliveries never leave a row waiting for nobody, because
\* every path commits "pending" first and enqueues afterwards, and a worker
\* skips only rows that are not pending.
PendingIsCovered ==
    \A task \in Tasks, d \in DocIds :
        Awaits(d, task) /\ <<task, d>> \notin stranded => Covered(task, d)

\* A row's original is in S3, and so is ocr.json if the row says "done", unless
\* a DELETE went for the prefix: bytes are stored before the row speaks of them.
ResultsBacked ==
    \A d \in DocIds : Exists(d) /\ rows[d].kind = "s3" /\ d \notin wiped =>
        /\ originals[d] # Nil
        /\ rows[d].ocr_status = "done" => ocr_jsons[d] # Nil

\* A tenant that was told "done" finds an ocr.json, unless a DELETE went for the
\* prefix.  An announcement says what the row said when it was refreshed,
\* which need not be what its sender wrote: whoever wrote "done", the result was
\* in S3 by then, and no later upload, retry or trigger takes it away.
AnnouncedIsThere ==
    \A d \in DocIds :
        /\ Exists(d) /\ rows[d].kind = "s3" /\ d \notin wiped
        /\ "done" \in notified[d]
        => ocr_jsons[d] # Nil

\* The two pipelines are independent: what the worker of one loaded long ago
\* never overwrites what the other wrote since, nor the file columns a re-upload
\* wrote.  (Its own columns it does: an OCR commit replaces the status and text
\* that a re-upload reset after the task loaded the row.)
PipelinesIndependent ==
    [][\A w \in Workers, d \in DocIds :
         runs[w] # Nil /\ runs'[w] # runs[w] /\ rows'[d] # rows[d] =>
           /\ rows'[d].file = rows[d].file
           /\ IF runs[w].msg.task = "ocr"
              THEN rows'[d].base64_status = rows[d].base64_status
              ELSE /\ rows'[d].ocr_status = rows[d].ocr_status
                   /\ rows'[d].ocr_text = rows[d].ocr_text]_vars

\* Every task that is not lost ends: the row stops saying "pending", whatever
\* was re-delivered, retried or re-triggered.
Settles ==
    \A task \in Tasks, d \in DocIds :
        (Awaits(d, task) /\ <<task, d>> \notin stranded)
            ~> (~IsPending(d, task) \/ <<task, d>> \in stranded)

\* What the row says of a task, in the words of the ledger.
LedgerStatus(task, d) ==
    IF Awaits(d, task) THEN "pending"
    ELSE IF ~Exists(d) THEN "none"
    ELSE CASE StatusFor(rows[d], task) \in {"done", "sent"} -> "done"
           [] StatusFor(rows[d], task) = "failed" -> "failed"
           [] OTHER -> "none"

Ledger == INSTANCE TaskLedger WITH
    TaskIds <- Tasks \X DocIds,
    status  <- [k \in Tasks \X DocIds |-> LedgerStatus(k[1], k[2])],
    owed    <- {k \in Tasks \X DocIds : Covered(k[1], k[2])},
    lost    <- stranded

\* Handlers, broker and workers together keep the ledger, one step of theirs
\* being one entry: work is announced in the row before it is handed out, every
\* hand-over (commit, publish, deliver, retry, redeliver) keeps the debt, and
\* only a worker that holds the task writes its result.
KeepsLedger == Ledger!Spec

-----------------------------------------------------------------------------
(* What the repository says and the code does not do. *)

Quiescent ==
    /\ \A m \in Messages : queue[m] = 0
    /\ \A w \in Workers : runs[w] = Nil
    /\ \A c \in Callers : requests[c] = Nil

\* "FAILED after retries are exhausted" (models/document.py).
FailedAfterRetries ==
    [][\A w \in Workers, task \in Tasks, d \in DocIds :
         /\ Running(w, "work")
         /\ runs[w].msg = [task |-> task, id |-> d, retries |-> MaxRetries]
         /\ runs'[w] = Nil /\ crashes' = crashes
         => ~IsPending(d, task)']_vars

\* DELETE removes the original, the ocr.json "and the DB row" (SPEC 6.5): even
\* if S3 deletes all it is asked to, a worker or a re-upload still writes objects
\* between the two steps.
DeletedLeavesNothing ==
    Quiescent => \A d \in DocIds :
        rows[d] = Gone => originals[d] = Nil /\ ocr_jsons[d] = Nil

\* "After OCR completes successfully: fire once" (SPEC 7): a worker that dies
\* after its commit is not given another chance to announce the result.
OutcomeIsNotified ==
    Quiescent => \A d \in DocIds :
        Exists(d) /\ rows[d].kind = "s3" /\ rows[d].ocr_status = "done"
            => "done" \in notified[d]
=============================================================================
