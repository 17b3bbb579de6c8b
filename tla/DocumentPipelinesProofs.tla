----------------------- MODULE DocumentPipelinesProofs -----------------------
(***************************************************************************)
(* Theorems of DocumentPipelines, for every value of its constants.        *)
(***************************************************************************)
EXTENDS DocumentPipelines, TLAPS

-----------------------------------------------------------------------------
(* Types, and what the fields of a request in flight promise.              *)

\* A request that is not a DELETE has a row to write and a task to enqueue,
\* and one that publishes has the row it refreshed.
WellFormed(r) ==
    /\ r.pc # "drop" => r.new \in Rows /\ r.tasks # {}
    /\ r.pc = "publish" => r.seen \in Rows

RowsType     == rows \in [DocIds -> Rows \cup {Nil, Gone}]
S3Type       == /\ originals \in [DocIds -> Contents \cup {Nil}]
                /\ ocr_jsons \in [DocIds -> Contents \cup {Nil}]
QueueType    == queue \in [Messages -> Nat]
RunsType     == /\ runs \in [Workers -> Runs \cup {Nil}]
                /\ \A w \in Workers : runs[w] # Nil /\ runs[w].pc \in {"store", "commit"}
                     => runs[w].got \in Contents
RequestsType == /\ requests \in [Callers -> Requests \cup {Nil}]
                /\ \A c \in Callers : requests[c] # Nil => WellFormed(requests[c])
HistoryType  == /\ notified \in [DocIds -> SUBSET OcrStatus]
                /\ stranded \subseteq Tasks \X DocIds
                /\ wiped \subseteq DocIds
BoundsType   == calls \in 0..MaxCalls /\ crashes \in 0..MaxCrashes

TypeInv == /\ RowsType /\ S3Type /\ QueueType /\ RunsType
           /\ RequestsType /\ HistoryType /\ BoundsType

LEMMA TypeInvTypes == TypeInv => TypeOK
BY DEF TypeInv, TypeOK, RowsType, S3Type, QueueType, RunsType, RequestsType,
       HistoryType, BoundsType

LEMMA OrmUpdateType ==
    ASSUME NEW current \in Rows, NEW seen \in Rows, NEW new \in Rows
    PROVE  OrmUpdate(current, seen, new) \in Rows
BY DEF OrmUpdate, Rows

LEMMA NewRowType ==
    ASSUME NEW name \in DocNames, NEW content \in Contents, NEW ocr \in BOOLEAN
    PROVE  NewRow(name, content, ocr) \in Rows
BY DEF NewRow, Rows, OcrStatus, Base64Status

LEMMA ReassignedType ==
    ASSUME NEW row \in Rows, NEW content \in Contents, NEW ocr \in BOOLEAN
    PROVE  Reassigned(row, content, ocr) \in Rows
BY DEF Reassigned, Rows, OcrStatus, Base64Status

LEMMA RunUpdateType ==
    ASSUME NEW r \in Runs, r.pc = "commit" => r.got \in Contents
    PROVE  (r.pc = "commit" => Succeeded(r) \in Rows) /\ Failed(r) \in Rows
BY DEF Succeeded, Failed, Runs, Rows, OcrStatus, Base64Status

LEMMA MessageType ==
    ASSUME NEW task \in Tasks, NEW d \in DocIds
    PROVE  Message(task, d) \in Messages
BY PipelineConstants DEF Message, Messages

LEMMA EnqueuedType ==
    ASSUME QueueType, NEW m \in Messages
    PROVE  Enqueued(m) \in [Messages -> Nat]
BY DEF QueueType, Enqueued

\* One handler's record is replaced.
LEMMA OneRequest ==
    ASSUME RequestsType, NEW c \in Callers, NEW r \in Requests \cup {Nil},
           r # Nil => WellFormed(r), requests' = [requests EXCEPT ![c] = r]
    PROVE  RequestsType'
BY DEF RequestsType

\* One worker's record is replaced.
LEMMA OneRun ==
    ASSUME RunsType, NEW w \in Workers, NEW r \in Runs \cup {Nil},
           r # Nil /\ r.pc \in {"store", "commit"} => r.got \in Contents,
           runs' = [runs EXCEPT ![w] = r]
    PROVE  RunsType'
BY DEF RunsType

LEMMA TypeInvInit == Init => TypeInv
<1> SUFFICES ASSUME Init PROVE TypeInv
  OBVIOUS
<1>1. RowsType
  <2>1. PICK name \in [LocalDocs -> DocNames], file \in [LocalDocs -> Contents],
             status \in [LocalDocs -> OcrStatus \ {"pending"}],
             text \in [LocalDocs -> Contents \cup {Nil}] :
          rows = [d \in DocIds |-> IF d \in LocalDocs
                                   THEN LocalRow(name[d], file[d], status[d], text[d])
                                   ELSE Nil]
    BY DEF Init
  <2>2. \A d \in LocalDocs : LocalRow(name[d], file[d], status[d], text[d]) \in Rows
    BY DEF LocalRow, Rows, OcrStatus, Base64Status
  <2> QED
    BY <2>1, <2>2 DEF RowsType
<1>2. S3Type /\ QueueType /\ RunsType /\ RequestsType /\ HistoryType
  BY DEF Init, S3Type, QueueType, RunsType, RequestsType, HistoryType
<1>3. BoundsType
  BY PipelineConstants DEF Init, BoundsType
<1> QED
  BY <1>1, <1>2, <1>3 DEF TypeInv

LEMMA BeginType ==
    ASSUME RequestsType, BoundsType, NEW c \in Callers, NEW r \in Requests,
           WellFormed(r), Begin(c, r), crashes' = crashes
    PROVE  RequestsType' /\ BoundsType'
<1>1. RequestsType'
  BY OneRequest DEF Begin
<1>2. BoundsType'
  BY PipelineConstants DEF Begin, BoundsType
<1> QED
  BY <1>1, <1>2

LEMMA ArriveType ==
    ASSUME TypeInv, NEW c \in Callers, Arrive(c)
    PROVE  TypeInv'
<1>1. ASSUME NEW name \in DocNames, NEW content \in Contents,
             NEW queue_ocr \in BOOLEAN, FindByDedupKey(c, name, content, queue_ocr)
      PROVE  TypeInv'
  <2>1. PICK d \in DocIds :
          Begin(c, [pc |-> "put", op |-> "upload", id |-> d,
                    seen |-> IF Exists(d) THEN rows[d] ELSE Nil,
                    new |-> IF Exists(d)
                            THEN Reassigned(rows[d], content, queue_ocr)
                            ELSE NewRow(name, content, queue_ocr),
                    tasks |-> UploadTasks(queue_ocr)])
    BY <1>1 DEF FindByDedupKey
  <2> DEFINE seen == IF Exists(d) THEN rows[d] ELSE Nil
             new  == IF Exists(d) THEN Reassigned(rows[d], content, queue_ocr)
                     ELSE NewRow(name, content, queue_ocr)
  <2>2. seen \in Rows \cup {Nil} /\ new \in Rows
    BY NewRowType, ReassignedType DEF Exists, TypeInv, RowsType
  <2>3. UploadTasks(queue_ocr) \subseteq Tasks /\ UploadTasks(queue_ocr) # {}
    BY DEF UploadTasks, Tasks
  <2> HIDE DEF seen, new
  <2> DEFINE r == [pc |-> "put", op |-> "upload", id |-> d, seen |-> seen,
                   new |-> new, tasks |-> UploadTasks(queue_ocr)]
  <2>4. r \in Requests /\ WellFormed(r)
    BY <2>2, <2>3 DEF Requests, WellFormed
  <2>5. Begin(c, r)
    BY <2>1 DEF seen, new
  <2> HIDE DEF r
  <2>6. RequestsType' /\ BoundsType'
    BY <1>1, <2>4, <2>5, BeginType DEF TypeInv, FindByDedupKey
  <2> QED
    BY <1>1, <2>6 DEF FindByDedupKey, TypeInv, RowsType, S3Type, QueueType,
                      RunsType, HistoryType, S3, History
<1>2. ASSUME NEW d \in DocIds, NEW force \in BOOLEAN, LoadTrigger(c, d, force)
      PROVE  TypeInv'
  <2> DEFINE r == [pc |-> "commit", op |-> "trigger", id |-> d, seen |-> rows[d],
                   new |-> [rows[d] EXCEPT !.ocr_status = "pending"],
                   tasks |-> {"ocr"}]
  <2>1. rows[d] \in Rows
    BY <1>2 DEF LoadTrigger, Exists, TypeInv, RowsType
  <2>2. [rows[d] EXCEPT !.ocr_status = "pending"] \in Rows
    BY <2>1 DEF Rows, OcrStatus
  <2>3. r \in Requests /\ WellFormed(r)
    BY <2>1, <2>2 DEF Requests, WellFormed, Tasks
  <2>4. RequestsType' /\ BoundsType'
    BY <1>2, <2>3, BeginType DEF TypeInv, LoadTrigger
  <2> QED
    BY <1>2, <2>4 DEF LoadTrigger, TypeInv, RowsType, S3Type, QueueType,
                      RunsType, HistoryType, S3, History
<1>3. ASSUME NEW d \in DocIds, DeleteObjects(c, d)
      PROVE  TypeInv'
  <2> DEFINE r == [pc |-> "drop", op |-> "delete", id |-> d, seen |-> rows[d],
                   new |-> Nil, tasks |-> {}]
  <2>1. rows[d] \in Rows
    BY <1>3 DEF DeleteObjects, Exists, TypeInv, RowsType
  <2>2. r \in Requests /\ WellFormed(r)
    BY <2>1 DEF Requests, WellFormed
  <2>3. RequestsType' /\ BoundsType'
    BY <1>3, <2>2, BeginType DEF TypeInv, DeleteObjects
  <2> QED
    BY <1>3, <2>3 DEF DeleteObjects, DeletedFrom, TypeInv, RowsType, S3Type, QueueType,
                      RunsType, HistoryType
<1> QED
  BY <1>1, <1>2, <1>3 DEF Arrive

LEMMA HandlerType ==
    ASSUME TypeInv, NEW c \in Callers, HandlerStep(c)
    PROVE  TypeInv'
<1> DEFINE r == requests[c]
<1>0. r \in Requests /\ WellFormed(r)
  BY DEF HandlerStep, PutOriginal, CommitRequest, RefreshRequest, PublishTask,
         DropRow, FailRequest, TypeInv, RequestsType
<1>1. ASSUME NEW pc \in {"commit", "refresh"}, GoOn(c, pc), r.pc # "drop"
      PROVE  RequestsType'
  <2> DEFINE q == [r EXCEPT !.pc = pc]
  <2>1. q \in Requests
    BY <1>0 DEF Requests
  <2>2. WellFormed(q)
    BY <1>0, <1>1 DEF Requests, WellFormed
  <2>3. requests' = [requests EXCEPT ![c] = q]
    BY <1>1 DEF GoOn
  <2> HIDE DEF q
  <2> QED
    BY <2>1, <2>2, <2>3, OneRequest DEF TypeInv
<1>2. ASSUME Ends(c) PROVE RequestsType'
  BY <1>2, OneRequest DEF Ends, TypeInv
<1>3. CASE PutOriginal(c)
  <2>1. S3Type'
    BY <1>0, <1>3 DEF PutOriginal, TypeInv, S3Type, WellFormed, Rows
  <2>2. RequestsType'
    BY <1>1, <1>3 DEF PutOriginal
  <2> QED
    BY <1>3, <2>1, <2>2 DEF PutOriginal, TypeInv, RowsType, QueueType, RunsType,
                            HistoryType, BoundsType, History, Bounds
<1>4. CASE CommitRequest(c)
  <2>1. r.new \in Rows /\ r.seen \in Rows \cup {Nil} /\ r.id \in DocIds
    BY <1>0, <1>4 DEF CommitRequest, WellFormed, Requests
  <2>2. Exists(r.id) => rows[r.id] \in Rows
    BY <2>1 DEF Exists, TypeInv, RowsType
  <2>3. Exists(r.id) /\ r.seen # Nil => OrmUpdate(rows[r.id], r.seen, r.new) \in Rows
    BY <2>1, <2>2, OrmUpdateType
  <2>4. RowsType'
    BY <1>4, <2>1, <2>3 DEF CommitRequest, TypeInv, RowsType
  <2>5. RequestsType'
    BY <1>1, <1>4 DEF CommitRequest
  <2> QED
    BY <1>4, <2>4, <2>5 DEF CommitRequest, TypeInv, S3Type, QueueType, RunsType,
                            HistoryType, BoundsType, S3, History, Bounds
<1>5. CASE RefreshRequest(c)
  <2>1. r.id \in DocIds /\ rows[r.id] \in Rows
    BY <1>0, <1>5 DEF RefreshRequest, Requests, Exists, TypeInv, RowsType
  <2> DEFINE q == [r EXCEPT !.pc = "publish", !.seen = rows[r.id]]
  <2>2. q \in Requests /\ WellFormed(q)
    BY <1>0, <1>5, <2>1 DEF Requests, WellFormed, RefreshRequest
  <2>3. requests' = [requests EXCEPT ![c] = q]
    BY <1>5 DEF RefreshRequest
  <2> HIDE DEF q
  <2>4. RequestsType'
    BY <2>2, <2>3, OneRequest DEF TypeInv
  <2> QED
    BY <1>5, <2>4 DEF RefreshRequest, TypeInv, RowsType, S3Type, QueueType,
                      RunsType, HistoryType, BoundsType, S3, History, Bounds
<1>6. CASE PublishTask(c)
  <2> DEFINE task == IF "base64" \in r.tasks THEN "base64" ELSE "ocr"
  <2>1. r.id \in DocIds /\ r.tasks \subseteq Tasks /\ r.seen \in Rows
    BY <1>0, <1>6 DEF PublishTask, Requests, WellFormed
  <2>2. queue' = Enqueued(Message(task, r.id)) /\ task \in Tasks
    BY <1>6 DEF PublishTask, Tasks
  <2>3. QueueType'
    BY <2>1, <2>2, MessageType, EnqueuedType DEF QueueType, TypeInv
  <2>4. RequestsType'
    <3>1. CASE r.tasks = {task}
      BY <1>2, <1>6, <3>1 DEF PublishTask
    <3>2. CASE r.tasks # {task}
      <4> DEFINE q == [r EXCEPT !.tasks = r.tasks \ {task}]
      <4>1. q \in Requests
        BY <1>0, <2>1 DEF Requests
      <4>2. r.tasks \ {task} # {}
        BY <1>0, <1>6, <2>1, <3>2 DEF PublishTask, WellFormed, Tasks
      <4>3. WellFormed(q)
        BY <1>0, <4>2 DEF WellFormed, Requests
      <4>4. requests' = [requests EXCEPT ![c] = q]
        BY <1>6, <3>2 DEF PublishTask
      <4> HIDE DEF q
      <4> QED
        BY <4>1, <4>3, <4>4, OneRequest DEF TypeInv
    <3> QED
      BY <3>1, <3>2
  <2>5. HistoryType'
    <3>1. r.seen.ocr_status \in OcrStatus
      BY <2>1 DEF Rows
    <3>2. UNCHANGED <<stranded, wiped>>
      BY <1>6 DEF PublishTask
    <3>3. notified' = notified
          \/ notified' = [notified EXCEPT ![r.id] = @ \cup {r.seen.ocr_status}]
      BY <1>6 DEF PublishTask, Notified
    <3> QED
      BY <2>1, <3>1, <3>2, <3>3 DEF TypeInv, HistoryType
  <2> QED
    BY <1>6, <2>3, <2>4, <2>5 DEF PublishTask, TypeInv, RowsType, S3Type,
                                  RunsType, BoundsType, S3, Bounds
<1>7. CASE DropRow(c)
  <2>1. RequestsType'
    BY <1>2, <1>7 DEF DropRow
  <2>2. RowsType'
    BY <1>7 DEF DropRow, TypeInv, RowsType
  <2> QED
    BY <1>7, <2>1, <2>2 DEF DropRow, TypeInv, S3Type, QueueType, RunsType,
                            HistoryType, BoundsType, S3, History, Bounds
<1>8. CASE FailRequest(c)
  <2>1. RequestsType'
    BY <1>2, <1>8 DEF FailRequest
  <2>2. r.tasks \X {r.id} \subseteq Tasks \X DocIds
    BY <1>0 DEF Requests
  <2>3. HistoryType'
    BY <1>8, <2>2 DEF FailRequest, TypeInv, HistoryType
  <2> QED
    BY <1>8, <2>1, <2>3 DEF FailRequest, TypeInv, RowsType, S3Type, QueueType,
                            RunsType, BoundsType, S3, Bounds
<1> QED
  BY <1>3, <1>4, <1>5, <1>6, <1>7, <1>8 DEF HandlerStep

\* The record of a run that goes on.
LEMMA RunGoesOn ==
    ASSUME NEW r \in Runs, NEW pc \in {"store", "commit", "fail", "notify"},
           NEW got \in Contents \cup {Nil}, pc \in {"store", "commit"} => got \in Contents
    PROVE  LET q == [r EXCEPT !.pc = pc, !.got = got]
           IN  q \in Runs /\ (q.pc \in {"store", "commit"} => q.got \in Contents)
BY DEF Runs

LEMMA WorkerType ==
    ASSUME TypeInv, NEW w \in Workers, WorkerStep(w) \/ WorkerCrash(w)
    PROVE  TypeInv'
<1> DEFINE r == runs[w]
<1>0. r # Nil => /\ r \in Runs /\ r.msg \in Messages /\ r.msg.id \in DocIds
                 /\ r.msg.task \in Tasks /\ r.seen \in Rows
                 /\ r.pc \in {"store", "commit"} => r.got \in Contents
  BY DEF TypeInv, RunsType, Runs, Messages
<1>1. ASSUME runs' = [runs EXCEPT ![w] = Nil] PROVE RunsType'
  BY <1>1, OneRun DEF TypeInv
<1>2. ASSUME NEW pc \in {"store", "commit", "fail", "notify"}, r # Nil,
             pc \in {"store", "commit"} => r.got \in Contents,
             runs' = [runs EXCEPT ![w].pc = pc]
      PROVE  RunsType'
  <2> DEFINE q == [r EXCEPT !.pc = pc]
  <2>1. q \in Runs /\ (q.pc \in {"store", "commit"} => q.got \in Contents)
    BY <1>0, <1>2 DEF Runs
  <2>2. runs' = [runs EXCEPT ![w] = q]
    BY <1>2
  <2> HIDE DEF q
  <2> QED
    BY <2>1, <2>2, OneRun DEF TypeInv
<1>3. ASSUME NEW m \in Messages, ReceiveTask(w, m) PROVE TypeInv'
  <2>1. QueueType'
    BY <1>3 DEF ReceiveTask, Delivered, TypeInv, QueueType
  <2>2. RunsType'
    <3>1. CASE IsPending(m.id, m.task)
      <4> DEFINE q == [pc |-> "work", msg |-> m, seen |-> rows[m.id], got |-> Nil]
      <4>1. q \in Runs
        BY <3>1 DEF IsPending, Exists, Runs, Messages, TypeInv, RowsType
      <4>2. runs' = [runs EXCEPT ![w] = q]
        BY <1>3, <3>1 DEF ReceiveTask
      <4> QED
        BY <4>1, <4>2, OneRun DEF TypeInv
    <3>2. CASE ~IsPending(m.id, m.task)
      BY <1>3, <3>2 DEF ReceiveTask, TypeInv, RunsType
    <3> QED
      BY <3>1, <3>2
  <2> QED
    BY <1>3, <2>1, <2>2 DEF ReceiveTask, TypeInv, RowsType, S3Type, RequestsType,
                            HistoryType, BoundsType, S3, History, Bounds
<1>4. CASE WorkSucceeds(w)
  <2> DEFINE pc == IF r.msg.task = "ocr" THEN "store" ELSE "commit"
             got == originals[r.msg.id]
             q == [r EXCEPT !.pc = pc, !.got = got]
  <2>1. r # Nil /\ got \in Contents
    BY <1>0, <1>4 DEF WorkSucceeds, Running, TypeInv, S3Type
  <2>2. q \in Runs /\ (q.pc \in {"store", "commit"} => q.got \in Contents)
    BY <1>0, <2>1, RunGoesOn
  <2>3. runs' = [runs EXCEPT ![w] = q]
    BY <1>4 DEF WorkSucceeds
  <2> HIDE DEF q
  <2>4. RunsType'
    BY <2>2, <2>3, OneRun DEF TypeInv
  <2> QED
    BY <1>4, <2>4 DEF WorkSucceeds, TypeInv, RowsType, S3Type, QueueType,
                      RequestsType, HistoryType, BoundsType, S3, History, Bounds
<1>5. CASE WorkFails(w)
  <2>1. RunsType'
    BY <1>2, <1>5 DEF WorkFails, Running
  <2> QED
    BY <1>5, <2>1 DEF WorkFails, TypeInv, RowsType, S3Type, QueueType,
                      RequestsType, HistoryType, BoundsType, S3, History, Bounds
<1>6. CASE WorkRetries(w)
  <2>1. RunsType'
    BY <1>1, <1>6 DEF WorkRetries
  <2>2. [r.msg EXCEPT !.retries = @ + 1] \in Messages
    BY <1>0, <1>6, PipelineConstants DEF WorkRetries, Running, Messages
  <2>3. QueueType'
    BY <1>6, <2>2, EnqueuedType DEF WorkRetries, TypeInv, QueueType
  <2> QED
    BY <1>6, <2>1, <2>3 DEF WorkRetries, TypeInv, RowsType, S3Type,
                      RequestsType, HistoryType, BoundsType, S3, History, Bounds
<1>7. CASE GiveUp(w) \/ TaskRaises(w)
  <2>1. RunsType'
    BY <1>1, <1>7 DEF GiveUp, TaskRaises
  <2>2. HistoryType'
    BY <1>0, <1>7 DEF GiveUp, TaskRaises, Running, TypeInv, HistoryType
  <2> QED
    BY <1>7, <2>1, <2>2 DEF GiveUp, TaskRaises, TypeInv, RowsType, S3Type,
                      QueueType, RequestsType, BoundsType, S3, Bounds
<1>8. CASE StoreJson(w)
  <2>1. RunsType'
    BY <1>0, <1>2, <1>8 DEF StoreJson, Running
  <2>2. S3Type'
    BY <1>0, <1>8 DEF StoreJson, Running, TypeInv, S3Type
  <2> QED
    BY <1>8, <2>1, <2>2 DEF StoreJson, TypeInv, RowsType, QueueType,
                      RequestsType, HistoryType, BoundsType, History, Bounds
<1>9. CASE CommitRun(w)
  <2>1. r # Nil /\ r.pc \in {"commit", "fail"} /\ Exists(r.msg.id)
    BY <1>9 DEF CommitRun, Running
  <2>2. RunsType'
    BY <1>1, <1>2, <1>9, <2>1 DEF CommitRun
  <2> DEFINE new == IF r.pc = "commit" THEN Succeeded(r) ELSE Failed(r)
  <2>3. new \in Rows
    BY <1>0, <2>1, RunUpdateType
  <2>4. rows[r.msg.id] \in Rows
    BY <1>0, <2>1 DEF Exists, TypeInv, RowsType
  <2>5. rows' = [rows EXCEPT ![r.msg.id] = OrmUpdate(@, r.seen, new)]
    BY <1>9 DEF CommitRun
  <2> HIDE DEF new
  <2>6. OrmUpdate(rows[r.msg.id], r.seen, new) \in Rows
    BY <1>0, <2>1, <2>3, <2>4, OrmUpdateType
  <2>7. RowsType'
    BY <2>5, <2>6 DEF TypeInv, RowsType
  <2> QED
    BY <1>9, <2>2, <2>7 DEF CommitRun, TypeInv, S3Type, QueueType,
                      RequestsType, HistoryType, BoundsType, S3, History, Bounds
<1>10. CASE NotifyTenant(w)
  <2>1. RunsType'
    BY <1>1, <1>10 DEF NotifyTenant
  <2>2. rows[r.msg.id] \in Rows
    BY <1>0, <1>10 DEF NotifyTenant, Running, Exists, TypeInv, RowsType
  <2>3. HistoryType'
    BY <1>10, <2>2 DEF NotifyTenant, Notified, TypeInv, HistoryType, Rows
  <2> QED
    BY <1>10, <2>1, <2>3 DEF NotifyTenant, TypeInv, RowsType, S3Type, QueueType,
                      RequestsType, BoundsType, S3, Bounds
<1>11. CASE WorkerCrash(w)
  <2>1. RunsType'
    BY <1>1, <1>11 DEF WorkerCrash
  <2>2. QueueType'
    BY <1>0, <1>11, EnqueuedType DEF WorkerCrash, TypeInv, QueueType
  <2>3. BoundsType'
    BY <1>11, PipelineConstants DEF WorkerCrash, TypeInv, BoundsType
  <2> QED
    BY <1>11, <2>1, <2>2, <2>3 DEF WorkerCrash, TypeInv, RowsType, S3Type,
                      RequestsType, HistoryType, S3, History
<1> QED
  BY <1>3, <1>4, <1>5, <1>6, <1>7, <1>8, <1>9, <1>10, <1>11 DEF WorkerStep

LEMMA TypeInvStep ==
    ASSUME TypeInv, [Next]_vars
    PROVE  TypeInv'
<1>1. CASE UNCHANGED vars
  BY <1>1 DEF vars, TypeInv, RowsType, S3Type, QueueType, RunsType, RequestsType,
              HistoryType, BoundsType
<1> QED
  BY <1>1, ArriveType, HandlerType, WorkerType DEF Next

\* Every reachable state of the document service is well typed: in particular
\* a task stores and commits only bytes it really fetched.
THEOREM PipelinesTypeCorrect == Spec => []TypeOK
<1>1. TypeInv /\ [Next]_vars => TypeInv'
  BY TypeInvStep
<1> QED
  BY <1>1, TypeInvInit, TypeInvTypes, PTL DEF Spec
=============================================================================
