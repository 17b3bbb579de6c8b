------------------------ MODULE DocumentPipelinesSafety ------------------------
(***************************************************************************)
(* The safety of the two pipelines, for every value of the constants of    *)
(* DocumentPipelines, and what it takes for two statements of SPEC.md to   *)
(* hold that the code does not keep in general: an outcome is announced,   *)
(* and a DELETE leaves nothing.                                            *)
(***************************************************************************)
EXTENDS DocumentPipelinesProofs

-----------------------------------------------------------------------------
(* Who changes what.                                                       *)

LEMMA WellTyped == Spec => []TypeInv
<1>1. TypeInv /\ [Next]_vars => TypeInv'
  BY TypeInvStep
<1> QED
  BY <1>1, TypeInvInit, PTL DEF Spec

\* API requests run no tasks.
LEMMA RequestsLeaveRuns ==
    ASSUME NEW c \in Callers, Arrive(c) \/ HandlerStep(c)
    PROVE  runs' = runs
BY DEF Arrive, FindByDedupKey, LoadTrigger, DeleteObjects, HandlerStep,
       PutOriginal, CommitRequest, RefreshRequest, PublishTask, DropRow, FailRequest

\* Workers serve no requests.
LEMMA WorkersLeaveRequests ==
    ASSUME NEW w \in Workers, WorkerStep(w) \/ WorkerCrash(w)
    PROVE  requests' = requests
BY DEF WorkerStep, WorkerCrash, ReceiveTask, WorkSucceeds, WorkFails, WorkRetries,
       GiveUp, StoreJson, CommitRun, NotifyTenant, TaskRaises

\* A worker touches its own run only.
LEMMA WorkerKeepsOthers ==
    ASSUME TypeInv, NEW w \in Workers, WorkerStep(w) \/ WorkerCrash(w),
           NEW v \in Workers, v # w
    PROVE  runs'[v] = runs[v]
BY DEF WorkerStep, WorkerCrash, ReceiveTask, WorkSucceeds, WorkFails, WorkRetries,
       GiveUp, StoreJson, CommitRun, NotifyTenant, TaskRaises, TypeInv, RunsType

\* A request touches its own record only.
LEMMA RequestKeepsOthers ==
    ASSUME TypeInv, NEW c \in Callers, Arrive(c) \/ HandlerStep(c),
           NEW e \in Callers, e # c
    PROVE  requests'[e] = requests[e]
<1>1. CASE Arrive(c)
  BY <1>1 DEF Arrive, FindByDedupKey, LoadTrigger, DeleteObjects, Begin, TypeInv,
              RequestsType
<1>2. CASE HandlerStep(c)
  BY <1>2 DEF HandlerStep, PutOriginal, CommitRequest, RefreshRequest, PublishTask,
              DropRow, FailRequest, GoOn, Ends, TypeInv, RequestsType
<1> QED
  BY <1>1, <1>2

\* Of all that a worker does only the commit of a run writes rows.
LEMMA OnlyCommitsWriteRows ==
    ASSUME NEW w \in Workers, WorkerStep(w) \/ WorkerCrash(w)
    PROVE  rows' = rows \/ CommitRun(w)
BY DEF WorkerStep, WorkerCrash, ReceiveTask, WorkSucceeds, WorkFails, WorkRetries,
       GiveUp, StoreJson, NotifyTenant, TaskRaises

\* Of all that a request does only its commit and its DELETE write rows.
LEMMA OnlyCommitAndDropWriteRows ==
    ASSUME NEW c \in Callers, Arrive(c) \/ HandlerStep(c)
    PROVE  rows' = rows \/ CommitRequest(c) \/ DropRow(c)
BY DEF Arrive, FindByDedupKey, LoadTrigger, DeleteObjects, HandlerStep,
       PutOriginal, RefreshRequest, PublishTask, FailRequest

\* A column that a transaction did not change keeps its current value.
LEMMA OrmUpdateColumn ==
    ASSUME NEW current \in Rows, NEW seen \in Rows, NEW new \in Rows,
           NEW column \in {"name", "kind", "file", "ocr_status", "ocr_text",
                           "base64_status"}
    PROVE  OrmUpdate(current, seen, new)[column]
             = IF new[column] = seen[column] THEN current[column] ELSE new[column]
BY DEF OrmUpdate, Rows

\* The commit of a run, column by column.
LEMMA CommitRunRow ==
    ASSUME TypeInv, NEW w \in Workers, CommitRun(w)
    PROVE  LET r   == runs[w]
               d   == r.msg.id
               new == IF r.pc = "commit" THEN Succeeded(r) ELSE Failed(r)
           IN  /\ r \in Runs /\ r.pc \in {"commit", "fail"}
               /\ d \in DocIds /\ r.msg.task \in Tasks
               /\ Exists(d) /\ rows[d] \in Rows /\ r.seen \in Rows /\ new \in Rows
               /\ rows' = [rows EXCEPT ![d] = OrmUpdate(rows[d], r.seen, new)]
               /\ rows'[d] \in Rows
               /\ rows'[d].kind = rows[d].kind /\ rows'[d].file = rows[d].file
               /\ r.msg.task = "ocr" =>
                    rows'[d].base64_status = rows[d].base64_status
               /\ r.msg.task # "ocr" =>
                    /\ rows'[d].ocr_status = rows[d].ocr_status
                    /\ rows'[d].ocr_text = rows[d].ocr_text
<1> DEFINE r   == runs[w]
           d   == r.msg.id
           new == IF r.pc = "commit" THEN Succeeded(r) ELSE Failed(r)
<1>1. r # Nil /\ r.pc \in {"commit", "fail"} /\ Exists(d)
  BY DEF CommitRun, Running
<1>2. r \in Runs /\ (r.pc = "commit" => r.got \in Contents)
  BY <1>1 DEF TypeInv, RunsType
<1>3. d \in DocIds /\ r.msg.task \in Tasks /\ r.seen \in Rows
  BY <1>2 DEF Runs, Messages
<1>4. new \in Rows
  BY <1>1, <1>2, RunUpdateType
<1>5. rows[d] \in Rows
  BY <1>1, <1>3 DEF Exists, TypeInv, RowsType
<1>6. rows' = [rows EXCEPT ![d] = OrmUpdate(rows[d], r.seen, new)]
  BY DEF CommitRun
<1>7. /\ new.kind = r.seen.kind /\ new.file = r.seen.file
      /\ r.msg.task = "ocr" => new.base64_status = r.seen.base64_status
      /\ r.msg.task # "ocr" => /\ new.ocr_status = r.seen.ocr_status
                               /\ new.ocr_text = r.seen.ocr_text
  BY <1>3 DEF Succeeded, Failed, Rows
<1> HIDE DEF new
<1>8. rows'[d] = OrmUpdate(rows[d], r.seen, new)
  BY <1>3, <1>6 DEF TypeInv, RowsType
<1>9. rows'[d] \in Rows
  BY <1>3, <1>4, <1>5, <1>8, OrmUpdateType
<1>10. /\ rows'[d].kind = rows[d].kind /\ rows'[d].file = rows[d].file
       /\ r.msg.task = "ocr" => rows'[d].base64_status = rows[d].base64_status
       /\ r.msg.task # "ocr" => /\ rows'[d].ocr_status = rows[d].ocr_status
                                /\ rows'[d].ocr_text = rows[d].ocr_text
  BY <1>3, <1>4, <1>5, <1>7, <1>8, OrmUpdateColumn
<1> QED
  BY <1>1, <1>2, <1>3, <1>4, <1>5, <1>6, <1>9, <1>10 DEF new

-----------------------------------------------------------------------------
(* The pipelines are independent.                                          *)

\* However long ago a worker loaded its row, its commit touches only the
\* columns of its own pipeline.
THEOREM PipelinesDoNotInterfere == Spec => PipelinesIndependent
<1>1. ASSUME TypeInv, [Next]_vars, NEW w \in Workers, NEW d \in DocIds,
             runs[w] # Nil, runs'[w] # runs[w], rows'[d] # rows[d]
      PROVE  /\ rows'[d].file = rows[d].file
             /\ IF runs[w].msg.task = "ocr"
                THEN rows'[d].base64_status = rows[d].base64_status
                ELSE /\ rows'[d].ocr_status = rows[d].ocr_status
                     /\ rows'[d].ocr_text = rows[d].ocr_text
  <2>1. Next
    BY <1>1 DEF vars
  <2>2. PICK v \in Workers : WorkerStep(v) \/ WorkerCrash(v)
    BY <1>1, <2>1, RequestsLeaveRuns DEF Next
  <2>3. v = w
    BY <1>1, <2>2, WorkerKeepsOthers
  <2>4. CommitRun(w)
    BY <1>1, <2>2, <2>3, OnlyCommitsWriteRows
  <2>5. d = runs[w].msg.id
    BY <1>1, <2>4, CommitRunRow DEF TypeInv, RowsType
  <2> QED
    BY <1>1, <2>4, <2>5, CommitRunRow
<1>2. TypeInv /\ [Next]_vars =>
        [\A w \in Workers, d \in DocIds :
         runs[w] # Nil /\ runs'[w] # runs[w] /\ rows'[d] # rows[d] =>
           /\ rows'[d].file = rows[d].file
           /\ IF runs[w].msg.task = "ocr"
              THEN rows'[d].base64_status = rows[d].base64_status
              ELSE /\ rows'[d].ocr_status = rows[d].ocr_status
                   /\ rows'[d].ocr_text = rows[d].ocr_text]_vars
  BY <1>1
<1> QED
  BY <1>2, WellTyped, PTL DEF Spec, PipelinesIndependent
-----------------------------------------------------------------------------
(* Rows speak only of objects that are in S3.                              *)

\* A request that makes a row pending for a task is to enqueue that task.
Owed(seen, new, tasks) ==
    \A task \in Tasks : StatusFor(new, task) = "pending" =>
        task \in tasks \/ (seen # Nil /\ StatusFor(seen, task) = "pending")

\* A row about to be written says nothing of results, is pending only for what
\* it was or what will be enqueued, keeps its kind, and if it is to be inserted
\* its original is in S3.
RowsToWriteSound ==
    \A c \in Callers :
        LET r == requests[c] IN
        r # Nil /\ r.pc \in {"put", "commit"} =>
          /\ r.new.ocr_status # "done"
          /\ Owed(r.seen, r.new, r.tasks)
          /\ r.seen # Nil => r.seen \in Rows /\ r.new.kind = r.seen.kind
          /\ r.pc = "commit" /\ r.seen = Nil /\ r.id \notin wiped
               => originals[r.id] # Nil

\* A run about to commit "done" has stored its ocr.json.
RunsBacked ==
    \A w \in Workers :
        LET r == runs[w] IN
        r # Nil /\ r.pc = "commit" /\ r.msg.task = "ocr" /\ r.msg.id \notin wiped
          => ocr_jsons[r.msg.id] # Nil

BackedInv == TypeInv /\ RowsToWriteSound /\ RunsBacked /\ ResultsBacked

LEMMA BackedInit == Init => BackedInv
<1> SUFFICES ASSUME Init PROVE BackedInv
  OBVIOUS
<1>1. TypeInv
  BY TypeInvInit
<1>2. RowsToWriteSound /\ RunsBacked
  BY DEF Init, RowsToWriteSound, RunsBacked
<1>3. ResultsBacked
  <2>1. PICK name \in [LocalDocs -> DocNames], file \in [LocalDocs -> Contents],
             status \in [LocalDocs -> OcrStatus \ {"pending"}],
             text \in [LocalDocs -> Contents \cup {Nil}] :
          rows = [d \in DocIds |-> IF d \in LocalDocs
                                   THEN LocalRow(name[d], file[d], status[d], text[d])
                                   ELSE Nil]
    BY DEF Init
  <2>2. \A d \in DocIds : Exists(d) => rows[d].kind = "local"
    BY <2>1 DEF Exists, LocalRow
  <2> QED
    BY <2>2 DEF ResultsBacked
<1> QED
  BY <1>1, <1>2, <1>3 DEF BackedInv

\* An object of a document is there for good unless a DELETE removes it.
LEMMA ObjectsStay ==
    ASSUME TypeInv, Next, NEW d \in DocIds, d \notin wiped'
    PROVE  /\ d \notin wiped
           /\ originals[d] # Nil => originals'[d] # Nil
           /\ ocr_jsons[d] # Nil => ocr_jsons'[d] # Nil
<1>1. CASE \E c \in Callers : Arrive(c)
  BY <1>1 DEF Arrive, FindByDedupKey, LoadTrigger, DeleteObjects, DeletedFrom,
              TypeInv, S3Type, S3, History
<1>2. ASSUME NEW c \in Callers, HandlerStep(c)
      PROVE  wiped' = wiped /\ (\/ UNCHANGED S3
                                \/ /\ PutOriginal(c)
                                   /\ ocr_jsons' = ocr_jsons)
  BY <1>2 DEF HandlerStep, PutOriginal, CommitRequest, RefreshRequest, PublishTask,
              DropRow, FailRequest, S3, History
<1>3. ASSUME NEW c \in Callers, PutOriginal(c)
      PROVE  originals[d] # Nil => originals'[d] # Nil
  <2>1. requests[c].new.file \in Contents
    BY <1>3 DEF PutOriginal, TypeInv, RequestsType, WellFormed, Rows
  <2> QED
    BY <1>3, <2>1, PipelineMarkers DEF PutOriginal, TypeInv, S3Type
<1>4. ASSUME NEW w \in Workers, WorkerStep(w) \/ WorkerCrash(w)
      PROVE  wiped' = wiped /\ (\/ UNCHANGED S3
                                \/ /\ StoreJson(w)
                                   /\ originals' = originals)
  BY <1>4 DEF WorkerStep, WorkerCrash, ReceiveTask, WorkSucceeds, WorkFails,
              WorkRetries, GiveUp, StoreJson, CommitRun, NotifyTenant, TaskRaises,
              S3, History
<1>5. ASSUME NEW w \in Workers, StoreJson(w)
      PROVE  ocr_jsons[d] # Nil => ocr_jsons'[d] # Nil
  <2>1. runs[w].got \in Contents
    BY <1>5 DEF StoreJson, Running, TypeInv, RunsType
  <2> QED
    BY <1>5, <2>1, PipelineMarkers DEF StoreJson, TypeInv, S3Type
<1> QED
  BY <1>1, <1>2, <1>3, <1>4, <1>5 DEF Next, S3

\* What is in a request before its commit, step by step.
LEMMA RowsToWriteStep ==
    ASSUME BackedInv, Next
    PROVE  RowsToWriteSound'
<1> SUFFICES ASSUME NEW e \in Callers, requests'[e] # Nil,
                    requests'[e].pc \in {"put", "commit"}
             PROVE  LET r == requests'[e] IN
                    /\ r.new.ocr_status # "done"
                    /\ Owed(r.seen, r.new, r.tasks)
                    /\ r.seen # Nil => r.seen \in Rows /\ r.new.kind = r.seen.kind
                    /\ r.pc = "commit" /\ r.seen = Nil /\ r.id \notin wiped'
                         => originals'[r.id] # Nil
  BY DEF RowsToWriteSound, Owed, StatusFor
<1> USE DEF BackedInv
<1>1. CASE requests'[e] = requests[e]
  <2>1. requests[e].id \in DocIds
    BY <1>1 DEF TypeInv, RequestsType, Requests
  <2> QED
    BY <1>1, <2>1, ObjectsStay DEF RowsToWriteSound
<1>2. CASE requests'[e] # requests[e]
  <2>1. Arrive(e) \/ HandlerStep(e)
    BY <1>2, WorkersLeaveRequests, RequestKeepsOthers DEF Next
  <2>2. ASSUME NEW r, Begin(e, r) PROVE requests'[e] = r
    BY <2>2 DEF Begin, TypeInv, RequestsType
  <2>3. ASSUME NEW name \in DocNames, NEW content \in Contents,
               NEW queue_ocr \in BOOLEAN,
               FindByDedupKey(e, name, content, queue_ocr)
        PROVE  LET r == requests'[e] IN
               /\ r.pc = "put" /\ r.new.ocr_status # "done"
               /\ Owed(r.seen, r.new, r.tasks)
               /\ r.seen # Nil => r.seen \in Rows /\ r.new.kind = r.seen.kind
    <3>1. PICK d \in DocIds :
            Begin(e, [pc |-> "put", op |-> "upload", id |-> d,
                      seen |-> IF Exists(d) THEN rows[d] ELSE Nil,
                      new |-> IF Exists(d)
                              THEN Reassigned(rows[d], content, queue_ocr)
                              ELSE NewRow(name, content, queue_ocr),
                      tasks |-> UploadTasks(queue_ocr)])
      BY <2>3 DEF FindByDedupKey
    <3>2. CASE Exists(d)
      <4>1. rows[d] \in Rows
        BY <3>2 DEF Exists, TypeInv, RowsType
      <4>2. /\ Reassigned(rows[d], content, queue_ocr).kind = rows[d].kind
            /\ Reassigned(rows[d], content, queue_ocr).ocr_status # "done"
            /\ Owed(rows[d], Reassigned(rows[d], content, queue_ocr),
                    UploadTasks(queue_ocr))
        BY <4>1 DEF Reassigned, Rows, Owed, UploadTasks, StatusFor, Tasks
      <4>3. requests'[e] = [pc |-> "put", op |-> "upload", id |-> d,
                            seen |-> rows[d],
                            new |-> Reassigned(rows[d], content, queue_ocr),
                            tasks |-> UploadTasks(queue_ocr)]
        BY <2>2, <3>1, <3>2
      <4> QED
        BY <4>1, <4>2, <4>3
    <3>3. CASE ~Exists(d)
      <4>1. /\ NewRow(name, content, queue_ocr).ocr_status # "done"
            /\ Owed(Nil, NewRow(name, content, queue_ocr), UploadTasks(queue_ocr))
        BY DEF NewRow, Owed, UploadTasks, StatusFor, Tasks
      <4>2. requests'[e] = [pc |-> "put", op |-> "upload", id |-> d, seen |-> Nil,
                            new |-> NewRow(name, content, queue_ocr),
                            tasks |-> UploadTasks(queue_ocr)]
        BY <2>2, <3>1, <3>3
      <4> QED
        BY <4>1, <4>2
    <3> QED
      BY <3>2, <3>3
  <2>4. ASSUME NEW d \in DocIds, NEW force \in BOOLEAN, LoadTrigger(e, d, force)
        PROVE  LET r == requests'[e] IN
               /\ r.seen \in Rows /\ r.new.ocr_status # "done"
               /\ Owed(r.seen, r.new, r.tasks)
               /\ r.new.kind = r.seen.kind
    <3>1. rows[d] \in Rows
      BY <2>4 DEF LoadTrigger, Exists, TypeInv, RowsType
    <3>2. requests'[e] = [pc |-> "commit", op |-> "trigger", id |-> d,
                          seen |-> rows[d],
                          new |-> [rows[d] EXCEPT !.ocr_status = "pending"],
                          tasks |-> {"ocr"}]
      BY <2>2, <2>4 DEF LoadTrigger
    <3>3. Owed(rows[d], [rows[d] EXCEPT !.ocr_status = "pending"], {"ocr"})
      BY <3>1, PipelineMarkers DEF Owed, StatusFor, Tasks, Rows
    <3> QED
      BY <3>1, <3>2, <3>3 DEF Rows
  <2>5. CASE \E d \in DocIds : DeleteObjects(e, d)
    BY <2>2, <2>5 DEF DeleteObjects
  <2>6. CASE PutOriginal(e)
    <3>1. /\ requests[e] # Nil /\ requests[e].pc = "put" /\ requests[e] \in Requests
          /\ requests[e].id \in DocIds /\ requests[e].new.file \in Contents
      BY <2>6 DEF PutOriginal, TypeInv, RequestsType, WellFormed, Rows, Requests
    <3>2. requests'[e] = [requests[e] EXCEPT !.pc = "commit"]
      BY <2>6 DEF PutOriginal, GoOn, TypeInv, RequestsType
    <3>3. originals'[requests[e].id] # Nil
      BY <2>6, <3>1, PipelineMarkers DEF PutOriginal, TypeInv, S3Type
    <3>4. /\ requests'[e].new = requests[e].new /\ requests'[e].id = requests[e].id
          /\ requests'[e].seen = requests[e].seen
          /\ requests'[e].tasks = requests[e].tasks
      BY <3>1, <3>2 DEF Requests
    <3> QED
      BY <3>1, <3>3, <3>4 DEF RowsToWriteSound
  <2>7. ASSUME HandlerStep(e), ~PutOriginal(e) PROVE FALSE
    <3>1. requests[e] # Nil => requests[e] \in Requests
      BY DEF TypeInv, RequestsType
    <3>2. CASE CommitRequest(e)
      BY <3>1, <3>2 DEF CommitRequest, GoOn, TypeInv, RequestsType, Requests
    <3>3. CASE RefreshRequest(e)
      BY <3>1, <3>3 DEF RefreshRequest, TypeInv, RequestsType, Requests
    <3>4. CASE PublishTask(e)
      BY <3>1, <3>4 DEF PublishTask, Ends, TypeInv, RequestsType, Requests
    <3>5. CASE DropRow(e) \/ FailRequest(e)
      BY <3>5 DEF DropRow, FailRequest, Ends, TypeInv, RequestsType
    <3> QED
      BY <2>7, <3>2, <3>3, <3>4, <3>5 DEF HandlerStep
  <2>8. CASE Arrive(e)
    <3>1. CASE \E name \in DocNames, content \in Contents, queue_ocr \in BOOLEAN :
                 FindByDedupKey(e, name, content, queue_ocr)
      BY <2>3, <3>1
    <3>2. CASE \E d \in DocIds, force \in BOOLEAN : LoadTrigger(e, d, force)
      <4>1. requests'[e].seen \in Rows /\ requests'[e].new.ocr_status # "done"
            /\ requests'[e].new.kind = requests'[e].seen.kind
            /\ Owed(requests'[e].seen, requests'[e].new, requests'[e].tasks)
        BY <2>4, <3>2
      <4> QED
        BY <4>1, PipelineMarkers
    <3> QED
      BY <2>5, <2>8, <3>1, <3>2 DEF Arrive
  <2> QED
    BY <2>1, <2>6, <2>7, <2>8
<1> QED
  BY <1>1, <1>2

\* An OCR run reaches its commit only through upload_json.
LEMMA RunsBackedStep ==
    ASSUME BackedInv, Next
    PROVE  RunsBacked'
<1> SUFFICES ASSUME NEW w \in Workers, runs'[w] # Nil, runs'[w].pc = "commit",
                    runs'[w].msg.task = "ocr", runs'[w].msg.id \notin wiped'
             PROVE  ocr_jsons'[runs'[w].msg.id] # Nil
  BY DEF RunsBacked
<1> USE DEF BackedInv
<1>1. CASE runs'[w] = runs[w]
  <2>1. runs[w].msg.id \in DocIds
    BY <1>1 DEF TypeInv, RunsType, Runs, Messages
  <2> QED
    BY <1>1, <2>1, ObjectsStay DEF RunsBacked
<1>2. CASE runs'[w] # runs[w]
  <2>1. WorkerStep(w) \/ WorkerCrash(w)
    BY <1>2, RequestsLeaveRuns, WorkerKeepsOthers DEF Next
  <2>2. runs[w] # Nil => runs[w] \in Runs
    BY DEF TypeInv, RunsType
  <2>3. CASE StoreJson(w)
    <3>1. runs[w] \in Runs /\ runs[w].got \in Contents /\ runs[w].msg.id \in DocIds
      BY <2>3 DEF StoreJson, Running, TypeInv, RunsType, Runs, Messages
    <3>2. runs'[w].msg = runs[w].msg
      BY <2>3, <3>1 DEF StoreJson, TypeInv, RunsType, Runs
    <3> QED
      BY <2>3, <3>1, <3>2, PipelineMarkers DEF StoreJson, TypeInv, S3Type
  <2>4. CASE \E m \in Messages : ReceiveTask(w, m)
    BY <1>2, <2>4 DEF ReceiveTask, TypeInv, RunsType
  <2>5. CASE WorkSucceeds(w)
    <3>1. runs[w] \in Runs
      BY <2>2, <2>5 DEF WorkSucceeds, Running
    <3>2. runs'[w] = [runs[w] EXCEPT
                        !.pc = IF runs[w].msg.task = "ocr" THEN "store" ELSE "commit",
                        !.got = originals[runs[w].msg.id]]
      BY <2>5 DEF WorkSucceeds, TypeInv, RunsType
    <3>3. /\ runs'[w].msg = runs[w].msg
          /\ runs'[w].pc = IF runs[w].msg.task = "ocr" THEN "store" ELSE "commit"
      BY <3>1, <3>2 DEF Runs
    <3> QED
      BY <3>3
  <2>6. CASE WorkFails(w)
    BY <2>2, <2>6 DEF WorkFails, Running, TypeInv, RunsType, Runs
  <2>7. CASE CommitRun(w)
    BY <2>2, <2>7 DEF CommitRun, Running, TypeInv, RunsType, Runs
  <2>8. CASE WorkRetries(w) \/ GiveUp(w) \/ NotifyTenant(w) \/ TaskRaises(w)
             \/ WorkerCrash(w)
    BY <2>8 DEF WorkRetries, GiveUp, NotifyTenant, TaskRaises, WorkerCrash,
                TypeInv, RunsType
  <2> QED
    BY <2>1, <2>3, <2>4, <2>5, <2>6, <2>7, <2>8 DEF WorkerStep
<1> QED
  BY <1>1, <1>2

\* The commit of a request, column by column.
LEMMA CommitRequestRow ==
    ASSUME TypeInv, NEW c \in Callers, CommitRequest(c),
           requests[c].seen # Nil => /\ requests[c].seen \in Rows
                                     /\ requests[c].new.kind = requests[c].seen.kind
    PROVE  LET r == requests[c] IN
           /\ r \in Requests /\ r.id \in DocIds /\ r.new \in Rows
           /\ r.pc = "commit"
           /\ \A d \in DocIds : d # r.id => rows'[d] = rows[d]
           /\ r.seen = Nil => rows'[r.id] = r.new
           /\ r.seen # Nil =>
                /\ Exists(r.id) /\ rows[r.id] \in Rows /\ r.seen \in Rows
                /\ rows'[r.id] = OrmUpdate(rows[r.id], r.seen, r.new)
                /\ rows'[r.id].kind = rows[r.id].kind
<1> DEFINE r == requests[c]
<1>1. r # Nil /\ r.pc = "commit"
  BY DEF CommitRequest
<1>2. r \in Requests /\ r.id \in DocIds /\ r.new \in Rows
  BY <1>1 DEF TypeInv, RequestsType, WellFormed, Requests
<1>3. CASE r.seen = Nil
  BY <1>1, <1>2, <1>3 DEF CommitRequest, TypeInv, RowsType
<1>4. CASE r.seen # Nil
  <2>1. Exists(r.id) /\ rows' = [rows EXCEPT ![r.id] = OrmUpdate(@, r.seen, r.new)]
    BY <1>4 DEF CommitRequest
  <2>2. rows[r.id] \in Rows
    BY <1>2, <2>1 DEF Exists, TypeInv, RowsType
  <2>3. rows'[r.id] = OrmUpdate(rows[r.id], r.seen, r.new)
    BY <1>2, <2>1 DEF TypeInv, RowsType
  <2>4. rows'[r.id].kind = rows[r.id].kind
    BY <1>2, <1>4, <2>2, <2>3, OrmUpdateColumn
  <2> QED
    BY <1>1, <1>2, <1>4, <2>1, <2>2, <2>3, <2>4 DEF TypeInv, RowsType
<1> QED
  BY <1>3, <1>4

LEMMA ResultsBackedStep ==
    ASSUME BackedInv, Next
    PROVE  ResultsBacked'
<1> SUFFICES ASSUME NEW d \in DocIds, Exists(d)', rows'[d].kind = "s3",
                    d \notin wiped'
             PROVE  /\ originals'[d] # Nil
                    /\ rows'[d].ocr_status = "done" => ocr_jsons'[d] # Nil
  BY DEF ResultsBacked, Exists
<1> USE DEF BackedInv
<1>1. /\ d \notin wiped
      /\ originals[d] # Nil => originals'[d] # Nil
      /\ ocr_jsons[d] # Nil => ocr_jsons'[d] # Nil
  BY ObjectsStay
<1>2. ASSUME Exists(d), rows[d].kind = "s3"
      PROVE  /\ originals[d] # Nil
             /\ rows[d].ocr_status = "done" => ocr_jsons[d] # Nil
  BY <1>1, <1>2 DEF ResultsBacked
<1>3. CASE rows'[d] = rows[d]
  BY <1>1, <1>2, <1>3 DEF Exists
<1>4. ASSUME rows'[d] # rows[d], NEW c \in Callers, CommitRequest(c)
      PROVE  /\ originals'[d] # Nil
             /\ rows'[d].ocr_status = "done" => ocr_jsons'[d] # Nil
  <2> DEFINE r == requests[c]
  <2>1. r # Nil /\ r.pc = "commit"
    BY <1>4 DEF CommitRequest
  <2>2. /\ r.new.ocr_status # "done"
        /\ r.seen # Nil => r.seen \in Rows /\ r.new.kind = r.seen.kind
        /\ r.seen = Nil /\ r.id \notin wiped => originals[r.id] # Nil
    BY <2>1 DEF RowsToWriteSound
  <2>3. r.id = d
    BY <1>4, <2>2, CommitRequestRow
  <2>4. CASE r.seen = Nil
    BY <1>1, <1>4, <2>2, <2>3, <2>4, CommitRequestRow
  <2>5. CASE r.seen # Nil
    <3>1. /\ Exists(d) /\ rows[d].kind = "s3"
          /\ rows[d] \in Rows /\ r.seen \in Rows /\ r.new \in Rows
          /\ rows'[d] = OrmUpdate(rows[d], r.seen, r.new)
      BY <1>4, <2>2, <2>3, <2>5, CommitRequestRow
    <3>2. rows'[d].ocr_status = IF r.new.ocr_status = r.seen.ocr_status
                                THEN rows[d].ocr_status ELSE r.new.ocr_status
      BY <3>1, OrmUpdateColumn
    <3> QED
      BY <1>1, <1>2, <2>2, <3>1, <3>2
  <2> QED
    BY <2>4, <2>5
<1>5. ASSUME rows'[d] # rows[d], NEW w \in Workers, CommitRun(w)
      PROVE  /\ originals'[d] # Nil
             /\ rows'[d].ocr_status = "done" => ocr_jsons'[d] # Nil
  <2> DEFINE r   == runs[w]
             new == IF r.pc = "commit" THEN Succeeded(r) ELSE Failed(r)
  <2>1. /\ r \in Runs /\ r.pc \in {"commit", "fail"} /\ r.msg.id \in DocIds
        /\ Exists(r.msg.id) /\ rows[r.msg.id] \in Rows
        /\ r.seen \in Rows /\ new \in Rows
        /\ rows' = [rows EXCEPT ![r.msg.id] = OrmUpdate(rows[r.msg.id], r.seen, new)]
        /\ rows'[r.msg.id].kind = rows[r.msg.id].kind
        /\ r.msg.task # "ocr" => rows'[r.msg.id].ocr_status = rows[r.msg.id].ocr_status
    BY <1>5, CommitRunRow
  <2>2. r.msg.id = d
    BY <1>5, <2>1 DEF TypeInv, RowsType
  <2>3. CASE r.msg.task = "ocr" /\ r.pc = "commit"
    <3>1. ocr_jsons[d] # Nil
      BY <1>1, <1>5, <2>2, <2>3 DEF RunsBacked, CommitRun, Running
    <3> QED
      BY <1>1, <1>2, <2>1, <2>2, <3>1
  <2>4. CASE r.msg.task = "ocr" /\ r.pc = "fail"
    <3>1. new.ocr_status = "failed"
      BY <2>1, <2>4 DEF Failed, Rows
    <3>2. rows'[d] = OrmUpdate(rows[d], r.seen, new)
      BY <2>1, <2>2 DEF TypeInv, RowsType
    <3> HIDE DEF new
    <3>3. rows'[d].ocr_status = rows[d].ocr_status \/ rows'[d].ocr_status = "failed"
      BY <2>1, <2>2, <3>1, <3>2, OrmUpdateColumn
    <3> QED
      BY <1>1, <1>2, <2>1, <2>2, <3>3
  <2>5. CASE r.msg.task # "ocr"
    BY <1>1, <1>2, <2>1, <2>2, <2>5
  <2> QED
    BY <2>1, <2>3, <2>4, <2>5
<1>6. ASSUME NEW c \in Callers, DropRow(c) PROVE rows'[d] = rows[d]
  BY <1>6 DEF DropRow, TypeInv, RowsType, Exists
<1>7. ASSUME rows'[d] # rows[d]
      PROVE  \/ \E c \in Callers : CommitRequest(c)
             \/ \E w \in Workers : CommitRun(w)
  <2>1. CASE \E c \in Callers : Arrive(c) \/ HandlerStep(c)
    BY <1>6, <1>7, <2>1, OnlyCommitAndDropWriteRows
  <2>2. CASE \E w \in Workers : WorkerStep(w) \/ WorkerCrash(w)
    BY <1>7, <2>2, OnlyCommitsWriteRows
  <2> QED
    BY <2>1, <2>2 DEF Next
<1> QED
  BY <1>3, <1>4, <1>5, <1>7

\* A row of the S3 service whose prefix no DELETE emptied has its original in
\* S3, and its ocr.json once it says "done".
THEOREM ObjectsBackResults == Spec => []ResultsBacked
<1>1. BackedInv /\ [Next]_vars => BackedInv'
  <2>1. ASSUME BackedInv, Next PROVE BackedInv'
    BY <2>1, TypeInvStep, RowsToWriteStep, RunsBackedStep, ResultsBackedStep
       DEF BackedInv
  <2>2. ASSUME BackedInv, UNCHANGED vars PROVE BackedInv'
    <3>1. TypeInv'
      BY <2>2, TypeInvStep DEF BackedInv
    <3> QED
      BY <2>2, <3>1 DEF vars, BackedInv, RowsToWriteSound, RunsBacked,
                        ResultsBacked, Exists
  <2> QED
    BY <2>1, <2>2
<1>2. BackedInv => ResultsBacked
  BY DEF BackedInv
<1> QED
  BY <1>1, <1>2, BackedInit, PTL DEF Spec
-----------------------------------------------------------------------------
(* A pending row is owed its task.                                         *)

\* A run that has not committed loaded a row that waited for its task.
RunsOwe ==
    \A w \in Workers :
        runs[w] # Nil /\ runs[w].pc # "notify" =>
            StatusFor(runs[w].seen, runs[w].msg.task) = "pending"

CoverInv == BackedInv /\ RunsOwe /\ PendingIsCovered

LEMMA CoverInit == Init => CoverInv
<1> SUFFICES ASSUME Init PROVE CoverInv
  OBVIOUS
<1>1. BackedInv /\ RunsOwe
  BY BackedInit DEF Init, RunsOwe
<1>2. PendingIsCovered
  <2>1. PICK name \in [LocalDocs -> DocNames], file \in [LocalDocs -> Contents],
             status \in [LocalDocs -> OcrStatus \ {"pending"}],
             text \in [LocalDocs -> Contents \cup {Nil}] :
          rows = [d \in DocIds |-> IF d \in LocalDocs
                                   THEN LocalRow(name[d], file[d], status[d], text[d])
                                   ELSE Nil]
    BY DEF Init
  <2>2. ASSUME NEW d \in DocIds, NEW task \in Tasks PROVE ~Awaits(d, task)
    <3>1. CASE d \in LocalDocs
      <4>1. rows[d].kind = "local" /\ rows[d].ocr_status # "pending"
        BY <2>1, <3>1 DEF LocalRow
      <4> QED
        BY <4>1 DEF Awaits, IsPending, StatusFor, Tasks
    <3>2. CASE d \notin LocalDocs
      BY <2>1, <3>2 DEF Awaits, IsPending, Exists
    <3> QED
      BY <3>1, <3>2
  <2> QED
    BY <2>2 DEF PendingIsCovered
<1> QED
  BY <1>1, <1>2 DEF CoverInv

LEMMA RunsOweStep ==
    ASSUME CoverInv, Next
    PROVE  RunsOwe'
<1> SUFFICES ASSUME NEW w \in Workers, runs'[w] # Nil, runs'[w].pc # "notify",
                    runs'[w] # runs[w]
             PROVE  StatusFor(runs'[w].seen, runs'[w].msg.task) = "pending"
  BY DEF RunsOwe, CoverInv, StatusFor
<1> USE DEF CoverInv, BackedInv
<1>1. WorkerStep(w) \/ WorkerCrash(w)
  BY RequestsLeaveRuns, WorkerKeepsOthers DEF Next
<1>2. runs[w] # Nil => runs[w] \in Runs
  BY DEF TypeInv, RunsType
<1>3. ASSUME NEW m \in Messages, ReceiveTask(w, m)
      PROVE  StatusFor(runs'[w].seen, runs'[w].msg.task) = "pending"
  <2>1. IsPending(m.id, m.task)
    BY <1>3 DEF ReceiveTask, TypeInv, RunsType
  <2>2. runs'[w] = [pc |-> "work", msg |-> m, seen |-> rows[m.id], got |-> Nil]
    BY <1>3, <2>1 DEF ReceiveTask, TypeInv, RunsType
  <2> QED
    BY <2>1, <2>2 DEF IsPending, StatusFor
<1>4. CASE WorkSucceeds(w) \/ WorkFails(w) \/ StoreJson(w)
  <2>1. runs[w] \in Runs /\ runs[w].pc \in {"work", "store"}
    BY <1>2, <1>4 DEF WorkSucceeds, WorkFails, StoreJson, Running
  <2>2. runs'[w].seen = runs[w].seen /\ runs'[w].msg = runs[w].msg
    BY <1>4, <2>1 DEF WorkSucceeds, WorkFails, StoreJson, TypeInv, RunsType, Runs
  <2>3. runs[w] # Nil
    BY <1>4 DEF WorkSucceeds, WorkFails, StoreJson, Running
  <2> QED
    BY <2>1, <2>2, <2>3 DEF RunsOwe
<1>5. CASE CommitRun(w)
  BY <1>2, <1>5 DEF CommitRun, Running, TypeInv, RunsType, Runs
<1>6. CASE WorkRetries(w) \/ GiveUp(w) \/ NotifyTenant(w) \/ TaskRaises(w)
           \/ WorkerCrash(w)
  BY <1>6 DEF WorkRetries, GiveUp, NotifyTenant, TaskRaises, WorkerCrash,
              TypeInv, RunsType
<1> QED
  BY <1>1, <1>3, <1>4, <1>5, <1>6 DEF WorkerStep

\* Only its delivery takes a message out of the queue.
LEMMA MessagesStay ==
    ASSUME TypeInv, Next, NEW m \in Messages, queue[m] > 0
    PROVE  queue'[m] > 0 \/ \E w \in Workers : ReceiveTask(w, m)
<1>1. ASSUME NEW n \in Messages, queue' = Enqueued(n) PROVE queue'[m] > 0
  BY <1>1 DEF Enqueued, TypeInv, QueueType
<1>2. ASSUME NEW c \in Callers, Arrive(c) PROVE queue' = queue
  BY <1>2 DEF Arrive, FindByDedupKey, LoadTrigger, DeleteObjects
<1>3. ASSUME NEW c \in Callers, HandlerStep(c) PROVE queue'[m] > 0
  <2>1. CASE PublishTask(c)
    <3>1. requests[c] \in Requests /\ requests[c].id \in DocIds
      BY <2>1 DEF PublishTask, TypeInv, RequestsType, Requests
    <3>2. PICK task \in Tasks : queue' = Enqueued(Message(task, requests[c].id))
      BY <2>1 DEF PublishTask, Tasks
    <3> QED
      BY <1>1, <3>1, <3>2, MessageType
  <2> QED
    BY <1>3, <2>1 DEF HandlerStep, PutOriginal, CommitRequest, RefreshRequest,
                      DropRow, FailRequest
<1>4. ASSUME NEW w \in Workers, WorkerStep(w) \/ WorkerCrash(w)
      PROVE  queue'[m] > 0 \/ ReceiveTask(w, m)
  <2>1. runs[w] # Nil => runs[w].msg \in Messages
    BY DEF TypeInv, RunsType, Runs
  <2>2. CASE WorkRetries(w)
    <3>1. [runs[w].msg EXCEPT !.retries = @ + 1] \in Messages
      BY <2>1, <2>2, PipelineConstants DEF WorkRetries, Running, Messages
    <3> QED
      BY <1>1, <2>2, <3>1 DEF WorkRetries
  <2>3. CASE WorkerCrash(w)
    BY <1>1, <2>1, <2>3 DEF WorkerCrash
  <2>4. ASSUME NEW n \in Messages, ReceiveTask(w, n), n # m PROVE queue'[m] > 0
    BY <2>4 DEF ReceiveTask, Delivered, TypeInv, QueueType
  <2> QED
    BY <1>4, <2>2, <2>3, <2>4 DEF WorkerStep, WorkSucceeds, WorkFails, GiveUp,
                                  StoreJson, CommitRun, NotifyTenant, TaskRaises
<1> QED
  BY <1>2, <1>3, <1>4 DEF Next

\* A commit of a run takes its row out of "pending".
LEMMA CommitRunSettles ==
    ASSUME CoverInv, NEW w \in Workers, CommitRun(w),
           NEW d, NEW task, runs[w].msg.id = d, runs[w].msg.task = task
    PROVE  ~IsPending(d, task)'
<1> DEFINE r   == runs[w]
           new == IF r.pc = "commit" THEN Succeeded(r) ELSE Failed(r)
<1>1. /\ r \in Runs /\ r.pc \in {"commit", "fail"}
      /\ d \in DocIds /\ task \in Tasks
      /\ rows[d] \in Rows /\ r.seen \in Rows /\ new \in Rows
      /\ rows' = [rows EXCEPT ![d] = OrmUpdate(rows[d], r.seen, new)]
  BY CommitRunRow DEF CoverInv, BackedInv
<1>2. rows'[d] = OrmUpdate(rows[d], r.seen, new)
  BY <1>1 DEF CoverInv, BackedInv, TypeInv, RowsType
<1>3. StatusFor(r.seen, task) = "pending"
  BY <1>1 DEF CoverInv, RunsOwe, CommitRun, Running
<1>4. StatusFor(new, task) # "pending"
  BY <1>1 DEF StatusFor, Succeeded, Failed, Tasks, Rows
<1> HIDE DEF new
<1>5. StatusFor(rows'[d], task) # "pending"
  BY <1>1, <1>2, <1>3, <1>4, OrmUpdateColumn DEF StatusFor
<1> QED
  BY <1>5 DEF IsPending, StatusFor

\* Whoever owes a task hands it on, settles it, or its loss is recorded.
LEMMA CoverStays ==
    ASSUME CoverInv, Next, NEW task \in Tasks, NEW d \in DocIds, Covered(task, d),
           <<task, d>> \notin stranded', IsPending(d, task)'
    PROVE  Covered(task, d)'
<1> USE DEF CoverInv, BackedInv
<1>1. ASSUME NEW m \in Messages, m.task = task, m.id = d, queue'[m] > 0
      PROVE  Covered(task, d)'
  BY <1>1 DEF Covered
<1>2. ASSUME NEW w \in Workers, runs'[w] # Nil, runs'[w].pc # "notify",
             runs'[w].msg.task = task, runs'[w].msg.id = d
      PROVE  Covered(task, d)'
  BY <1>2 DEF Covered
<1>3. ASSUME NEW c \in Callers, requests'[c] # Nil, requests'[c].id = d,
             requests'[c].pc \in {"refresh", "publish"}, task \in requests'[c].tasks
      PROVE  Covered(task, d)'
  BY <1>3 DEF Covered
<1>4. ASSUME NEW m \in Messages, m.task = task, m.id = d, queue[m] > 0
      PROVE  Covered(task, d)'
  <2>1. ASSUME NEW w \in Workers, ReceiveTask(w, m) PROVE Covered(task, d)'
    <3>1. IsPending(d, task)
      BY <2>1 DEF ReceiveTask, IsPending, Exists, StatusFor
    <3>2. runs'[w] = [pc |-> "work", msg |-> m, seen |-> rows[m.id], got |-> Nil]
      BY <1>4, <2>1, <3>1 DEF ReceiveTask, TypeInv, RunsType
    <3>3. runs'[w] \in Runs
      BY <1>4, <3>1, <3>2 DEF IsPending, Exists, Runs, Messages, TypeInv, RowsType
    <3> QED
      BY <1>2, <1>4, <3>2, <3>3, PipelineMarkers
  <2> QED
    BY <1>1, <1>4, <2>1, MessagesStay
<1>5. ASSUME NEW w \in Workers, runs[w] # Nil, runs[w].pc # "notify",
             runs[w].msg.task = task, runs[w].msg.id = d
      PROVE  Covered(task, d)'
  <2>1. runs[w] \in Runs /\ runs[w].msg \in Messages
    BY <1>5 DEF TypeInv, RunsType, Runs
  <2>2. CASE runs'[w] = runs[w]
    BY <1>2, <1>5, <2>2
  <2>3. CASE WorkSucceeds(w) \/ WorkFails(w) \/ StoreJson(w)
    <3>1. runs'[w].msg = runs[w].msg /\ runs'[w].pc \in {"store", "commit", "fail"}
      BY <2>1, <2>3 DEF WorkSucceeds, WorkFails, StoreJson, TypeInv, RunsType, Runs
    <3>2. runs'[w] \in Runs
      <4>1. CASE WorkSucceeds(w)
        <5>1. originals[runs[w].msg.id] \in Contents \cup {Nil}
          BY <2>1 DEF TypeInv, S3Type, Messages
        <5>2. runs'[w] = [runs[w] EXCEPT
                !.pc = IF runs[w].msg.task = "ocr" THEN "store" ELSE "commit",
                !.got = originals[runs[w].msg.id]]
          BY <4>1 DEF WorkSucceeds, TypeInv, RunsType
        <5> QED
          BY <2>1, <5>1, <5>2 DEF Runs
      <4>2. CASE WorkFails(w) \/ StoreJson(w)
        BY <2>1, <4>2 DEF WorkFails, StoreJson, TypeInv, RunsType, Runs
      <4> QED
        BY <2>3, <4>1, <4>2
    <3> QED
      BY <1>2, <1>5, <3>1, <3>2, PipelineMarkers
  <2>4. CASE WorkRetries(w)
    <3> DEFINE n == [runs[w].msg EXCEPT !.retries = @ + 1]
    <3>1. n \in Messages /\ n.task = task /\ n.id = d
      BY <1>5, <2>1, <2>4, PipelineConstants DEF WorkRetries, Messages
    <3>2. queue' = Enqueued(n)
      BY <2>4 DEF WorkRetries
    <3> HIDE DEF n
    <3>3. queue'[n] > 0
      BY <3>1, <3>2 DEF Enqueued, TypeInv, QueueType
    <3> QED
      BY <1>1, <3>1, <3>3
  <2>5. CASE WorkerCrash(w)
    <3>1. queue'[runs[w].msg] > 0
      BY <2>1, <2>5 DEF WorkerCrash, Enqueued, TypeInv, QueueType
    <3> QED
      BY <1>1, <1>5, <2>1, <3>1
  <2>6. CASE GiveUp(w) \/ TaskRaises(w)
    BY <1>5, <2>6 DEF GiveUp, TaskRaises
  <2>7. CASE CommitRun(w)
    BY <1>5, <2>7, CommitRunSettles
  <2>8. CASE NotifyTenant(w) \/ \E m \in Messages : ReceiveTask(w, m)
    BY <1>5, <2>8 DEF NotifyTenant, ReceiveTask, Running
  <2>9. runs'[w] = runs[w] \/ WorkerStep(w) \/ WorkerCrash(w)
    BY RequestsLeaveRuns, WorkerKeepsOthers DEF Next
  <2> QED
    BY <2>2, <2>3, <2>4, <2>5, <2>6, <2>7, <2>8, <2>9 DEF WorkerStep
<1>6. ASSUME NEW c \in Callers, requests[c] # Nil, requests[c].id = d,
             requests[c].pc \in {"refresh", "publish"}, task \in requests[c].tasks
      PROVE  Covered(task, d)'
  <2>1. requests[c] \in Requests /\ requests[c].tasks \subseteq Tasks
    BY <1>6 DEF TypeInv, RequestsType, Requests
  <2>2. CASE requests'[c] = requests[c]
    BY <1>3, <1>6, <2>2
  <2>3. CASE RefreshRequest(c)
    <3>1. /\ requests'[c].pc = "publish" /\ requests'[c].id = requests[c].id
          /\ requests'[c].tasks = requests[c].tasks
      BY <2>1, <2>3 DEF RefreshRequest, TypeInv, RequestsType, Requests
    <3>2. requests'[c] # Nil
      <4>1. rows[d] \in Rows
        BY <1>6, <2>3 DEF RefreshRequest, Exists, TypeInv, RowsType
      <4>2. requests'[c] = [requests[c] EXCEPT !.pc = "publish", !.seen = rows[d]]
        BY <1>6, <2>3 DEF RefreshRequest, TypeInv, RequestsType
      <4>3. requests'[c] \in Requests
        BY <2>1, <4>1, <4>2 DEF Requests
      <4> QED
        BY <4>3, PipelineMarkers
    <3> QED
      BY <1>3, <1>6, <3>1, <3>2
  <2>4. CASE PublishTask(c)
    <3> DEFINE first == IF "base64" \in requests[c].tasks THEN "base64" ELSE "ocr"
    <3>1. queue' = Enqueued(Message(first, d)) /\ first \in Tasks
      BY <1>6, <2>4 DEF PublishTask, Tasks
    <3>2. CASE task = first
      <4>1. Message(task, d) \in Messages
        BY MessageType
      <4>2. queue'[Message(task, d)] > 0
        BY <3>1, <3>2, <4>1 DEF Enqueued, TypeInv, QueueType
      <4> QED
        BY <1>1, <4>1, <4>2 DEF Message
    <3>3. CASE task # first
      <4>1. requests[c].tasks # {first}
        BY <1>6, <3>3
      <4>2. requests'[c] = [requests[c] EXCEPT !.tasks = @ \ {first}]
        BY <2>4, <4>1 DEF PublishTask, TypeInv, RequestsType
      <4>3. /\ requests'[c] \in Requests
            /\ requests'[c].pc = requests[c].pc /\ requests'[c].id = requests[c].id
            /\ requests'[c].tasks = requests[c].tasks \ {first}
        BY <2>1, <4>2 DEF Requests
      <4> QED
        BY <1>3, <1>6, <3>3, <4>3, PipelineMarkers
    <3> QED
      BY <3>2, <3>3
  <2>5. CASE FailRequest(c)
    BY <1>6, <2>5 DEF FailRequest
  <2>6. CASE PutOriginal(c) \/ CommitRequest(c) \/ DropRow(c) \/ Arrive(c)
    BY <1>6, <2>6 DEF PutOriginal, CommitRequest, DropRow, Arrive, FindByDedupKey,
                      LoadTrigger, DeleteObjects, Begin
  <2>7. requests'[c] = requests[c] \/ Arrive(c) \/ HandlerStep(c)
    BY WorkersLeaveRequests, RequestKeepsOthers DEF Next
  <2> QED
    BY <2>2, <2>3, <2>4, <2>5, <2>6, <2>7 DEF HandlerStep
<1> QED
  BY <1>4, <1>5, <1>6 DEF Covered

\* A row comes to wait for a task only when a request commits that is to
\* enqueue it.
LEMMA NewlyAwaited ==
    ASSUME CoverInv, Next, NEW task \in Tasks, NEW d \in DocIds,
           Awaits(d, task)', ~Awaits(d, task)
    PROVE  Covered(task, d)'
<1> USE DEF CoverInv, BackedInv
<1>1. rows'[d] # rows[d] /\ Exists(d)'
  BY DEF Awaits, IsPending, Exists, StatusFor
<1>2. /\ StatusFor(rows'[d], task) = "pending"
      /\ task = "base64" => rows'[d].kind = "s3"
  BY DEF Awaits, IsPending, StatusFor
<1>3. ASSUME NEW w \in Workers, CommitRun(w) PROVE FALSE
  <2>1. d = runs[w].msg.id
    BY <1>1, <1>3, CommitRunRow DEF TypeInv, RowsType
  <2>2. IsPending(d, task)'
    BY DEF Awaits, IsPending, Exists, StatusFor
  <2>3. task # runs[w].msg.task
    BY <1>3, <2>1, <2>2, CommitRunSettles
  <2>4. /\ rows'[d].kind = rows[d].kind
        /\ StatusFor(rows'[d], task) = StatusFor(rows[d], task) /\ Exists(d)
    BY <1>3, <2>1, <2>3, CommitRunRow DEF StatusFor, Tasks
  <2> QED
    BY <1>2, <2>4 DEF Awaits, IsPending, StatusFor
<1>4. ASSUME NEW c \in Callers, DropRow(c) PROVE FALSE
  BY <1>1, <1>4 DEF DropRow, TypeInv, RowsType, Exists
<1>5. ASSUME NEW c \in Callers, CommitRequest(c) PROVE Covered(task, d)'
  <2> DEFINE r == requests[c]
  <2>1. r # Nil /\ r.pc = "commit"
    BY <1>5 DEF CommitRequest
  <2>2. /\ Owed(r.seen, r.new, r.tasks)
        /\ r.seen # Nil => r.seen \in Rows /\ r.new.kind = r.seen.kind
    BY <2>1 DEF RowsToWriteSound
  <2>3. r.id = d
    BY <1>1, <1>5, <2>2, CommitRequestRow
  <2>4. task \in r.tasks
    <3>1. CASE r.seen = Nil
      BY <1>2, <1>5, <2>2, <2>3, <3>1, CommitRequestRow DEF Owed
    <3>2. CASE r.seen # Nil
      <4>1. /\ Exists(d) /\ rows[d] \in Rows /\ r.new \in Rows
            /\ rows'[d] = OrmUpdate(rows[d], r.seen, r.new)
            /\ rows'[d].kind = rows[d].kind
        BY <1>5, <2>2, <2>3, <3>2, CommitRequestRow
      <4>2. StatusFor(rows[d], task) # "pending"
        BY <1>2, <4>1 DEF Awaits, IsPending
      <4>3. StatusFor(rows'[d], task)
              = IF StatusFor(r.new, task) = StatusFor(r.seen, task)
                THEN StatusFor(rows[d], task) ELSE StatusFor(r.new, task)
        BY <2>2, <3>2, <4>1, OrmUpdateColumn DEF StatusFor
      <4> QED
        BY <1>2, <2>2, <4>2, <4>3 DEF Owed
    <3> QED
      BY <3>1, <3>2
  <2>5. r \in Requests /\ requests'[c] = [r EXCEPT !.pc = "refresh"]
    BY <1>5, <2>1 DEF CommitRequest, GoOn, TypeInv, RequestsType
  <2>6. /\ requests'[c] \in Requests
        /\ requests'[c].pc = "refresh" /\ requests'[c].id = d
        /\ task \in requests'[c].tasks
    BY <2>3, <2>4, <2>5 DEF Requests
  <2> QED
    BY <2>6, PipelineMarkers DEF Covered
<1>6. \/ \E c \in Callers : CommitRequest(c) \/ DropRow(c)
      \/ \E w \in Workers : CommitRun(w)
  BY <1>1, OnlyCommitAndDropWriteRows, OnlyCommitsWriteRows DEF Next
<1> QED
  BY <1>3, <1>4, <1>5, <1>6

\* Losses stay on record.
LEMMA StrandedGrows ==
    ASSUME Next
    PROVE  stranded \subseteq stranded'
BY DEF Next, Arrive, FindByDedupKey, LoadTrigger, DeleteObjects, HandlerStep,
       PutOriginal, CommitRequest, RefreshRequest, PublishTask, DropRow, FailRequest,
       WorkerStep, WorkerCrash, ReceiveTask, WorkSucceeds, WorkFails, WorkRetries,
       GiveUp, StoreJson, CommitRun, NotifyTenant, TaskRaises, History

LEMMA CoverInvariance == Spec => []CoverInv
<1>1. CoverInv /\ [Next]_vars => CoverInv'
  <2>1. ASSUME CoverInv, Next PROVE CoverInv'
    <3>1. BackedInv'
      BY <2>1, TypeInvStep, RowsToWriteStep, RunsBackedStep, ResultsBackedStep
         DEF CoverInv, BackedInv
    <3>2. ASSUME NEW task \in Tasks, NEW d \in DocIds, Awaits(d, task)',
                 <<task, d>> \notin stranded'
          PROVE  Covered(task, d)'
      <4>1. IsPending(d, task)'
        BY <3>2 DEF Awaits, IsPending
      <4>2. <<task, d>> \notin stranded
        BY <2>1, <3>2, StrandedGrows
      <4>3. Awaits(d, task) => Covered(task, d)
        BY <2>1, <4>2 DEF CoverInv, PendingIsCovered
      <4> QED
        BY <2>1, <3>2, <4>1, <4>3, CoverStays, NewlyAwaited
    <3> QED
      BY <2>1, <3>1, <3>2, RunsOweStep DEF CoverInv, PendingIsCovered
  <2>2. ASSUME CoverInv, UNCHANGED vars PROVE CoverInv'
    <3>1. TypeInv'
      BY <2>2, TypeInvStep DEF CoverInv, BackedInv
    <3>2. BackedInv'
      BY <2>2, <3>1 DEF vars, CoverInv, BackedInv, RowsToWriteSound, RunsBacked,
                        ResultsBacked, Exists
    <3> QED
      BY <2>2, <3>2 DEF vars, CoverInv, RunsOwe, PendingIsCovered, Covered, Awaits,
                        IsPending, Exists
  <2> QED
    BY <2>1, <2>2
<1> QED
  BY <1>1, CoverInit, PTL DEF Spec

\* No row waits for nobody: while it says "pending" a message, a worker or a
\* handler still owes it the task, unless that task is on record as lost.
THEOREM NobodyWaitsInVain == Spec => []PendingIsCovered
<1>1. CoverInv => PendingIsCovered
  BY DEF CoverInv
<1> QED
  BY <1>1, CoverInvariance, PTL
-----------------------------------------------------------------------------
(* What is announced is there.                                             *)

\* A request keeps the document it is about.
LEMMA RequestKeepsId ==
    ASSUME TypeInv, Next, NEW c \in Callers, requests[c] # Nil, requests'[c] # Nil
    PROVE  requests'[c].id = requests[c].id
<1>1. requests[c] \in Requests
  BY DEF TypeInv, RequestsType
<1>2. CASE Arrive(c)
  BY <1>2 DEF Arrive, FindByDedupKey, LoadTrigger, DeleteObjects, Begin
<1>3. CASE HandlerStep(c)
  BY <1>1, <1>3 DEF HandlerStep, PutOriginal, CommitRequest, RefreshRequest,
                    PublishTask, DropRow, FailRequest, GoOn, Ends, TypeInv,
                    RequestsType, Requests
<1> QED
  BY <1>2, <1>3, WorkersLeaveRequests, RequestKeepsOthers DEF Next

\* The id of a row about to be inserted is nobody else's.
InsertsFresh ==
    \A c \in Callers :
        LET r == requests[c] IN
        r # Nil /\ r.pc \in {"put", "commit"} /\ r.seen = Nil =>
          /\ rows[r.id] = Nil
          /\ \A e \in Callers : e # c /\ requests[e] # Nil => requests[e].id # r.id

\* What a request is about to announce may be old, but not untrue.
AnnouncementsBacked ==
    \A c \in Callers :
        LET r == requests[c] IN
        r # Nil /\ r.pc = "publish" =>
          /\ rows[r.id] # Nil
          /\ /\ Exists(r.id) /\ rows[r.id].kind = "s3" /\ r.id \notin wiped
             /\ r.seen.ocr_status = "done"
             => ocr_jsons[r.id] # Nil

\* Nothing is announced of a document before its row is inserted.
UnbornAreUnannounced == \A d \in DocIds : rows[d] = Nil => "done" \notin notified[d]

AnnounceInv ==
    /\ BackedInv
    /\ InsertsFresh /\ AnnouncementsBacked /\ UnbornAreUnannounced
    /\ AnnouncedIsThere

\* Who writes a row, and what becomes of one that is there.
LEMMA RowWritten ==
    ASSUME BackedInv, InsertsFresh, Next, NEW d \in DocIds, rows'[d] # rows[d]
    PROVE  /\ rows'[d] # Nil
           /\ \/ \E c \in Callers : /\ CommitRequest(c) \/ DropRow(c)
                                    /\ requests[c] # Nil /\ requests[c].id = d
              \/ Exists(d)
           /\ Exists(d)' => \/ rows[d] = Nil
                            \/ Exists(d) /\ rows'[d].kind = rows[d].kind
           /\ rows'[d] = Gone =>
                \E c \in Callers : DropRow(c) /\ requests[c].id = d
<1> USE DEF BackedInv
<1>1. ASSUME NEW c \in Callers, CommitRequest(c)
      PROVE  /\ rows'[d] \in Rows /\ requests[c] # Nil /\ requests[c].id = d
             /\ \/ rows[d] = Nil
                \/ Exists(d) /\ rows'[d].kind = rows[d].kind
  <2> DEFINE r == requests[c]
  <2>1. r # Nil /\ r.pc = "commit"
    BY <1>1 DEF CommitRequest
  <2>2. r.seen # Nil => r.seen \in Rows /\ r.new.kind = r.seen.kind
    BY <2>1 DEF RowsToWriteSound
  <2>3. r.id = d /\ r.new \in Rows
    BY <1>1, <2>2, CommitRequestRow
  <2>4. CASE r.seen = Nil
    <3>1. rows'[d] = r.new /\ rows[d] = Nil
      BY <1>1, <2>1, <2>2, <2>3, <2>4, CommitRequestRow DEF InsertsFresh
    <3> QED
      BY <2>1, <2>3, <3>1
  <2>5. CASE r.seen # Nil
    <3>1. /\ Exists(d) /\ rows[d] \in Rows /\ r.seen \in Rows
          /\ rows'[d] = OrmUpdate(rows[d], r.seen, r.new)
          /\ rows'[d].kind = rows[d].kind
      BY <1>1, <2>2, <2>3, <2>5, CommitRequestRow
    <3>2. rows'[d] \in Rows
      BY <2>3, <3>1, OrmUpdateType
    <3> QED
      BY <2>1, <2>3, <3>1, <3>2
  <2> QED
    BY <2>4, <2>5
<1>2. ASSUME NEW c \in Callers, DropRow(c)
      PROVE  /\ rows'[d] = Gone
             /\ requests[c] # Nil /\ requests[c].id = d
  BY <1>2 DEF DropRow, TypeInv, RowsType
<1>3. ASSUME NEW w \in Workers, CommitRun(w)
      PROVE  rows'[d] \in Rows /\ Exists(d) /\ rows'[d].kind = rows[d].kind
  <2>1. runs[w].msg.id = d
    BY <1>3, CommitRunRow DEF TypeInv, RowsType
  <2> QED
    BY <1>3, <2>1, CommitRunRow
<1>4. \/ \E c \in Callers : CommitRequest(c) \/ DropRow(c)
      \/ \E w \in Workers : CommitRun(w)
  BY OnlyCommitAndDropWriteRows, OnlyCommitsWriteRows DEF Next
<1> QED
  BY <1>1, <1>2, <1>3, <1>4, PipelineMarkers DEF Exists

LEMMA InsertsFreshStep ==
    ASSUME BackedInv, InsertsFresh, Next
    PROVE  InsertsFresh'
<1> SUFFICES ASSUME NEW c \in Callers, requests'[c] # Nil,
                    requests'[c].pc \in {"put", "commit"}, requests'[c].seen = Nil
             PROVE  /\ rows'[requests'[c].id] = Nil
                    /\ \A e \in Callers : e # c /\ requests'[e] # Nil
                         => requests'[e].id # requests'[c].id
  BY DEF InsertsFresh
<1> USE DEF BackedInv
<1>1. ASSUME NEW r, NEW e \in Callers, Begin(e, r)
      PROVE  requests'[e] = r /\ requests[e] = Nil
  BY <1>1 DEF Begin, TypeInv, RequestsType
<1>2. ASSUME requests[c] # Nil, requests[c].id = requests'[c].id,
             requests[c].pc \in {"put", "commit"}, requests[c].seen = Nil,
             ~ CommitRequest(c)
      PROVE  /\ rows'[requests'[c].id] = Nil
             /\ \A e \in Callers : e # c /\ requests'[e] # Nil
                  => requests'[e].id # requests'[c].id
  <2> DEFINE d == requests[c].id
  <2>1. d \in DocIds /\ rows[d] = Nil
    BY <1>2 DEF InsertsFresh, TypeInv, RequestsType, Requests
  <2>2. \A e \in Callers : e # c /\ requests[e] # Nil => requests[e].id # d
    BY <1>2 DEF InsertsFresh
  <2>3. rows'[d] = Nil
    <3>1. ~ DropRow(c)
      BY <1>2 DEF DropRow
    <3> QED
      BY <1>2, <2>1, <2>2, <3>1, RowWritten DEF Exists
  <2>4. ASSUME NEW e \in Callers, e # c, requests'[e] # Nil
        PROVE  requests'[e].id # d
    <3>1. CASE requests[e] # Nil
      BY <2>2, <2>4, <3>1, RequestKeepsId
    <3>2. CASE requests[e] = Nil
      <4>1. Arrive(e)
        <5>1. ~ HandlerStep(e)
          BY <3>2 DEF HandlerStep, PutOriginal, CommitRequest, RefreshRequest,
                      PublishTask, DropRow, FailRequest
        <5> QED
          BY <2>4, <3>2, <5>1, WorkersLeaveRequests, RequestKeepsOthers DEF Next
      <4>2. ASSUME NEW name \in DocNames, NEW content \in Contents,
                   NEW queue_ocr \in BOOLEAN,
                   FindByDedupKey(e, name, content, queue_ocr)
            PROVE  requests'[e].id # d
        <5>1. PICK b \in DocIds :
                /\ Matching(name) = {b} \/ Fresh(b)
                /\ Begin(e, [pc |-> "put", op |-> "upload", id |-> b,
                             seen |-> IF Exists(b) THEN rows[b] ELSE Nil,
                             new |-> IF Exists(b)
                                     THEN Reassigned(rows[b], content, queue_ocr)
                                     ELSE NewRow(name, content, queue_ocr),
                             tasks |-> UploadTasks(queue_ocr)])
          BY <4>2 DEF FindByDedupKey
        <5>2. requests'[e].id = b
          BY <1>1, <5>1
        <5>3. b # d
          BY <1>2, <2>1, <5>1 DEF Matching, Exists, Fresh
        <5> QED
          BY <5>2, <5>3
      <4>3. ASSUME NEW b \in DocIds, NEW force \in BOOLEAN, LoadTrigger(e, b, force)
            PROVE  requests'[e].id # d
        BY <1>1, <2>1, <4>3 DEF LoadTrigger, Exists
      <4>4. ASSUME NEW b \in DocIds, DeleteObjects(e, b)
            PROVE  requests'[e].id # d
        BY <1>1, <2>1, <4>4 DEF DeleteObjects, Exists
      <4> QED
        BY <4>1, <4>2, <4>3, <4>4 DEF Arrive
    <3> QED
      BY <3>1, <3>2
  <2> QED
    BY <1>2, <2>3, <2>4
<1>3. CASE requests'[c] = requests[c]
  <2>1. ~ CommitRequest(c)
    BY <1>3 DEF CommitRequest, GoOn, TypeInv, RequestsType, Requests
  <2> QED
    BY <1>2, <1>3, <2>1
<1>4. CASE PutOriginal(c)
  <2>1. requests[c] \in Requests /\ requests[c] # Nil /\ requests[c].pc = "put"
    BY <1>4 DEF PutOriginal, TypeInv, RequestsType
  <2>2. requests'[c] = [requests[c] EXCEPT !.pc = "commit"]
    BY <1>4 DEF PutOriginal, GoOn, TypeInv, RequestsType
  <2>3. requests'[c].id = requests[c].id /\ requests'[c].seen = requests[c].seen
    BY <2>1, <2>2 DEF Requests
  <2>4. ~ CommitRequest(c)
    BY <2>1 DEF CommitRequest
  <2> QED
    BY <1>2, <2>1, <2>3, <2>4
<1>5. ASSUME NEW name \in DocNames, NEW content \in Contents,
             NEW queue_ocr \in BOOLEAN, FindByDedupKey(c, name, content, queue_ocr)
      PROVE  /\ rows'[requests'[c].id] = Nil
             /\ \A e \in Callers : e # c /\ requests'[e] # Nil
                  => requests'[e].id # requests'[c].id
  <2>1. PICK d \in DocIds :
          /\ Matching(name) = {d} \/ Fresh(d)
          /\ Begin(c, [pc |-> "put", op |-> "upload", id |-> d,
                       seen |-> IF Exists(d) THEN rows[d] ELSE Nil,
                       new |-> IF Exists(d)
                               THEN Reassigned(rows[d], content, queue_ocr)
                               ELSE NewRow(name, content, queue_ocr),
                       tasks |-> UploadTasks(queue_ocr)])
    BY <1>5 DEF FindByDedupKey
  <2>2. /\ requests'[c].id = d
        /\ requests'[c].seen = IF Exists(d) THEN rows[d] ELSE Nil
    BY <1>1, <2>1
  <2>3. ~ Exists(d)
    BY <2>2 DEF Exists
  <2>4. Fresh(d)
    BY <2>1, <2>3 DEF Matching
  <2>5. rows' = rows /\ \A e \in Callers : e # c => requests'[e] = requests[e]
    BY <1>5, RequestKeepsOthers DEF FindByDedupKey, Arrive
  <2> QED
    BY <2>2, <2>4, <2>5 DEF Fresh
<1>6. ASSUME NEW d \in DocIds, NEW force \in BOOLEAN, LoadTrigger(c, d, force)
      PROVE  FALSE
  <2>1. requests'[c].seen = rows[d]
    BY <1>1, <1>6 DEF LoadTrigger
  <2> QED
    BY <1>6, <2>1 DEF LoadTrigger, Exists
<1>7. ASSUME NEW d \in DocIds, DeleteObjects(c, d) PROVE FALSE
  <2>1. requests'[c].pc = "drop"
    BY <1>1, <1>7 DEF DeleteObjects
  <2> QED
    BY <2>1
<1>8. ASSUME HandlerStep(c), ~PutOriginal(c) PROVE FALSE
  <2>1. requests[c] # Nil => requests[c] \in Requests
    BY DEF TypeInv, RequestsType
  <2>2. CASE CommitRequest(c)
    BY <2>1, <2>2 DEF CommitRequest, GoOn, TypeInv, RequestsType, Requests
  <2>3. CASE RefreshRequest(c)
    BY <2>1, <2>3 DEF RefreshRequest, TypeInv, RequestsType, Requests
  <2>4. CASE PublishTask(c)
    BY <2>1, <2>4 DEF PublishTask, Ends, TypeInv, RequestsType, Requests
  <2>5. CASE DropRow(c) \/ FailRequest(c)
    BY <2>5 DEF DropRow, FailRequest, Ends, TypeInv, RequestsType
  <2> QED
    BY <1>8, <2>2, <2>3, <2>4, <2>5 DEF HandlerStep
<1>9. requests'[c] = requests[c] \/ Arrive(c) \/ HandlerStep(c)
  BY WorkersLeaveRequests, RequestKeepsOthers DEF Next
<1>10. CASE Arrive(c)
  BY <1>5, <1>6, <1>7, <1>10 DEF Arrive
<1> QED
  BY <1>3, <1>4, <1>8, <1>9, <1>10

\* A tenant is told by the OCR task, and by an upload that queued none.
LEMMA OnlyTwoAnnounce ==
    ASSUME Next
    PROVE  \/ notified' = notified
           \/ \E w \in Workers : NotifyTenant(w)
           \/ \E c \in Callers : PublishTask(c)
<1>1. ASSUME NEW c \in Callers, Arrive(c) \/ HandlerStep(c)
      PROVE  notified' = notified \/ PublishTask(c)
  BY <1>1 DEF Arrive, FindByDedupKey, LoadTrigger, DeleteObjects, HandlerStep,
              PutOriginal, CommitRequest, RefreshRequest, DropRow, FailRequest,
              History
<1>2. ASSUME NEW w \in Workers, WorkerStep(w) \/ WorkerCrash(w)
      PROVE  notified' = notified \/ NotifyTenant(w)
  BY <1>2 DEF WorkerStep, WorkerCrash, ReceiveTask, WorkSucceeds, WorkFails,
              WorkRetries, GiveUp, StoreJson, CommitRun, TaskRaises, History
<1> QED
  BY <1>1, <1>2 DEF Next

\* What a row of the S3 service is announced to be, it was once.
LEMMA AnnouncedStep ==
    ASSUME AnnounceInv, Next
    PROVE  AnnouncedIsThere'
<1> SUFFICES ASSUME NEW d \in DocIds, Exists(d)', rows'[d].kind = "s3",
                    d \notin wiped', "done" \in notified'[d]
             PROVE  ocr_jsons'[d] # Nil
  BY DEF AnnouncedIsThere, Exists
<1> USE DEF AnnounceInv, BackedInv
<1>1. d \notin wiped /\ (ocr_jsons[d] # Nil => ocr_jsons'[d] # Nil)
  BY ObjectsStay
<1>2. CASE "done" \in notified[d]
  <2>1. rows[d] # Nil
    BY <1>2 DEF UnbornAreUnannounced
  <2>2. Exists(d) /\ rows[d].kind = "s3"
    BY <2>1, RowWritten DEF Exists
  <2> QED
    BY <1>1, <1>2, <2>2 DEF AnnouncedIsThere
<1>3. ASSUME NEW w \in Workers, NotifyTenant(w), "done" \notin notified[d]
      PROVE  ocr_jsons[d] # Nil
  <2>1. /\ notified' = Notified(runs[w].msg.id, rows[runs[w].msg.id])
        /\ rows' = rows
    BY <1>3 DEF NotifyTenant
  <2>2. runs[w].msg.id = d /\ rows[d].ocr_status = "done"
    BY <1>3, <2>1 DEF Notified, TypeInv, HistoryType
  <2> QED
    BY <1>1, <2>1, <2>2 DEF ResultsBacked, Exists
<1>4. ASSUME NEW c \in Callers, PublishTask(c), "done" \notin notified[d]
      PROVE  ocr_jsons[d] # Nil
  <2>1. /\ requests[c] # Nil /\ requests[c].pc = "publish"
        /\ rows' = rows
        /\ notified' = Notified(requests[c].id, requests[c].seen)
    BY <1>4 DEF PublishTask
  <2>2. requests[c].id = d /\ requests[c].seen.ocr_status = "done"
    BY <1>4, <2>1 DEF Notified, TypeInv, HistoryType
  <2> QED
    BY <1>1, <2>1, <2>2 DEF AnnouncementsBacked, Exists
<1>5. \/ notified' = notified
      \/ \E w \in Workers : NotifyTenant(w)
      \/ \E c \in Callers : PublishTask(c)
  BY OnlyTwoAnnounce
<1> QED
  BY <1>1, <1>2, <1>3, <1>4, <1>5

LEMMA UnbornStep ==
    ASSUME AnnounceInv, Next
    PROVE  UnbornAreUnannounced'
<1> SUFFICES ASSUME NEW d \in DocIds, rows'[d] = Nil, "done" \in notified'[d]
             PROVE  FALSE
  BY DEF UnbornAreUnannounced
<1> USE DEF AnnounceInv, BackedInv
<1>1. rows[d] = Nil /\ "done" \notin notified[d]
  BY RowWritten DEF UnbornAreUnannounced
<1>2. ASSUME NEW w \in Workers, NotifyTenant(w) PROVE FALSE
  <2>1. Exists(runs[w].msg.id)
        /\ notified' = Notified(runs[w].msg.id, rows[runs[w].msg.id])
    BY <1>2 DEF NotifyTenant
  <2> QED
    BY <1>1, <2>1 DEF Notified, Exists, TypeInv, HistoryType
<1>3. ASSUME NEW c \in Callers, PublishTask(c) PROVE FALSE
  <2>1. /\ requests[c] # Nil /\ requests[c].pc = "publish"
        /\ \/ notified' = Notified(requests[c].id, requests[c].seen)
           \/ notified' = notified
    BY <1>3 DEF PublishTask
  <2> QED
    BY <1>1, <2>1 DEF AnnouncementsBacked, Notified, TypeInv, HistoryType
<1> QED
  BY <1>1, <1>2, <1>3, OnlyTwoAnnounce

LEMMA AnnouncementsStep ==
    ASSUME AnnounceInv, Next
    PROVE  AnnouncementsBacked'
<1> SUFFICES ASSUME NEW c \in Callers, requests'[c] # Nil, requests'[c].pc = "publish"
             PROVE  LET r == requests'[c] IN
                    /\ rows'[r.id] # Nil
                    /\ /\ rows'[r.id] \notin {Nil, Gone} /\ rows'[r.id].kind = "s3"
                       /\ r.id \notin wiped' /\ r.seen.ocr_status = "done"
                       => ocr_jsons'[r.id] # Nil
  BY DEF AnnouncementsBacked, Exists
<1> USE DEF AnnounceInv, BackedInv
<1>1. ASSUME requests[c] # Nil, requests[c].pc = "publish",
             requests'[c].id = requests[c].id, requests'[c].seen = requests[c].seen
      PROVE  LET r == requests'[c] IN
             /\ rows'[r.id] # Nil
             /\ /\ rows'[r.id] \notin {Nil, Gone} /\ rows'[r.id].kind = "s3"
                /\ r.id \notin wiped' /\ r.seen.ocr_status = "done"
                => ocr_jsons'[r.id] # Nil
  <2> DEFINE d == requests[c].id
  <2>1. d \in DocIds
    BY <1>1 DEF TypeInv, RequestsType, Requests
  <2>2. /\ rows[d] # Nil
        /\ /\ Exists(d) /\ rows[d].kind = "s3" /\ d \notin wiped
           /\ requests[c].seen.ocr_status = "done"
           => ocr_jsons[d] # Nil
    BY <1>1 DEF AnnouncementsBacked
  <2> HIDE DEF d
  <2>3. rows'[d] # Nil
    BY <2>1, <2>2, RowWritten
  <2>4. rows'[d] \notin {Nil, Gone} => Exists(d) /\ rows'[d].kind = rows[d].kind
    BY <2>1, <2>2, RowWritten DEF Exists
  <2>5. d \notin wiped' => d \notin wiped /\ (ocr_jsons[d] # Nil => ocr_jsons'[d] # Nil)
    BY <2>1, ObjectsStay
  <2> QED
    BY <1>1, <2>2, <2>3, <2>4, <2>5 DEF d
<1>2. CASE requests'[c] = requests[c]
  BY <1>1, <1>2
<1>3. CASE RefreshRequest(c)
  <2>1. requests[c] \in Requests /\ requests[c].id \in DocIds
    BY <1>3 DEF RefreshRequest, TypeInv, RequestsType, Requests
  <2>2. requests'[c] = [requests[c] EXCEPT !.pc = "publish",
                                           !.seen = rows[requests[c].id]]
    BY <1>3 DEF RefreshRequest, TypeInv, RequestsType
  <2>3. /\ requests'[c].id = requests[c].id
        /\ requests'[c].seen = rows[requests[c].id]
    BY <2>1, <2>2 DEF Requests
  <2>4. /\ rows' = rows /\ ocr_jsons' = ocr_jsons /\ wiped' = wiped
        /\ Exists(requests[c].id)
    BY <1>3 DEF RefreshRequest, S3, History
  <2> QED
    BY <2>1, <2>3, <2>4 DEF ResultsBacked, Exists
<1>4. CASE PublishTask(c)
  <2>1. /\ requests[c] \in Requests
        /\ requests[c] # Nil /\ requests[c].pc = "publish"
    BY <1>4 DEF PublishTask, TypeInv, RequestsType
  <2>2. PICK task : requests' = [requests EXCEPT ![c].tasks = @ \ {task}]
    BY <1>4 DEF PublishTask, Ends, TypeInv, RequestsType
  <2>3. requests'[c] = [requests[c] EXCEPT !.tasks = @ \ {task}]
    BY <2>2 DEF TypeInv, RequestsType
  <2>4. requests'[c].id = requests[c].id /\ requests'[c].seen = requests[c].seen
    BY <2>1, <2>3 DEF Requests
  <2> QED
    BY <1>1, <2>1, <2>4
<1>5. ASSUME Arrive(c) PROVE FALSE
  BY <1>5 DEF Arrive, FindByDedupKey, LoadTrigger, DeleteObjects, Begin, TypeInv,
              RequestsType
<1>6. ASSUME PutOriginal(c) \/ CommitRequest(c) PROVE FALSE
  <2>1. requests[c] \in Requests
    BY <1>6 DEF PutOriginal, CommitRequest, TypeInv, RequestsType
  <2> QED
    BY <1>6, <2>1 DEF PutOriginal, CommitRequest, GoOn, TypeInv, RequestsType, Requests
<1>7. ASSUME DropRow(c) \/ FailRequest(c) PROVE FALSE
  BY <1>7 DEF DropRow, FailRequest, Ends, TypeInv, RequestsType
<1> QED
  BY <1>2, <1>3, <1>4, <1>5, <1>6, <1>7, WorkersLeaveRequests, RequestKeepsOthers
  DEF Next, HandlerStep

LEMMA AnnounceInvariance == Spec => []AnnounceInv
<1>1. Init => AnnounceInv
  BY BackedInit DEF Init, AnnounceInv, InsertsFresh, AnnouncementsBacked,
                    UnbornAreUnannounced, AnnouncedIsThere
<1>2. AnnounceInv /\ [Next]_vars => AnnounceInv'
  <2>1. ASSUME AnnounceInv, Next PROVE AnnounceInv'
    <3>1. BackedInv'
      BY <2>1, TypeInvStep, RowsToWriteStep, RunsBackedStep, ResultsBackedStep
         DEF AnnounceInv, BackedInv
    <3> QED
      BY <2>1, <3>1, InsertsFreshStep, AnnouncementsStep, UnbornStep, AnnouncedStep
         DEF AnnounceInv
  <2>2. ASSUME AnnounceInv, UNCHANGED vars PROVE AnnounceInv'
    <3>1. TypeInv'
      BY <2>2, TypeInvStep DEF AnnounceInv, BackedInv
    <3>2. BackedInv'
      BY <2>2, <3>1 DEF vars, AnnounceInv, BackedInv, RowsToWriteSound, RunsBacked,
                        ResultsBacked, Exists
    <3> QED
      BY <2>2, <3>2 DEF vars, AnnounceInv, InsertsFresh, AnnouncementsBacked,
                        UnbornAreUnannounced, AnnouncedIsThere, Exists
  <2> QED
    BY <2>1, <2>2
<1> QED
  BY <1>1, <1>2, PTL DEF Spec

\* A tenant that was told "done" can fetch the result, however old what it was
\* told: no re-upload, retry, trigger or failure in between takes it away
\* (ocr_document, create_or_update_document).
THEOREM AnnouncedResultsAreThere == Spec => []AnnouncedIsThere
<1>1. AnnounceInv => AnnouncedIsThere
  BY DEF AnnounceInv
<1> QED
  BY <1>1, AnnounceInvariance, PTL
-----------------------------------------------------------------------------
(* When each outcome is announced.  A row says "done" because a run wrote  *)
(* it, and that run announces what the row says, unless it stops before.   *)

CommitsAreAnnounced ==
    \A w \in Workers : Running(w, "notify") /\ runs'[w] # runs[w] => NotifyTenant(w)

OutcomeKnown(d) ==
    \/ "done" \in notified[d]
    \/ \E w \in Workers : Running(w, "notify") /\ runs[w].msg.id = d

OutcomesKnown ==
    \A d \in DocIds :
        Exists(d) /\ rows[d].kind = "s3" /\ rows[d].ocr_status = "done" => OutcomeKnown(d)

\* What was announced stays announced.
LEMMA NotifiedGrows ==
    ASSUME TypeInv, Next, NEW d \in DocIds, "done" \in notified[d]
    PROVE  "done" \in notified'[d]
<1>1. ASSUME NEW b, NEW row, notified' = Notified(b, row)
      PROVE  "done" \in notified'[d]
  BY <1>1 DEF Notified, TypeInv, HistoryType
<1> QED
  BY <1>1, OnlyTwoAnnounce DEF NotifyTenant, PublishTask

LEMMA OutcomesKnownStep ==
    ASSUME BackedInv, InsertsFresh, OutcomesKnown, Next, CommitsAreAnnounced
    PROVE  OutcomesKnown'
<1> SUFFICES ASSUME NEW d \in DocIds, Exists(d)', rows'[d].kind = "s3",
                    rows'[d].ocr_status = "done"
             PROVE  OutcomeKnown(d)'
  BY DEF OutcomesKnown, Exists, OutcomeKnown
<1> USE DEF BackedInv
<1>1. ASSUME OutcomeKnown(d), rows'[d] # rows[d] \/ rows[d].ocr_status = "done"
      PROVE  OutcomeKnown(d)'
  <2>1. CASE "done" \in notified[d]
    BY <2>1, NotifiedGrows DEF OutcomeKnown
  <2>2. ASSUME NEW w \in Workers, Running(w, "notify"), runs[w].msg.id = d
        PROVE  OutcomeKnown(d)'
    <3>1. CASE runs'[w] = runs[w]
      BY <2>2, <3>1 DEF OutcomeKnown, Running
    <3>2. CASE NotifyTenant(w)
      <4>1. rows' = rows /\ notified' = Notified(d, rows[d])
        BY <2>2, <3>2 DEF NotifyTenant
      <4>2. "done" \in notified'[d]
        BY <1>1, <4>1 DEF Notified, TypeInv, HistoryType
      <4> QED
        BY <4>2 DEF OutcomeKnown
    <3> QED
      BY <2>2, <3>1, <3>2 DEF CommitsAreAnnounced
  <2> QED
    BY <1>1, <2>1, <2>2 DEF OutcomeKnown
<1>2. CASE rows'[d] = rows[d]
  BY <1>1, <1>2 DEF OutcomesKnown, Exists
<1>3. ASSUME rows'[d] # rows[d], NEW c \in Callers, CommitRequest(c)
      PROVE  OutcomeKnown(d)'
  <2> DEFINE r == requests[c]
  <2>1. r # Nil /\ r.pc = "commit"
    BY <1>3 DEF CommitRequest
  <2>2. /\ r.new.ocr_status # "done"
        /\ r.seen # Nil => r.seen \in Rows /\ r.new.kind = r.seen.kind
    BY <2>1 DEF RowsToWriteSound
  <2>3. r.id = d
    BY <1>3, <2>2, CommitRequestRow
  <2>4. r.seen # Nil
    BY <1>3, <2>2, <2>3, CommitRequestRow
  <2>5. /\ Exists(d) /\ rows[d].kind = "s3"
        /\ rows[d] \in Rows /\ r.seen \in Rows /\ r.new \in Rows
        /\ rows'[d] = OrmUpdate(rows[d], r.seen, r.new)
    BY <1>3, <2>2, <2>3, <2>4, CommitRequestRow
  <2>6. rows[d].ocr_status = "done"
    BY <2>2, <2>5, OrmUpdateColumn
  <2> QED
    BY <1>1, <2>5, <2>6 DEF OutcomesKnown
<1>4. ASSUME rows'[d] # rows[d], NEW v \in Workers, CommitRun(v)
      PROVE  OutcomeKnown(d)'
  <2>1. /\ runs[v] \in Runs /\ runs[v].msg.id = d
        /\ Exists(d) /\ rows'[d].kind = rows[d].kind
        /\ runs[v].msg.task # "ocr" => rows'[d].ocr_status = rows[d].ocr_status
    BY <1>4, CommitRunRow DEF TypeInv, RowsType
  <2>2. CASE runs[v].msg.task = "ocr"
    <3>1. runs'[v] = [runs[v] EXCEPT !.pc = "notify"]
      BY <1>4, <2>2 DEF CommitRun, TypeInv, RunsType
    <3>2. runs'[v] \in Runs /\ runs'[v].pc = "notify" /\ runs'[v].msg.id = d
      BY <2>1, <3>1 DEF Runs
    <3> QED
      BY <3>2, PipelineMarkers DEF OutcomeKnown, Running
  <2>3. CASE runs[v].msg.task # "ocr"
    BY <1>1, <1>4, <2>1, <2>3 DEF OutcomesKnown
  <2> QED
    BY <2>2, <2>3
<1>5. ASSUME rows'[d] # rows[d], NEW c \in Callers, DropRow(c) PROVE FALSE
  BY <1>5 DEF DropRow, TypeInv, RowsType, Exists
<1>6. \/ rows' = rows
      \/ \E c \in Callers : CommitRequest(c) \/ DropRow(c)
      \/ \E w \in Workers : CommitRun(w)
  BY OnlyCommitAndDropWriteRows, OnlyCommitsWriteRows DEF Next
<1> QED
  BY <1>2, <1>3, <1>4, <1>5, <1>6

\* A "done" goes unannounced only where a worker stops between its commit and
\* its notification (ocr_document, SPEC section 7).
THEOREM OutcomesAreNotifiedUnlessStopped ==
    Spec /\ [][CommitsAreAnnounced]_vars => []OutcomeIsNotified
<1>1. Init => OutcomesKnown
  <2> SUFFICES ASSUME Init PROVE OutcomesKnown
    OBVIOUS
  <2>1. PICK name \in [LocalDocs -> DocNames], file \in [LocalDocs -> Contents],
             status \in [LocalDocs -> OcrStatus \ {"pending"}],
             text \in [LocalDocs -> Contents \cup {Nil}] :
          rows = [d \in DocIds |-> IF d \in LocalDocs
                                   THEN LocalRow(name[d], file[d], status[d], text[d])
                                   ELSE Nil]
    BY DEF Init
  <2>2. \A d \in DocIds : Exists(d) => rows[d].kind = "local"
    BY <2>1 DEF Exists, LocalRow
  <2> QED
    BY <2>2 DEF OutcomesKnown
<1>2. AnnounceInv /\ OutcomesKnown /\ [Next]_vars /\ [CommitsAreAnnounced]_vars
        => OutcomesKnown'
  <2>1. ASSUME AnnounceInv, OutcomesKnown, Next, CommitsAreAnnounced
        PROVE  OutcomesKnown'
    BY <2>1, OutcomesKnownStep DEF AnnounceInv
  <2>2. ASSUME OutcomesKnown, UNCHANGED vars PROVE OutcomesKnown'
    BY <2>2 DEF vars, OutcomesKnown, OutcomeKnown, Exists, Running
  <2> QED
    BY <2>1, <2>2
<1>3. OutcomesKnown => OutcomeIsNotified
  BY DEF OutcomesKnown, OutcomeKnown, OutcomeIsNotified, Quiescent, Running
<1> QED
  BY <1>1, <1>2, <1>3, AnnounceInvariance, PTL DEF Spec

-----------------------------------------------------------------------------
(* What a DELETE leaves behind.                                            *)

\* No other request, and no worker, is at a document between the two steps of
\* its DELETE.
DeletesAlone ==
    \A c \in Callers : requests[c] # Nil /\ requests[c].pc = "drop" =>
        /\ \A e \in Callers : e # c /\ requests[e] # Nil
             => requests[e].id # requests[c].id
        /\ \A w \in Workers : runs[w] # Nil => runs[w].msg.id # requests[c].id

Empty(d) == originals[d] = Nil /\ ocr_jsons[d] = Nil

\* Nobody works on a document that is gone.
Left(d) ==
    /\ \A c \in Callers : requests[c] # Nil => requests[c].id # d
    /\ \A w \in Workers : runs[w] # Nil => runs[w].msg.id # d

DeletedAreEmpty ==
    /\ \A c \in Callers : requests[c] # Nil /\ requests[c].pc = "drop"
         => Empty(requests[c].id)
    /\ \A d \in DocIds : rows[d] = Gone => Empty(d) /\ Left(d)

\* Only an upload and an OCR run put objects under a document.
LEMMA EmptyStays ==
    ASSUME TypeInv, Next, NEW d \in DocIds, Empty(d),
           \A c \in Callers : requests[c] # Nil /\ requests[c].id = d
             => requests[c].pc # "put",
           \A w \in Workers : runs[w] # Nil => runs[w].msg.id # d
    PROVE  Empty(d)'
<1>1. ASSUME NEW c \in Callers, Arrive(c) PROVE Empty(d)'
  BY <1>1 DEF Arrive, FindByDedupKey, LoadTrigger, DeleteObjects, DeletedFrom,
              Empty, S3, TypeInv, S3Type
<1>2. ASSUME NEW c \in Callers, HandlerStep(c) PROVE Empty(d)'
  <2>1. CASE PutOriginal(c)
    BY <2>1 DEF PutOriginal, Empty, TypeInv, S3Type
  <2>2. CASE UNCHANGED S3
    BY <2>2 DEF S3, Empty
  <2> QED
    BY <1>2, <2>1, <2>2 DEF HandlerStep, CommitRequest, RefreshRequest, PublishTask,
                            DropRow, FailRequest
<1>3. ASSUME NEW w \in Workers, WorkerStep(w) \/ WorkerCrash(w) PROVE Empty(d)'
  <2>1. CASE StoreJson(w)
    BY <2>1 DEF StoreJson, Running, Empty, TypeInv, S3Type
  <2>2. CASE UNCHANGED S3
    BY <2>2 DEF S3, Empty
  <2> QED
    BY <1>3, <2>1, <2>2 DEF WorkerStep, WorkerCrash, ReceiveTask, WorkSucceeds,
                            WorkFails, WorkRetries, GiveUp, CommitRun, NotifyTenant,
                            TaskRaises
<1> QED
  BY <1>1, <1>2, <1>3 DEF Next

\* Nobody takes up a document that is gone.
LEMMA GoneIsLeft ==
    ASSUME TypeInv, Next, NEW d \in DocIds, rows[d] = Gone, Left(d)
    PROVE  Left(d)'
<1>1. ASSUME NEW c \in Callers, requests'[c] # Nil PROVE requests'[c].id # d
  <2>1. CASE requests[c] # Nil
    BY <1>1, <2>1, RequestKeepsId DEF Left
  <2>2. CASE requests[c] = Nil
    <3>1. Arrive(c)
      <4>1. ~ HandlerStep(c)
        BY <2>2 DEF HandlerStep, PutOriginal, CommitRequest, RefreshRequest,
                    PublishTask, DropRow, FailRequest
      <4> QED
        BY <1>1, <2>2, <4>1, WorkersLeaveRequests, RequestKeepsOthers DEF Next
    <3>2. ASSUME NEW r, Begin(c, r) PROVE requests'[c] = r
      BY <3>2 DEF Begin, TypeInv, RequestsType
    <3>3. ASSUME NEW name \in DocNames, NEW content \in Contents,
                 NEW queue_ocr \in BOOLEAN,
                 FindByDedupKey(c, name, content, queue_ocr)
          PROVE  requests'[c].id # d
      <4>1. PICK b \in DocIds :
              /\ Matching(name) = {b} \/ Fresh(b)
              /\ Begin(c, [pc |-> "put", op |-> "upload", id |-> b,
                           seen |-> IF Exists(b) THEN rows[b] ELSE Nil,
                           new |-> IF Exists(b)
                                   THEN Reassigned(rows[b], content, queue_ocr)
                                   ELSE NewRow(name, content, queue_ocr),
                           tasks |-> UploadTasks(queue_ocr)])
        BY <3>3 DEF FindByDedupKey
      <4>2. b # d
        BY <4>1, PipelineMarkers DEF Matching, Exists, Fresh
      <4> QED
        BY <3>2, <4>1, <4>2
    <3>4. ASSUME NEW b \in DocIds, NEW force \in BOOLEAN, LoadTrigger(c, b, force)
          PROVE  requests'[c].id # d
      BY <3>2, <3>4 DEF LoadTrigger, Exists
    <3>5. ASSUME NEW b \in DocIds, DeleteObjects(c, b) PROVE requests'[c].id # d
      BY <3>2, <3>5 DEF DeleteObjects, Exists
    <3> QED
      BY <3>1, <3>3, <3>4, <3>5 DEF Arrive
  <2> QED
    BY <2>1, <2>2
<1>2. ASSUME NEW w \in Workers, runs'[w] # Nil PROVE runs'[w].msg.id # d
  <2>1. CASE runs'[w] = runs[w]
    BY <1>2, <2>1 DEF Left
  <2>2. ASSUME NEW m \in Messages, ReceiveTask(w, m), runs'[w] # runs[w]
        PROVE  runs'[w].msg.id # d
    <3>1. IsPending(m.id, m.task) /\ runs'[w].msg = m
      BY <2>2 DEF ReceiveTask, TypeInv, RunsType
    <3> QED
      BY <3>1 DEF IsPending, Exists
  <2>3. ASSUME WorkerStep(w), \A m \in Messages : ~ ReceiveTask(w, m)
        PROVE  runs[w] # Nil /\ runs'[w].msg = runs[w].msg
    <3>1. runs[w] \in Runs /\ runs[w] # Nil
      BY <2>3 DEF WorkerStep, WorkSucceeds, WorkFails, WorkRetries, GiveUp,
                  StoreJson, CommitRun, NotifyTenant, TaskRaises, Running,
                  TypeInv, RunsType
    <3> QED
      BY <1>2, <2>3, <3>1 DEF WorkerStep, WorkSucceeds, WorkFails, WorkRetries,
             GiveUp, StoreJson, CommitRun, NotifyTenant, TaskRaises, TypeInv,
             RunsType, Runs
  <2>4. CASE WorkerCrash(w)
    BY <1>2, <2>4 DEF WorkerCrash, TypeInv, RunsType
  <2> QED
    BY <2>1, <2>2, <2>3, <2>4, RequestsLeaveRuns, WorkerKeepsOthers DEF Next, Left
<1> QED
  BY <1>1, <1>2 DEF Left

LEMMA DeletedAreEmptyStep ==
    ASSUME ~S3Refuses, AnnounceInv, DeletesAlone, DeletedAreEmpty, Next
    PROVE  DeletedAreEmpty'
<1> USE DEF AnnounceInv, BackedInv
<1>1. ASSUME NEW c \in Callers, requests'[c] # Nil, requests'[c].pc = "drop"
      PROVE  requests'[c].id \in DocIds /\ originals'[requests'[c].id] = Nil
             /\ ocr_jsons'[requests'[c].id] = Nil
  <2>1. CASE requests'[c] = requests[c]
    <3> PICK d \in DocIds : d = requests[c].id
      BY <1>1, <2>1 DEF TypeInv, RequestsType, Requests
    <3>1. Empty(d)
      BY <1>1, <2>1 DEF DeletedAreEmpty
    <3>2. /\ \A e \in Callers : requests[e] # Nil /\ requests[e].id = d
               => requests[e].pc # "put"
          /\ \A w \in Workers : runs[w] # Nil => runs[w].msg.id # d
      BY <1>1, <2>1 DEF DeletesAlone
    <3>3. Empty(d)'
      BY <3>1, <3>2, EmptyStays
    <3> QED
      BY <2>1, <3>3 DEF Empty
  <2>2. ASSUME NEW d \in DocIds, DeleteObjects(c, d)
        PROVE  requests'[c].id = d /\ originals'[d] = Nil /\ ocr_jsons'[d] = Nil
    BY <2>2 DEF DeleteObjects, DeletedFrom, Begin, TypeInv, RequestsType, S3Type
  <2>3. ASSUME Arrive(c), \A d \in DocIds : ~ DeleteObjects(c, d) PROVE FALSE
    BY <1>1, <2>3 DEF Arrive, FindByDedupKey, LoadTrigger, Begin, TypeInv,
                      RequestsType
  <2>4. ASSUME HandlerStep(c) PROVE FALSE
    <3>1. requests[c] \in Requests
      BY <2>4 DEF HandlerStep, PutOriginal, CommitRequest, RefreshRequest,
                  PublishTask, DropRow, FailRequest, TypeInv, RequestsType
    <3> QED
      BY <1>1, <2>4, <3>1 DEF HandlerStep, PutOriginal, CommitRequest,
             RefreshRequest, PublishTask, DropRow, FailRequest, GoOn, Ends, TypeInv,
             RequestsType, Requests
  <2> QED
    BY <2>1, <2>2, <2>3, <2>4, WorkersLeaveRequests, RequestKeepsOthers DEF Next
<1>2. ASSUME NEW d \in DocIds, rows'[d] = Gone PROVE Empty(d)' /\ Left(d)'
  <2>1. CASE rows[d] = Gone
    <3>1. Empty(d) /\ Left(d)
      BY <2>1 DEF DeletedAreEmpty
    <3>2. Empty(d)'
      BY <3>1, EmptyStays DEF Left
    <3> QED
      BY <2>1, <3>1, <3>2, GoneIsLeft
  <2>2. CASE rows[d] # Gone
    <3>1. PICK c \in Callers : DropRow(c) /\ requests[c].id = d
      BY <1>2, <2>2, RowWritten
    <3>2. /\ requests[c] # Nil /\ requests[c].pc = "drop"
          /\ UNCHANGED S3 /\ runs' = runs
          /\ requests' = [requests EXCEPT ![c] = Nil]
      BY <3>1 DEF DropRow, Ends
    <3>3. Empty(d)'
      BY <3>1, <3>2 DEF DeletedAreEmpty, Empty, S3
    <3>4. Left(d)'
      BY <3>1, <3>2 DEF DeletesAlone, Left, TypeInv, RequestsType
    <3> QED
      BY <3>3, <3>4
  <2> QED
    BY <2>1, <2>2
<1> QED
  BY <1>1, <1>2 DEF DeletedAreEmpty, Empty

\* Where S3 deletes what it is asked to, a deleted document leaves objects behind
\* only if an upload or a worker was at it while it was being deleted
\* (delete_document, SPEC 6.5); and nobody takes it up again afterwards, whatever
\* is still queued.  Where S3 refuses a key, a DELETE on its own leaves the object
\* and drops the row.
THEOREM LoneDeletesLeaveNothing ==
    ASSUME ~S3Refuses
    PROVE  Spec /\ []DeletesAlone =>
             /\ []DeletedLeavesNothing
             /\ [](\A d \in DocIds : rows[d] = Gone => Left(d))
<1>1. Init => DeletedAreEmpty
  BY DEF Init, DeletedAreEmpty, Empty, Left, LocalRow
<1>2. AnnounceInv /\ DeletesAlone /\ DeletedAreEmpty /\ [Next]_vars
        => DeletedAreEmpty'
  <2>1. ASSUME DeletedAreEmpty, UNCHANGED vars PROVE DeletedAreEmpty'
    BY <2>1 DEF vars, DeletedAreEmpty, Empty, Left
  <2> QED
    BY <2>1, DeletedAreEmptyStep
<1>3. DeletedAreEmpty => /\ DeletedLeavesNothing
                         /\ \A d \in DocIds : rows[d] = Gone => Left(d)
  BY DEF DeletedAreEmpty, DeletedLeavesNothing, Empty
<1> QED
  BY <1>1, <1>2, <1>3, AnnounceInvariance, PTL DEF Spec
=============================================================================
