------------------------------ MODULE LedgerProofs ------------------------------
(***************************************************************************)
(* DocumentPipelines implements TaskLedger, for every value of its         *)
(* constants: each step of a handler, the broker or a worker is an entry   *)
(* in the ledger of every task.                                            *)
(***************************************************************************)
EXTENDS DocumentPipelinesSafety

-----------------------------------------------------------------------------
(* What requests write. *)

\* A request makes a row wait for a task, or says it is not requested, or
\* leaves the task's column as it found it.
RowsToWriteAsk ==
    \A c \in Callers :
        LET r == requests[c] IN
        r # Nil /\ r.pc \in {"put", "commit"} =>
          \A task \in Tasks :
             \/ StatusFor(r.new, task) \in {"pending", "not_requested"}
             \/ r.seen # Nil /\ StatusFor(r.new, task) = StatusFor(r.seen, task)

LEMMA RowsToWriteAskStep ==
    ASSUME TypeInv, RowsToWriteAsk, Next
    PROVE  RowsToWriteAsk'
<1> SUFFICES ASSUME NEW e \in Callers, requests'[e] # Nil,
                    requests'[e].pc \in {"put", "commit"}, NEW task \in Tasks
             PROVE  LET r == requests'[e] IN
                    \/ StatusFor(r.new, task) \in {"pending", "not_requested"}
                    \/ r.seen # Nil /\ StatusFor(r.new, task) = StatusFor(r.seen, task)
  BY DEF RowsToWriteAsk, StatusFor
<1>1. ASSUME NEW r, Begin(e, r) PROVE requests'[e] = r
  BY <1>1 DEF Begin, TypeInv, RequestsType
<1>2. CASE requests'[e] = requests[e]
  BY <1>2 DEF RowsToWriteAsk
<1>3. ASSUME NEW name \in DocNames, NEW content \in Contents,
             NEW queue_ocr \in BOOLEAN, FindByDedupKey(e, name, content, queue_ocr)
      PROVE  StatusFor(requests'[e].new, task) \in {"pending", "not_requested"}
  <2>1. PICK d \in DocIds :
          Begin(e, [pc |-> "put", op |-> "upload", id |-> d,
                    seen |-> IF Exists(d) THEN rows[d] ELSE Nil,
                    new |-> IF Exists(d)
                            THEN Reassigned(rows[d], content, queue_ocr)
                            ELSE NewRow(name, content, queue_ocr),
                    tasks |-> UploadTasks(queue_ocr)])
    BY <1>3 DEF FindByDedupKey
  <2>2. requests'[e].new = IF Exists(d)
                           THEN Reassigned(rows[d], content, queue_ocr)
                           ELSE NewRow(name, content, queue_ocr)
    BY <1>1, <2>1
  <2>3. CASE Exists(d)
    <3>1. rows[d] \in Rows
      BY <2>3 DEF Exists, TypeInv, RowsType
    <3> QED
      BY <2>2, <2>3, <3>1 DEF Reassigned, StatusFor, Rows
  <2>4. CASE ~Exists(d)
    BY <2>2, <2>4 DEF NewRow, StatusFor
  <2> QED
    BY <2>3, <2>4
<1>4. ASSUME NEW d \in DocIds, NEW force \in BOOLEAN, LoadTrigger(e, d, force)
      PROVE  LET r == requests'[e] IN
             \/ StatusFor(r.new, task) = "pending"
             \/ r.seen # Nil /\ StatusFor(r.new, task) = StatusFor(r.seen, task)
  <2>1. rows[d] \in Rows
    BY <1>4 DEF LoadTrigger, Exists, TypeInv, RowsType
  <2>2. requests'[e] = [pc |-> "commit", op |-> "trigger", id |-> d,
                        seen |-> rows[d],
                        new |-> [rows[d] EXCEPT !.ocr_status = "pending"],
                        tasks |-> {"ocr"}]
    BY <1>1, <1>4 DEF LoadTrigger
  <2> QED
    BY <2>1, <2>2, PipelineMarkers DEF StatusFor, Rows
<1>5. ASSUME NEW d \in DocIds, DeleteObjects(e, d) PROVE FALSE
  BY <1>1, <1>5 DEF DeleteObjects
<1>6. CASE PutOriginal(e)
  <2>1. requests[e] \in Requests /\ requests[e] # Nil /\ requests[e].pc = "put"
    BY <1>6 DEF PutOriginal, TypeInv, RequestsType
  <2>2. requests'[e] = [requests[e] EXCEPT !.pc = "commit"]
    BY <1>6 DEF PutOriginal, GoOn, TypeInv, RequestsType
  <2>3. requests'[e].new = requests[e].new /\ requests'[e].seen = requests[e].seen
    BY <2>1, <2>2 DEF Requests
  <2> QED
    BY <2>1, <2>3 DEF RowsToWriteAsk
<1>7. ASSUME HandlerStep(e), ~PutOriginal(e) PROVE FALSE
  <2>1. requests[e] # Nil => requests[e] \in Requests
    BY DEF TypeInv, RequestsType
  <2>2. CASE CommitRequest(e)
    BY <2>1, <2>2 DEF CommitRequest, GoOn, TypeInv, RequestsType, Requests
  <2>3. CASE RefreshRequest(e)
    BY <2>1, <2>3 DEF RefreshRequest, TypeInv, RequestsType, Requests
  <2>4. CASE PublishTask(e)
    BY <2>1, <2>4 DEF PublishTask, Ends, TypeInv, RequestsType, Requests
  <2>5. CASE DropRow(e) \/ FailRequest(e)
    BY <2>5 DEF DropRow, FailRequest, Ends, TypeInv, RequestsType
  <2> QED
    BY <1>7, <2>2, <2>3, <2>4, <2>5 DEF HandlerStep
<1>8. CASE Arrive(e)
  BY <1>3, <1>4, <1>5, <1>8 DEF Arrive
<1>9. requests'[e] = requests[e] \/ Arrive(e) \/ HandlerStep(e)
  BY WorkersLeaveRequests, RequestKeepsOthers DEF Next
<1> QED
  BY <1>2, <1>6, <1>7, <1>8, <1>9

LedgerInv == CoverInv /\ RowsToWriteAsk

LEMMA LedgerInvariance == Spec => []LedgerInv
<1>1. Init => RowsToWriteAsk
  BY DEF Init, RowsToWriteAsk
<1>2. CoverInv /\ RowsToWriteAsk /\ [Next]_vars => RowsToWriteAsk'
  <2>1. ASSUME CoverInv, RowsToWriteAsk, Next PROVE RowsToWriteAsk'
    BY <2>1, RowsToWriteAskStep DEF CoverInv, BackedInv
  <2>2. ASSUME RowsToWriteAsk, UNCHANGED vars PROVE RowsToWriteAsk'
    BY <2>2 DEF vars, RowsToWriteAsk
  <2> QED
    BY <2>1, <2>2
<1> QED
  BY <1>1, <1>2, CoverInvariance, PTL DEF Spec, LedgerInv

-----------------------------------------------------------------------------
(* Entries in the ledger of one task. *)

Lost(task, d) == <<task, d>> \in stranded

\* Only a task that somebody owes is lost.
LEMMA OnlyOwedIsLost ==
    ASSUME TypeInv, Next, NEW task \in Tasks, NEW d \in DocIds,
           ~Lost(task, d), Lost(task, d)'
    PROVE  Covered(task, d)
<1>1. ASSUME NEW w \in Workers, GiveUp(w) \/ TaskRaises(w)
      PROVE  Covered(task, d)
  <2>1. /\ runs[w] # Nil /\ runs[w].pc # "notify"
        /\ <<task, d>> = <<runs[w].msg.task, runs[w].msg.id>>
    BY <1>1 DEF GiveUp, TaskRaises, Running, Lost
  <2> QED
    BY <2>1 DEF Covered
<1>2. ASSUME NEW c \in Callers, FailRequest(c) PROVE Covered(task, d)
  <2>1. /\ requests[c] # Nil /\ requests[c].pc \in {"refresh", "publish"}
        /\ <<task, d>> \in requests[c].tasks \X {requests[c].id}
    BY <1>2 DEF FailRequest, Lost
  <2> QED
    BY <2>1 DEF Covered
<1>3. ASSUME NEW w \in Workers, WorkerStep(w) \/ WorkerCrash(w),
             ~GiveUp(w), ~TaskRaises(w)
      PROVE  stranded' = stranded
  BY <1>3 DEF WorkerStep, WorkerCrash, ReceiveTask, WorkSucceeds, WorkFails,
              WorkRetries, StoreJson, CommitRun, NotifyTenant, History
<1>4. ASSUME NEW c \in Callers, Arrive(c) \/ HandlerStep(c), ~FailRequest(c)
      PROVE  stranded' = stranded
  BY <1>4 DEF Arrive, FindByDedupKey, LoadTrigger, DeleteObjects, HandlerStep,
              PutOriginal, CommitRequest, RefreshRequest, PublishTask, DropRow, History
<1> QED
  BY <1>1, <1>2, <1>3, <1>4 DEF Next, Lost

\* How a step enters a task in the ledger.
Entered(task, d) ==
    LET was == LedgerStatus(task, d)
        is  == LedgerStatus(task, d)'
        keeps == Lost(task, d)' <=> Lost(task, d)
    IN \/ Covered(task, d)' /\ is \in {was, "pending", "none"} /\ keeps
       \/ Covered(task, d) /\ is \in {"done", "failed"} /\ keeps
       \/ is = "none" /\ (Covered(task, d)' <=> Covered(task, d)) /\ keeps
       \/ /\ Covered(task, d) /\ ~Covered(task, d)'
          /\ was # "pending" /\ is = was /\ keeps
       \/ Covered(task, d) /\ Lost(task, d)' /\ is = was
       \/ is = was /\ (Covered(task, d)' <=> Covered(task, d)) /\ keeps

LEMMA StatusIsPending ==
    ASSUME NEW task \in Tasks, NEW d \in DocIds
    PROVE  (LedgerStatus(task, d) = "pending") <=> Awaits(d, task)
BY DEF LedgerStatus

\* A step that leaves what the row says: the debt is kept, dropped because
\* nobody waits, or lost.
LEMMA SameStatusEntered ==
    ASSUME CoverInv, Next, NEW task \in Tasks, NEW d \in DocIds,
           LedgerStatus(task, d)' = LedgerStatus(task, d)
    PROVE  Entered(task, d)
<1>1. Lost(task, d) => Lost(task, d)'
  BY StrandedGrows DEF Lost
<1>2. CASE ~Lost(task, d) /\ Lost(task, d)'
  BY <1>2, OnlyOwedIsLost DEF Entered, CoverInv, BackedInv
<1>3. CASE /\ Lost(task, d)' <=> Lost(task, d)
           /\ Covered(task, d)' \/ ~Covered(task, d)
  BY <1>3 DEF Entered
<1>4. CASE /\ Lost(task, d)' <=> Lost(task, d)
           /\ Covered(task, d) /\ ~Covered(task, d)'
  <2>1. CASE Lost(task, d)'
    BY <1>4, <2>1 DEF Entered
  <2>2. CASE ~Lost(task, d)'
    <3>1. ~IsPending(d, task)'
      BY <1>4, <2>2, CoverStays DEF Lost
    <3>2. LedgerStatus(task, d)' # "pending"
      BY <3>1 DEF LedgerStatus, Awaits
    <3> QED
      BY <1>4, <3>2 DEF Entered
  <2> QED
    BY <2>1, <2>2
<1> QED
  BY <1>1, <1>2, <1>3, <1>4

\* The status of a row that does not change, or changes elsewhere.
LEMMA StatusKept ==
    ASSUME NEW task \in Tasks, NEW d \in DocIds,
           Exists(d)' <=> Exists(d),
           Exists(d) => /\ rows'[d].kind = rows[d].kind
                        /\ StatusFor(rows'[d], task) = StatusFor(rows[d], task)
    PROVE  LedgerStatus(task, d)' = LedgerStatus(task, d)
<1>1. StatusFor(rows[d], task)' = StatusFor(rows'[d], task)
  BY DEF StatusFor
<1> QED
  BY <1>1 DEF LedgerStatus, Awaits, IsPending

\* A worker commits: the result of the task it holds, nothing of any other.
LEMMA CommitRunEntered ==
    ASSUME CoverInv, Next, NEW w \in Workers, CommitRun(w),
           NEW task \in Tasks, NEW d \in DocIds
    PROVE  Entered(task, d)
<1> DEFINE r   == runs[w]
           new == IF r.pc = "commit" THEN Succeeded(r) ELSE Failed(r)
<1>1. /\ r \in Runs /\ r.pc \in {"commit", "fail"} /\ r # Nil
      /\ r.msg.id \in DocIds /\ r.msg.task \in Tasks
      /\ Exists(r.msg.id) /\ rows[r.msg.id] \in Rows
      /\ r.seen \in Rows /\ new \in Rows
      /\ rows' = [rows EXCEPT ![r.msg.id] = OrmUpdate(rows[r.msg.id], r.seen, new)]
      /\ rows'[r.msg.id] \in Rows
      /\ rows'[r.msg.id].kind = rows[r.msg.id].kind
      /\ r.msg.task = "ocr" =>
           rows'[r.msg.id].base64_status = rows[r.msg.id].base64_status
      /\ r.msg.task # "ocr" =>
           rows'[r.msg.id].ocr_status = rows[r.msg.id].ocr_status
  BY CommitRunRow DEF CoverInv, BackedInv, CommitRun, Running
<1>2. CASE r.msg.id = d /\ r.msg.task = task
  <2>1. Covered(task, d)
    BY <1>1, <1>2 DEF Covered
  <2>2. Lost(task, d)' <=> Lost(task, d)
    BY DEF CommitRun, History, Lost
  <2>3. rows'[d] = OrmUpdate(rows[d], r.seen, new)
    BY <1>1, <1>2 DEF CoverInv, BackedInv, TypeInv, RowsType
  <2>4. StatusFor(r.seen, task) = "pending"
    BY <1>1, <1>2 DEF CoverInv, RunsOwe
  <2>5. StatusFor(new, task) \in {"done", "sent", "failed"}
    BY <1>1, <1>2 DEF StatusFor, Succeeded, Failed, Tasks, Rows
  <2> HIDE DEF new
  <2>6. StatusFor(rows'[d], task) \in {"done", "sent", "failed"}
    BY <1>1, <1>2, <2>3, <2>4, <2>5, OrmUpdateColumn DEF StatusFor
  <2>7. Exists(d)'
    BY <1>1, <1>2, PipelineMarkers DEF Exists
  <2>8. StatusFor(rows[d], task)' \in {"done", "sent", "failed"}
    BY <2>6 DEF StatusFor
  <2>9. LedgerStatus(task, d)' \in {"done", "failed"}
    BY <2>7, <2>8 DEF LedgerStatus, Awaits, IsPending
  <2> QED
    BY <2>1, <2>2, <2>9 DEF Entered
<1>3. CASE r.msg.id # d
  <2>1. rows'[d] = rows[d]
    BY <1>1, <1>3 DEF CoverInv, BackedInv, TypeInv, RowsType
  <2>2. LedgerStatus(task, d)' = LedgerStatus(task, d)
    BY <2>1, StatusKept DEF Exists
  <2> QED
    BY <2>2, SameStatusEntered
<1>4. CASE r.msg.id = d /\ r.msg.task # task
  <2>1. /\ rows'[d].kind = rows[d].kind
        /\ StatusFor(rows'[d], task) = StatusFor(rows[d], task)
    BY <1>1, <1>4 DEF StatusFor, Tasks
  <2>2. Exists(d) /\ Exists(d)'
    BY <1>1, <1>4, PipelineMarkers DEF Exists
  <2>3. LedgerStatus(task, d)' = LedgerStatus(task, d)
    BY <2>1, <2>2, StatusKept
  <2> QED
    BY <2>3, SameStatusEntered
<1> QED
  BY <1>2, <1>3, <1>4

\* Cover does not change with rows, nor with requests that have none to give.
LEMMA CoverKept ==
    ASSUME UNCHANGED <<queue, runs>>, NEW task \in Tasks, NEW d \in DocIds,
           NEW c \in Callers, \A e \in Callers \ {c} : requests'[e] = requests[e],
           ~(/\ requests[c] # Nil /\ requests[c].id = d
             /\ requests[c].pc \in {"refresh", "publish"}
             /\ task \in requests[c].tasks),
           ~(/\ requests'[c] # Nil /\ requests'[c].id = d
             /\ requests'[c].pc \in {"refresh", "publish"}
             /\ task \in requests'[c].tasks)
    PROVE  Covered(task, d)' <=> Covered(task, d)
BY DEF Covered

\* A row is deleted: nobody waits for it any more.
LEMMA DropRowEntered ==
    ASSUME CoverInv, Next, NEW c \in Callers, DropRow(c),
           NEW task \in Tasks, NEW d \in DocIds
    PROVE  Entered(task, d)
<1>1. requests[c].pc = "drop" /\ requests'[c] = Nil
  BY DEF DropRow, Ends, CoverInv, BackedInv, TypeInv, RequestsType
<1>2. \A e \in Callers \ {c} : requests'[e] = requests[e]
  BY DEF DropRow, Ends, CoverInv, BackedInv, TypeInv, RequestsType
<1>3. UNCHANGED <<queue, runs>> /\ (Lost(task, d)' <=> Lost(task, d))
  BY DEF DropRow, History, Lost
<1>4. Covered(task, d)' <=> Covered(task, d)
  BY <1>1, <1>2, <1>3, CoverKept
<1>5. CASE rows'[d] = rows[d]
  <2>1. LedgerStatus(task, d)' = LedgerStatus(task, d)
    BY <1>5, StatusKept DEF Exists
  <2> QED
    BY <2>1, SameStatusEntered
<1>6. CASE rows'[d] # rows[d]
  <2>1. ~Exists(d)'
    BY <1>6 DEF DropRow, CoverInv, BackedInv, TypeInv, RowsType, Exists
  <2>2. LedgerStatus(task, d)' = "none"
    BY <2>1 DEF LedgerStatus, Awaits, IsPending
  <2> QED
    BY <1>3, <1>4, <2>2 DEF Entered
<1> QED
  BY <1>5, <1>6

\* A request commits: a row waits only for what the request is to enqueue.
LEMMA CommitRequestEntered ==
    ASSUME LedgerInv, Next, NEW c \in Callers, CommitRequest(c),
           NEW task \in Tasks, NEW d \in DocIds
    PROVE  Entered(task, d)
<1> USE DEF LedgerInv
<1> DEFINE r == requests[c]
<1>1. /\ r # Nil /\ r.pc = "commit"
      /\ Owed(r.seen, r.new, r.tasks)
      /\ r.seen # Nil => r.seen \in Rows /\ r.new.kind = r.seen.kind
  BY DEF CommitRequest, CoverInv, BackedInv, RowsToWriteSound
<1>2. /\ r \in Requests /\ r.id \in DocIds /\ r.new \in Rows
      /\ \A e \in DocIds : e # r.id => rows'[e] = rows[e]
      /\ r.seen = Nil => rows'[r.id] = r.new
      /\ r.seen # Nil =>
           /\ Exists(r.id) /\ rows[r.id] \in Rows
           /\ rows'[r.id] = OrmUpdate(rows[r.id], r.seen, r.new)
           /\ rows'[r.id].kind = rows[r.id].kind
  BY <1>1, CommitRequestRow DEF CoverInv, BackedInv
<1>3. CASE LedgerStatus(task, d)' = LedgerStatus(task, d)
  BY <1>3, SameStatusEntered
<1>4. CASE LedgerStatus(task, d)' # LedgerStatus(task, d)
  <2>1. r.id = d
    BY <1>2, <1>4, StatusKept DEF Exists
  <2>2. rows'[d] \in Rows
    BY <1>1, <1>2, <2>1, OrmUpdateType
  <2>3. Exists(d)'
    BY <2>2, PipelineMarkers DEF Exists
  <2>4. /\ StatusFor(rows'[d], task) = StatusFor(r.new, task)
        /\ StatusFor(r.new, task) \in {"pending", "not_requested"}
        /\ StatusFor(r.new, task) = "pending" => task \in r.tasks
    <3>1. CASE r.seen = Nil
      BY <1>1, <1>2, <2>1, <3>1 DEF RowsToWriteAsk, Owed
    <3>2. CASE r.seen # Nil
      <4>1. StatusFor(rows'[d], task)
              = IF StatusFor(r.new, task) = StatusFor(r.seen, task)
                THEN StatusFor(rows[d], task) ELSE StatusFor(r.new, task)
        BY <1>1, <1>2, <2>1, <3>2, OrmUpdateColumn DEF StatusFor
      <4>2. StatusFor(rows'[d], task) # StatusFor(rows[d], task)
        BY <1>2, <1>4, <2>1, <2>3, <3>2, StatusKept
      <4> QED
        BY <1>1, <3>2, <4>1, <4>2 DEF RowsToWriteAsk, Owed
    <3> QED
      BY <3>1, <3>2
  <2>5. LedgerStatus(task, d)' \in {"pending", "none"}
    <3>1. StatusFor(rows[d], task)' \in {"pending", "not_requested"}
      BY <2>4 DEF StatusFor
    <3> QED
      BY <2>3, <3>1 DEF LedgerStatus, Awaits, IsPending
  <2>6. ~(LedgerStatus(task, d)' = "none") => StatusFor(r.new, task) = "pending"
    <3>1. StatusFor(rows[d], task)' = StatusFor(r.new, task)
      BY <2>4 DEF StatusFor
    <3> QED
      BY <2>3, <2>4, <3>1 DEF LedgerStatus, Awaits, IsPending
  <2>7. UNCHANGED <<queue, runs>> /\ (Lost(task, d)' <=> Lost(task, d))
    BY DEF CommitRequest, History, Lost
  <2>8. requests' = [requests EXCEPT ![c].pc = "refresh"]
    BY DEF CommitRequest, GoOn
  <2>9. requests'[c] = [r EXCEPT !.pc = "refresh"]
    BY <2>8 DEF CoverInv, BackedInv, TypeInv, RequestsType
  <2>10. /\ requests'[c] \in Requests /\ requests'[c].pc = "refresh"
         /\ requests'[c].id = d /\ requests'[c].tasks = r.tasks
    BY <1>2, <2>1, <2>9 DEF Requests
  <2>11. requests'[c] # Nil
    BY <2>10, PipelineMarkers
  <2>12. CASE task \in r.tasks
    <3>1. Covered(task, d)'
      BY <2>10, <2>11, <2>12 DEF Covered
    <3> QED
      BY <2>5, <2>7, <3>1 DEF Entered
  <2>13. CASE task \notin r.tasks
    <3>1. LedgerStatus(task, d)' = "none"
      BY <2>4, <2>6, <2>13
    <3>2. \A e \in Callers \ {c} : requests'[e] = requests[e]
      BY <2>8 DEF CoverInv, BackedInv, TypeInv, RequestsType
    <3>3. Covered(task, d)' <=> Covered(task, d)
      BY <1>1, <2>7, <2>10, <2>13, <3>2, CoverKept
    <3> QED
      BY <2>7, <3>1, <3>3 DEF Entered
  <2> QED
    BY <2>12, <2>13
<1> QED
  BY <1>3, <1>4

LEMMA EveryStepEntered ==
    ASSUME LedgerInv, Next, NEW task \in Tasks, NEW d \in DocIds
    PROVE  Entered(task, d)
<1>1. CoverInv
  BY DEF LedgerInv
<1>2. CASE rows' = rows
  <2>1. LedgerStatus(task, d)' = LedgerStatus(task, d)
    BY <1>2, StatusKept DEF Exists
  <2> QED
    BY <1>1, <2>1, SameStatusEntered
<1>3. CASE \E w \in Workers : CommitRun(w)
  BY <1>1, <1>3, CommitRunEntered
<1>4. CASE \E c \in Callers : CommitRequest(c) \/ DropRow(c)
  BY <1>1, <1>4, CommitRequestEntered, DropRowEntered
<1> QED
  BY <1>2, <1>3, <1>4, OnlyCommitAndDropWriteRows, OnlyCommitsWriteRows DEF Next

-----------------------------------------------------------------------------
(* The refinement. *)

LEMMA StatusInWords ==
    ASSUME NEW task, NEW d
    PROVE  LedgerStatus(task, d) \in {"none", "pending", "done", "failed"}
BY DEF LedgerStatus

LEMMA LedgerTypes == TypeInv => Ledger!TypeOK
<1> SUFFICES ASSUME TypeInv PROVE Ledger!TypeOK
  OBVIOUS
<1>1. [k \in Tasks \X DocIds |-> LedgerStatus(k[1], k[2])]
        \in [Tasks \X DocIds -> {"none", "pending", "done", "failed"}]
  BY StatusInWords
<1>2. stranded \subseteq Tasks \X DocIds
  BY DEF TypeInv, HistoryType
<1> QED
  BY <1>1, <1>2 DEF Ledger!TypeOK, Ledger!Statuses

LEMMA LedgerStep ==
    ASSUME LedgerInv, TypeInv', Next
    PROVE  Ledger!Next
<1>1. ASSUME NEW k \in Tasks \X DocIds
      PROVE  \/ Ledger!Ask(k) \/ Ledger!Answer(k) \/ Ledger!Withdraw(k)
             \/ Ledger!Skip(k) \/ Ledger!Lose(k) \/ Ledger!Stays(k)
  <2>1. PICK task \in Tasks, d \in DocIds : k = <<task, d>>
    OBVIOUS
  <2>2. Entered(task, d)
    BY EveryStepEntered
  <2> QED
    BY <2>1, <2>2
    DEF Entered, Lost, Ledger!Ask, Ledger!Answer, Ledger!Withdraw, Ledger!Skip,
        Ledger!Lose, Ledger!Stays
<1>2. Ledger!TypeOK'
  BY LedgerTypes, PTL
<1> QED
  BY <1>1, <1>2 DEF Ledger!Next

\* At the start nothing waits and nothing is owed.
LEMMA LedgerStart == Init => Ledger!Init
<1> SUFFICES ASSUME Init PROVE Ledger!Init
  OBVIOUS
<1>1. CoverInv
  BY CoverInit
<1>2. \A task \in Tasks, d \in DocIds : ~Covered(task, d)
  BY DEF Init, Covered
<1>3. \A task \in Tasks, d \in DocIds : LedgerStatus(task, d) # "pending"
  BY <1>1, <1>2, StatusIsPending DEF CoverInv, PendingIsCovered, Init
<1>4. [k \in Tasks \X DocIds |-> LedgerStatus(k[1], k[2])]
        \in [Tasks \X DocIds -> {"none", "pending", "done", "failed"} \ {"pending"}]
  BY <1>3, StatusInWords
<1>5. {k \in Tasks \X DocIds : Covered(k[1], k[2])} = {}
  BY <1>2
<1>6. stranded = {}
  BY DEF Init
<1> QED
  BY <1>4, <1>5, <1>6 DEF Ledger!Init, Ledger!Statuses

\* Refinement: the pipelines keep the ledger of every task.
THEOREM PipelinesKeepLedger == Spec => KeepsLedger
<1>1. LedgerInv /\ TypeInv' /\ [Next]_vars => [Ledger!Next]_(Ledger!ledger)
  <2>1. CASE Next
    BY <2>1, LedgerStep
  <2>2. CASE UNCHANGED vars
    <3>1. UNCHANGED Ledger!ledger
      BY <2>2 DEF vars, Ledger!ledger, LedgerStatus, Awaits, IsPending, Exists,
                  StatusFor, Covered
    <3> QED
      BY <3>1
  <2> QED
    BY <2>1, <2>2
<1> QED
  BY <1>1, LedgerStart, LedgerInvariance, WellTyped, PTL
  DEF Spec, KeepsLedger, Ledger!Spec

\* What the promise is good for: whoever keeps the ledger forgets no task.
THEOREM LedgerForgetsNothing == Spec => []Ledger!NothingForgotten
<1>1. Ledger!Init => Ledger!NothingForgotten
  BY DEF Ledger!Init, Ledger!NothingForgotten, Ledger!Statuses
<1>2. Ledger!NothingForgotten /\ [Ledger!Next]_(Ledger!ledger)
        => Ledger!NothingForgotten'
  BY DEF Ledger!Next, Ledger!NothingForgotten, Ledger!Ask, Ledger!Answer,
         Ledger!Withdraw, Ledger!Skip, Ledger!Lose, Ledger!Stays, Ledger!ledger
<1> QED
  BY <1>1, <1>2, PipelinesKeepLedger, PTL DEF KeepsLedger, Ledger!Spec
=============================================================================
