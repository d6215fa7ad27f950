---- MODULE EmbeddingJobs ----
(***************************************************************************)
(* Vectors of messages for semantic recall: the job rows of                *)
(* lib/stores/message-embedding-jobs.ts, which the writers of messages     *)
(* (lib/stores/threads.ts) queue, the one worker that claims and embeds    *)
(* them, the cache that recall reads, and the pass that embeds anew after  *)
(* the model was changed (lib/embeddings/index.ts).                        *)
(*                                                                         *)
(* A text is what extractEmbeddableText makes of a content, and its hash.  *)
(* The text of a draft is not embedded and is left out. Vectors of         *)
(* memories are left out but for the time they take. A claim takes all     *)
(* that is due: the model has fewer messages than the limit of 16. That a  *)
(* claimed job has another hash than its message, or nothing to embed,     *)
(* cannot happen by VectorsAreTrue, so the worker's filters are left out.  *)
(***************************************************************************)
EXTENDS Naturals

CONSTANTS
    Indexed,          \* messages
    EmbedTexts,       \* what may be embedded of a content
    NoText,           \* nothing to embed
    Models, NoModel,  \* signatures of embedding models; none configured
    MaxEvents         \* bound of the model: edits of final messages, changes
                      \* of the model and restarts, all together

ASSUME EmbeddingAssumption == NoText \notin EmbedTexts /\ NoModel \notin Models /\ MaxEvents \in Nat

VARIABLES
    msgRows,    \* [Indexed -> row of messages]
    jobs,       \* [Indexed -> row of message_embedding_jobs]
    cache,      \* msgEmbedCache: loaded or not, and the vectors in it
    worker,     \* messageEmbeddingQueuePromise and what it has claimed
    kicked,     \* a microtask of scheduleMessageEmbeddingWorker waits
    timer,      \* messageEmbeddingRetryTimer is armed
    reembed,    \* reembedStaleVectors: "idle", in the "memories", in the "messages"
    active,     \* the signature of the configured model
    events

embeddingVars == <<msgRows, jobs, cache, worker, kicked, timer, reembed, active, events>>

Hashes == EmbedTexts \cup {NoText}
Signatures == Models \cup {NoModel}
NoVector == [text |-> NoText, model |-> NoModel]
Vectors == [text : EmbedTexts, model : Models] \cup {NoVector}

\* A draft is in progress; an automation that is still checking has no text
\* worth embedding either.
MessageRows == [status : {"unborn", "draft", "checking", "final", "gone"}, text : Hashes, vector : Vectors]
JobRows == [state : {"none", "pending", "processing", "done", "failed", "skipped"}, hash : Hashes,
            model : Signatures, attempted : Signatures, due : BOOLEAN]

NoJob == [state |-> "none", hash |-> NoText, model |-> NoModel, attempted |-> NoModel, due |-> FALSE]
NotLoaded == [loaded |-> FALSE, vectors |-> [m \in Indexed |-> NoVector]]
NoBatch == [m \in Indexed |-> NoText]
Waits == [phase |-> "idle", batch |-> NoBatch, model |-> NoModel]

EmbeddingTypeOK ==
    /\ msgRows \in [Indexed -> MessageRows]
    /\ jobs \in [Indexed -> JobRows]
    /\ cache \in [loaded : BOOLEAN, vectors : [Indexed -> Vectors]]
    /\ worker \in [phase : {"idle", "embeds", "ends"}, batch : [Indexed -> Hashes], model : Signatures]
    /\ {kicked, timer} \subseteq BOOLEAN
    /\ reembed \in {"idle", "memories", "messages"}
    /\ active \in Signatures
    /\ events \in 0..MaxEvents

\* Every number of messages is written, and of events met.
EmbeddingInit ==
    /\ \E status \in [Indexed -> {"unborn", "gone"}] :
         msgRows = [m \in Indexed |-> [status |-> status[m], text |-> NoText, vector |-> NoVector]]
    /\ jobs = [m \in Indexed |-> NoJob]
    /\ cache = NotLoaded
    /\ worker = Waits
    /\ kicked = FALSE /\ timer = FALSE
    /\ reembed = "idle"
    /\ active \in Signatures
    /\ events \in 0..MaxEvents

isOpen(j) == j.state \in {"pending", "processing"}

\* enqueueMessageEmbeddingJob with force: the model of the last vector is kept
\* while the text is the same.
queuedAgain(j, text, attempted) ==
    LET same == j.hash = text IN
    [state |-> IF text = NoText THEN "skipped" ELSE "pending",
     hash |-> text,
     model |-> IF same THEN j.model ELSE NoModel,
     attempted |-> IF ~same THEN NoModel ELSE IF attempted # NoModel THEN attempted ELSE j.attempted,
     due |-> TRUE]

Disturbs == events < MaxEvents /\ events' = events + 1

----------------------------------------------------------------------------
(* Messages.                                                               *)

\* Mutant of cacheAfter: a change of one message leaves the cache to the worker.
cacheKept(changed) == cache

\* resetMessageEmbedCache, or the cache as it is.
cacheAfter(changed) == IF changed THEN NotLoaded ELSE cache

\* A row becomes final, or its final text or metadata is written again.
written(m, text, changed) ==
    /\ msgRows' = [msgRows EXCEPT ![m].status = "final", ![m].text = text,
                                  ![m].vector = IF changed THEN NoVector ELSE @]
    /\ jobs' = [jobs EXCEPT ![m] = queuedAgain(@, text, NoModel)]
    /\ cache' = cacheAfter(changed)
    /\ kicked' = TRUE

\* addMessage
AddMessageRow(m, status, text) ==
    /\ msgRows[m].status = "unborn"
    /\ status = "final" \/ text = NoText
    /\ IF status = "final" THEN written(m, text, FALSE)
       ELSE msgRows' = [msgRows EXCEPT ![m].status = status] /\ UNCHANGED <<jobs, cache, kicked>>
    /\ UNCHANGED <<worker, timer, reembed, active, events>>

\* updateMessageContent of a row that is done.
FinishMessage(m, text, changed) ==
    /\ msgRows[m].status \in {"draft", "checking"}
    /\ written(m, text, changed)
    /\ UNCHANGED <<worker, timer, reembed, active, events>>

\* updateMessageContent of a final row; a content may change and still have
\* the same text.
EditMessage(m, text, changed) ==
    /\ msgRows[m].status = "final"
    /\ text # msgRows[m].text => changed
    /\ Disturbs
    /\ written(m, text, changed)
    /\ UNCHANGED <<worker, timer, reembed, active>>

\* deleteThread and pruneThreadMessages; the job goes with its message.
DeleteMessage(m) ==
    /\ msgRows[m].status \notin {"unborn", "gone"}
    /\ msgRows' = [msgRows EXCEPT ![m] = [status |-> "gone", text |-> NoText, vector |-> NoVector]]
    /\ jobs' = [jobs EXCEPT ![m] = NoJob]
    /\ cache' = NotLoaded
    /\ UNCHANGED <<worker, kicked, timer, reembed, active, events>>

----------------------------------------------------------------------------
(* The worker: processMessageEmbeddingJobs.                                *)

\* The loop of `drain` up to its await: claim what is due, or end and arm the
\* retry for what is left.
drainLoop(js) ==
    LET due == {m \in Indexed : isOpen(js[m]) /\ js[m].due} IN
    /\ jobs' = [m \in Indexed |->
          IF m \in due THEN [js[m] EXCEPT !.state = "processing", !.due = FALSE] ELSE js[m]]
    /\ IF due # {}
       THEN /\ worker' = [phase |-> "embeds", model |-> active,
                          batch |-> [m \in Indexed |-> IF m \in due THEN js[m].hash ELSE NoText]]
            /\ timer' = FALSE
       ELSE /\ worker' = [Waits EXCEPT !.phase = "ends"]
            /\ timer' = \E m \in Indexed : isOpen(js[m])

\* Whoever calls while a worker is about gets its promise.
process(js) == IF worker.phase = "idle" THEN drainLoop(js) ELSE jobs' = js /\ UNCHANGED <<worker, timer>>

Kick ==
    /\ kicked /\ kicked' = FALSE
    /\ process(jobs)
    /\ UNCHANGED <<msgRows, cache, reembed, active, events>>

\* No timer fires between the end of a worker and the microtask that clears
\* its promise.
RetryTimer ==
    /\ timer /\ worker.phase = "idle"
    /\ \E m \in Indexed : isOpen(jobs[m]) /\ jobs[m].due
    /\ process(jobs)
    /\ UNCHANGED <<msgRows, cache, kicked, reembed, active, events>>

\* A backoff or a lease is over.
DelayPasses(m) ==
    /\ isOpen(jobs[m]) /\ ~jobs[m].due
    /\ jobs' = [jobs EXCEPT ![m].due = TRUE]
    /\ UNCHANGED <<msgRows, cache, worker, kicked, timer, reembed, active, events>>

\* Mutant of resultOutdated: the result is stored whatever became of the message.
resultTaken(m) == jobs[m].state = "none"

\* completeMessageEmbeddingJob: `current.state !== "processing"`, or the
\* message has another text by now.
resultOutdated(m) ==
    \/ jobs[m].state # "processing"
    \/ jobs[m].hash # worker.batch[m] \/ msgRows[m].text # worker.batch[m]

EmbedOutcomes == {"vector", "retry", "never", "refused"}

\* completeMessageEmbeddingJob and failMessageEmbeddingJob.
settled(m, outcome) ==
    LET j == jobs[m] IN
    CASE outcome = "vector" /\ ~resultOutdated(m) ->
           [j EXCEPT !.state = "done", !.model = worker.model, !.attempted = worker.model, !.due = FALSE]
      [] outcome = "vector" /\ resultOutdated(m) /\ j.state = "processing" -> queuedAgain(j, msgRows[m].text, NoModel)
      [] outcome \in {"retry", "never"} /\ j.state = "processing" /\ j.hash = worker.batch[m] ->
           [j EXCEPT !.state = IF outcome = "never" THEN "failed" ELSE "pending", !.due = FALSE,
                     !.attempted = IF worker.model = NoModel THEN @ ELSE worker.model]
      [] OTHER -> j

Claimed == {m \in Indexed : worker.batch[m] # NoText}

\* embedBestEffort answers for each text of the batch with a vector, with a
\* failure worth retrying, or with one that is not. Without a model it has
\* failed. Then the loop goes on, unless the database has refused a result:
\* the jobs left stay claimed.
EmbedReturns(outcome) ==
    LET vector(m) == [text |-> worker.batch[m], model |-> worker.model]
        stored == {m \in Claimed : outcome[m] = "vector" /\ ~resultOutdated(m)}
        after == [m \in Indexed |-> IF m \in Claimed THEN settled(m, outcome[m]) ELSE jobs[m]]
    IN  /\ worker.phase = "embeds"
        /\ worker.model = NoModel => \A m \in Claimed : outcome[m] \in {"retry", "refused"}
        /\ msgRows' = [m \in Indexed |-> IF m \in stored THEN [msgRows[m] EXCEPT !.vector = vector(m)] ELSE msgRows[m]]
        /\ cache' = IF cache.loaded
             THEN [cache EXCEPT !.vectors = [m \in Indexed |-> IF m \in stored THEN vector(m) ELSE @[m]]]
             ELSE cache
        /\ IF \E m \in Claimed : outcome[m] = "refused"
           THEN /\ jobs' = after
                /\ worker' = [Waits EXCEPT !.phase = "ends"]
                /\ timer' = \E m \in Indexed : isOpen(after[m])
           ELSE drainLoop(after)
        /\ UNCHANGED <<kicked, reembed, active, events>>

\* `finally { messageEmbeddingQueuePromise = null }`, some microtasks after
\* the worker has looked for the last time.
WorkerEnds ==
    /\ worker.phase = "ends"
    /\ worker' = Waits
    /\ reembed' = IF reembed = "messages" THEN "idle" ELSE reembed
    /\ UNCHANGED <<msgRows, jobs, cache, kicked, timer, active, events>>

----------------------------------------------------------------------------
(* Recall, and the change of the model.                                    *)

\* loadMsgEmbedCache
loaded == IF cache.loaded THEN cache ELSE [loaded |-> TRUE, vectors |-> [m \in Indexed |-> msgRows[m].vector]]

\* A vector of another model, unless this model was tried and is yet to
\* answer or has failed for good.
staleVector(m) ==
    /\ loaded.vectors[m] # NoVector /\ jobs[m].model # active
    /\ ~(jobs[m].attempted = active /\ jobs[m].state \in {"pending", "processing", "failed"})

\* searchMemory: compares with what is cached, and reembedStaleVectors, unless
\* it runs or has failed of late.
Recall(rescans) ==
    /\ active # NoModel
    /\ cache' = loaded
    /\ IF rescans
       THEN /\ reembed = "idle" /\ reembed' = "memories"
            /\ jobs' = [m \in Indexed |-> IF staleVector(m) THEN queuedAgain(jobs[m], msgRows[m].text, active) ELSE jobs[m]]
       ELSE UNCHANGED <<jobs, reembed>>
    /\ UNCHANGED <<msgRows, worker, kicked, timer, active, events>>

\* The memories are embedded, then the worker is called; or they failed.
MemoriesDone(embedded) ==
    /\ reembed = "memories"
    /\ IF embedded THEN reembed' = "messages" /\ process(jobs)
       ELSE reembed' = "idle" /\ UNCHANGED <<jobs, worker, timer>>
    /\ UNCHANGED <<msgRows, cache, kicked, active, events>>

SetModel(model) ==
    /\ model # active /\ Disturbs
    /\ active' = model
    /\ UNCHANGED <<msgRows, jobs, cache, worker, kicked, timer, reembed>>

\* The process ends and another one recovers the drafts
\* (recoverAbandonedMessageDrafts). Claimed jobs wait for their lease.
RestartEmbedding(text) ==
    LET drafts == {m \in Indexed : msgRows[m].status = "draft"} IN
    /\ Disturbs
    /\ msgRows' = [m \in Indexed |->
          IF m \in drafts THEN [msgRows[m] EXCEPT !.status = "final", !.text = text] ELSE msgRows[m]]
    /\ jobs' = [m \in Indexed |-> IF m \in drafts THEN queuedAgain(jobs[m], text, NoModel) ELSE jobs[m]]
    /\ kicked' = (drafts # {})
    /\ cache' = NotLoaded /\ worker' = Waits /\ timer' = FALSE /\ reembed' = "idle"
    /\ UNCHANGED active

Answers == \E outcome \in [Claimed -> EmbedOutcomes] : EmbedReturns(outcome)

EmbeddingNext ==
    \/ \E m \in Indexed, text \in Hashes :
         \/ \E status \in {"draft", "checking", "final"} : AddMessageRow(m, status, text)
         \/ \E changed \in BOOLEAN : FinishMessage(m, text, changed) \/ EditMessage(m, text, changed)
    \/ \E m \in Indexed : DeleteMessage(m) \/ DelayPasses(m)
    \/ Kick \/ RetryTimer \/ WorkerEnds
    \/ Answers
    \/ \E b \in BOOLEAN : Recall(b) \/ MemoriesDone(b)
    \/ \E model \in Signatures : SetModel(model)
    \/ \E text \in Hashes : RestartEmbedding(text)

EmbeddingSpec == EmbeddingInit /\ [][EmbeddingNext]_embeddingVars

----------------------------------------------------------------------------
(* Property                                                                *)

\* What recall compares with is what the transcript says now: a vector is of
\* the text of its row and of the model its job names, the cache has the rows'
\* vectors, and a job that is to be embedded is one of a final row with that
\* very text, whatever was edited, deleted or restarted while a batch was away.
VectorsAreTrue ==
    \A m \in Indexed :
       LET row == msgRows[m] IN
       /\ row.vector # NoVector => row.vector = [text |-> row.text, model |-> jobs[m].model]
       /\ cache.loaded => cache.vectors[m] = row.vector
       /\ isOpen(jobs[m]) => row.status = "final" /\ row.text = jobs[m].hash /\ row.text # NoText

====
