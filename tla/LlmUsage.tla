----------------------------- MODULE LlmUsage -----------------------------
(***************************************************************************)
(* UsageBuffer and the records it takes (app/llm/usage.py): every finished *)
(* model call leaves one record; the call that fills a batch ships it, a   *)
(* worker ships what is left from time to time, and stop() ships the rest. *)
(*                                                                         *)
(* Nothing is awaited under the lock of the buffer, so what it guards is   *)
(* one step.  A record is named by its number.                             *)
(***************************************************************************)
EXTENDS Naturals, Sequences, SequencesExt

CONSTANTS
    Reporters,         \* tasks that make model calls
    FlushSizes,        \* settings.llm_usage_flush_size
    MaxBuffer,         \* settings.llm_usage_max_buffer
    MaxPerRequest,     \* MAX_RECORDS_PER_REQUEST
    MaxRecords         \* bound: records taken

Worker  == "worker"
Stopper == "stopper"
Senders == Reporters \cup {Worker, Stopper}

ASSUME LlmUsageAssumption ==
    /\ FlushSizes \subseteq Nat \ {0} /\ MaxPerRequest \in Nat \ {0}
    /\ MaxBuffer \in Nat \ {0} /\ MaxRecords \in Nat
    /\ Worker \notin Reporters /\ Stopper \notin Reporters

VARIABLES
    flushSize,
    buffer,   \* _records
    added,    \* records taken so far
    sending,  \* sending[s]: the batch s is posting
    doing,    \* doing[s]: what s is at
    billed,   \* Orchestration: how often it has the record
    dropped   \* records given up, with a line in the log or without

usageVars == <<flushSize, buffer, added, sending, doing, billed, dropped>>

UsageInit ==
    /\ flushSize \in FlushSizes
    /\ buffer = <<>> /\ added = 0
    /\ sending = [s \in Senders |-> <<>>]
    /\ doing = [s \in Senders |-> "idle"]
    /\ billed = [r \in 1..MaxRecords |-> 0]
    /\ dropped = {}

-----------------------------------------------------------------------------
(* The buffer.                                                             *)

\* What is over the limit goes from the old end.
Kept(records) ==
    SubSeq(records, IF Len(records) > MaxBuffer THEN Len(records) - MaxBuffer + 1 ELSE 1,
           Len(records))

Take(s, records) ==
    LET n == IF Len(records) > MaxPerRequest THEN MaxPerRequest ELSE Len(records) IN
    /\ buffer' = SubSeq(records, n + 1, Len(records))
    /\ sending' = [sending EXCEPT ![s] = SubSeq(records, 1, n)]
    /\ doing' = [doing EXCEPT ![s] = "posting"]

Add(s) ==
    /\ s \in Reporters /\ doing[s] = "idle" /\ added < MaxRecords
    /\ added' = added + 1
    /\ LET all == Append(buffer, added') IN
       /\ dropped' = dropped \cup (ToSet(all) \ ToSet(Kept(all)))
       /\ \/ /\ Len(Kept(all)) < flushSize
             /\ buffer' = Kept(all) /\ UNCHANGED <<sending, doing>>
          \/ /\ Len(Kept(all)) >= flushSize
             /\ Take(s, Kept(all))
    /\ UNCHANGED <<flushSize, billed>>

\* flush(): batch after batch until nothing is held.
Flushed(s) == IF s = Worker THEN "idle" ELSE "stopped"

Flush(s) ==
    /\ doing[s] = "flushing"
    /\ \/ /\ buffer = <<>>
          /\ doing' = [doing EXCEPT ![s] = Flushed(s)] /\ UNCHANGED <<buffer, sending>>
       \/ /\ buffer # <<>> /\ Take(s, buffer)
    /\ UNCHANGED <<flushSize, added, billed, dropped>>

Wake ==
    /\ doing[Worker] = "idle"
    /\ doing' = [doing EXCEPT ![Worker] = "flushing"]
    /\ UNCHANGED <<flushSize, buffer, added, sending, billed, dropped>>

-----------------------------------------------------------------------------
(* A post.  It may have been stored although its answer never comes.       *)

Batch(s) == ToSet(sending[s])

Stored(s) == billed' = [r \in DOMAIN billed |-> billed[r] + IF r \in Batch(s) THEN 1 ELSE 0]

AfterPost_Once(s) == IF s \in Reporters THEN "idle" ELSE Flushed(s)
AfterPost(s) == IF s \in Reporters THEN "idle" ELSE "flushing"

Posted(s) ==
    /\ sending' = [sending EXCEPT ![s] = <<>>]
    /\ doing' = [doing EXCEPT ![s] = AfterPost(s)]
    /\ UNCHANGED <<flushSize, added>>

Delivered(s) ==
    /\ doing[s] = "posting"
    /\ Posted(s) /\ Stored(s)
    /\ UNCHANGED <<buffer, dropped>>

\* Refused, timed out or lost: the batch is dropped, since it may be there.
Failing_KeepsBatch(s) ==
    /\ doing[s] = "posting"
    /\ Posted(s)
    /\ buffer' = sending[s] \o buffer
    /\ Stored(s) \/ UNCHANGED billed
    /\ UNCHANGED dropped

Failing(s) ==
    /\ doing[s] = "posting"
    /\ Posted(s)
    /\ dropped' = dropped \cup Batch(s)
    /\ Stored(s) \/ UNCHANGED billed
    /\ UNCHANGED buffer

\* The task is cancelled in its post: a CancelledError is no Exception, so
\* the batch goes without a line.  A reporter's task is a QA run or a request.
Cut(s) ==
    /\ s \in Reporters /\ doing[s] = "posting"
    /\ Posted(s)
    /\ dropped' = dropped \cup Batch(s)
    /\ Stored(s) \/ UNCHANGED billed
    /\ UNCHANGED buffer

\* stop(): the worker is cancelled wherever it is, then what is held is sent.
Stop ==
    /\ doing[Stopper] = "idle"
    /\ doing' = [doing EXCEPT ![Worker] = "cancelled", ![Stopper] = "flushing"]
    /\ sending' = [sending EXCEPT ![Worker] = <<>>]
    /\ dropped' = dropped \cup Batch(Worker)
    /\ Stored(Worker) \/ UNCHANGED billed
    /\ UNCHANGED <<flushSize, buffer, added>>

UsageNext ==
    \/ \E s \in Senders : Add(s) \/ Flush(s) \/ Delivered(s) \/ Failing(s) \/ Cut(s)
    \/ Wake \/ Stop

\* The worker's loop goes on; a post ends by its answer or the client's
\* timeout of 5 seconds.
SendersGoOn ==
    \A s \in {Worker, Stopper} :
        WF_usageVars(Flush(s)) /\ WF_usageVars(Delivered(s) \/ Failing(s))

UsageFairness == WF_usageVars(Wake) /\ SendersGoOn

UsageSpec == UsageInit /\ [][UsageNext]_usageVars /\ UsageFairness

-----------------------------------------------------------------------------
(* Properties.                                                             *)

Held(r) == r \in ToSet(buffer)
InPost(r) == {s \in Senders : r \in Batch(s)}

\* A call is on the bill at most once, whichever posts fail after they were
\* stored: what has been posted is in no later batch, a record is in one place
\* at a time, and one that is nowhere was stored or given up.
\* (usage.py:12-17, 323-331)
EachCallBilledOnce ==
    \A r \in 1..added :
        /\ billed[r] <= 1
        /\ Held(r) => InPost(r) = {} /\ billed[r] = 0 /\ r \notin dropped
        /\ InPost(r) # {} => billed[r] = 0 /\ \A s, t \in InPost(r) : s = t
        /\ Held(r) \/ InPost(r) # {} \/ billed[r] = 1 \/ r \in dropped

\* No record stays: failures do not end the worker's loop, and a stop sends
\* what the worker leaves, more than one batch of it if need be.
\* (usage.py:273-303, 309-312)
EveryRecordLeaves ==
    (buffer # <<>> /\ doing[Stopper] # "stopped") ~> (buffer = <<>>)
=============================================================================
