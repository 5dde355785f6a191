---------------------------- MODULE LedgerWorker ----------------------------
(***************************************************************************)
(* The ledger worker (ledger/worker.rs): it copies the execution events of *)
(* the stream to PostgreSQL, a batch in a transaction together with the    *)
(* checkpoint it restarts from.  Every gateway process has one.  With it,  *)
(* what the gateway's reset (routes/admin.rs) does to the tables, while    *)
(* the engine and the workers go on.                                       *)
(*                                                                         *)
(* What the statements of an event write is the matter of Ledger; here     *)
(* what an event has for a table is there or not.                          *)
(***************************************************************************)
EXTENDS ExecutionStream

CONSTANTS Workers,    \* the workers of the gateways
          BatchSize,  \* COUNT of the XREAD; 100 in the code
          MaxCrashes  \* bound

ASSUME WorkersAssumption == BatchSize \in Nat \ {0} /\ MaxCrashes \in Nat

VARIABLES rows,        \* table -> event -> how often the table has it (2: or more)
          checkpoint,  \* last_stream_id of execution_checkpoints
          up,          \* worker -> "down", "running", or "stuck": it has lost Redis
          last_id,     \* worker -> the last event it has done with
          batch,       \* worker -> the events in its open transaction
          tainted,     \* history: since the stream was last deleted a call has
                       \* failed that nobody makes good
          crashes

workerVars == <<rows, checkpoint, up, last_id, batch, tainted, crashes>>

Tables == {"ledger_entries", "trades", "orders"}

NoRows == [e \in Events |-> 0]

WorkerInit ==
  /\ rows = [t \in Tables |-> NoRows]
  /\ checkpoint = 0
  /\ up = [w \in Workers |-> "down"]
  /\ last_id = [w \in Workers |-> 0]
  /\ batch = [w \in Workers |-> {}]
  /\ tainted = FALSE
  /\ crashes = 0

-----------------------------------------------------------------------------
\* run_worker.

\* A call fails, and nobody may make that good.
Fails(call) ==
  /\ Failure(call)
  /\ tainted' = (tainted \/ call \in {"checkpoint", "statement", "acknowledgement", "reset"})

Works == UNCHANGED <<tainted, failures>>

Becomes(w, status) == up' = [up EXCEPT ![w] = status]

\* Connects to Redis, or the task ends for good; then the checkpoint is read,
\* and when that fails the worker starts from "0-0".
Start(w) ==
  /\ up[w] = "down"
  /\ \/ Becomes(w, "running") /\ last_id' = [last_id EXCEPT ![w] = checkpoint] /\ Works
     \/ Becomes(w, "running") /\ last_id' = [last_id EXCEPT ![w] = 0] /\ Fails("checkpoint")
     \/ Becomes(w, "stuck") /\ UNCHANGED last_id /\ Fails("connect")
  /\ UNCHANGED <<streamVars, rows, checkpoint, batch, crashes>>

\* Mutant of NextBatch: one event too many.
NextBatchAndOne(id) == {e \in After(id) : Cardinality({d \in After(id) : d < e}) <= BatchSize}

\* XREAD COUNT: the first events after a position.
NextBatch(id) == {e \in After(id) : Cardinality({d \in After(id) : d < e}) < BatchSize}

\* XREAD and begin.  When begin fails the batch is dropped, and read again.
\* When XREAD fails it is tried again on the same connection, which does not
\* reconnect: once that is lost every later XREAD fails too.
Read(w) ==
  /\ up[w] = "running" /\ batch[w] = {}
  /\ \/ /\ After(last_id[w]) # {}
        /\ UNCHANGED up
        /\ \/ batch' = [batch EXCEPT ![w] = NextBatch(last_id[w])] /\ Works
           \/ UNCHANGED batch /\ Fails("begin")
     \/ Becomes(w, "stuck") /\ UNCHANGED batch /\ Fails("read")
  /\ UNCHANGED <<streamVars, rows, checkpoint, last_id, crashes>>

BatchLast(w) == CHOOSE e \in batch[w] : \A d \in batch[w] : d <= e

\* The tables with the batch, and the checkpoint of its last event.
Insert(w) ==
  /\ rows' = [t \in Tables |-> [e \in Events |->
                IF e \in batch[w] /\ rows[t][e] < 2 THEN rows[t][e] + 1 ELSE rows[t][e]]]
  /\ checkpoint' = BatchLast(w)

Advance(w) == last_id' = [last_id EXCEPT ![w] = BatchLast(w)]

Forget(w) == batch' = [batch EXCEPT ![w] = {}]

\* Mutant of Commit: the checkpoint is written outside the transaction.
CommitCheckpointApart(w) ==
  /\ batch[w] # {}
  /\ \/ Insert(w) /\ Advance(w) /\ Works
     \/ Fails("commit") /\ checkpoint' = BatchLast(w) /\ UNCHANGED <<rows, last_id>>
  /\ Forget(w)
  /\ UNCHANGED <<streamVars, up, crashes>>

\* Mutant of Commit: the position in memory stays, to be read at a restart.
CommitStays(w) ==
  /\ batch[w] # {}
  /\ \/ Insert(w) /\ Works
     \/ Fails("commit") /\ UNCHANGED <<rows, checkpoint>>
  /\ Forget(w)
  /\ UNCHANGED <<streamVars, up, last_id, crashes>>

\* The statements of the batch, the checkpoint and the commit: stored; a
\* statement failed, so the transaction is aborted and COMMIT, which rolls it
\* back, reports no error; commit failed; or it took effect and its
\* acknowledgement was lost.
Commit(w) ==
  /\ batch[w] # {}
  /\ \/ Insert(w) /\ Advance(w) /\ Works
     \/ Fails("statement") /\ Advance(w) /\ UNCHANGED <<rows, checkpoint>>
     \/ Fails("commit") /\ UNCHANGED <<rows, checkpoint, last_id>>
     \/ Fails("acknowledgement") /\ Insert(w) /\ UNCHANGED last_id
  /\ Forget(w)
  /\ UNCHANGED <<streamVars, up, crashes>>

\* The gateway ends, by a crash or by the abort of its worker: an open
\* transaction is rolled back.
Stop(w) ==
  /\ up[w] # "down"
  /\ crashes < MaxCrashes
  /\ crashes' = crashes + 1
  /\ Becomes(w, "down")
  /\ Forget(w)
  /\ UNCHANGED <<streamVars, rows, checkpoint, last_id, tainted, failures>>

-----------------------------------------------------------------------------
\* A reset: the gateway deletes the rows of one table after the other, then sets
\* the checkpoint, then sends the reset to the engine.  None of it is a
\* transaction, and no error but that of sending is looked at.

Delete(t, now, next) ==
  /\ reset = now /\ reset' = next
  /\ \/ rows' = [rows EXCEPT ![t] = NoRows] /\ Works
     \/ UNCHANGED rows /\ Fails("delete")
  /\ UNCHANGED <<published, stream, checkpoint, up, last_id, batch, crashes>>

DeleteRows ==
  \/ /\ resets < MaxResets /\ resets' = resets + 1
     /\ Delete("ledger_entries", "none", "trades")
  \/ Delete("trades", "trades", "orders") /\ UNCHANGED resets
  \/ Delete("orders", "orders", "checkpoint") /\ UNCHANGED resets

ResetCheckpoint ==
  /\ reset = "checkpoint" /\ reset' = "send"
  /\ \/ checkpoint' = 0 /\ Works
     \/ UNCHANGED checkpoint /\ Fails("update")
  /\ UNCHANGED <<published, stream, resets, rows, up, last_id, batch, crashes>>

\* The gateway ends before it has sent the reset.
AbandonReset ==
  /\ reset \in {"trades", "orders", "checkpoint"} /\ reset' = "none"
  /\ Fails("reset")
  /\ UNCHANGED <<published, stream, resets, rows, checkpoint, up, last_id, batch, crashes>>

\* The engine has deleted the stream or not.
EndReset ==
  /\ \/ DelStream /\ tainted' = FALSE
     \/ KeepStream /\ tainted' = TRUE
  /\ UNCHANGED <<rows, checkpoint, up, last_id, batch, crashes>>

WorkerNext ==
  \/ \E w \in Workers : Start(w) \/ Read(w) \/ Commit(w) \/ Stop(w)
  \/ DeleteRows \/ ResetCheckpoint \/ AbandonReset \/ EndReset

-----------------------------------------------------------------------------
\* Properties.

\* Each event that is still to be had is in every table exactly once or in
\* none, and the checkpoint says which: "updates the checkpoint atomically"
\* (ARCHITECTURE.md 137).  It holds over crashes, failures of begin and commit,
\* and over a reset at any moment, also when the worker is behind it and stores
\* events of before when it is done, and when DELETEs or the UPDATE of the
\* checkpoint failed.
CheckpointExact ==
  reset = "none" /\ ~tainted =>
    \A t \in Tables : \A e \in stream : rows[t][e] = IF e <= checkpoint THEN 1 ELSE 0

\* The worker, which "writes double-entry ledger rows, and updates the
\* checkpoint atomically" (ARCHITECTURE.md 137), never has passed an event
\* that is not stored, and never goes back to one that is.  Does not hold: a
\* failed statement undoes the batch without an error at COMMIT.
NothingSkipped ==
  reset = "none" => \A w \in Workers : \A t \in Tables : \A e \in stream :
    up[w] = "running" => (e <= last_id[w]) = (rows[t][e] > 0)

\* Whatever fails in PostgreSQL, a worker goes past every event.  What stops it
\* is losing Redis, and that until its gateway is started again: it ends when it
\* cannot connect, and reads on for ever from a connection that is lost.
CatchesUp ==
  \A w \in Workers : \A e \in Events :
    e \in stream ~> (e \notin stream \/ last_id[w] >= e \/ up[w] = "stuck")

\* The worker implements the promise of the cold path.  The events deleted by
\* resets are those the promise has done with: what the tables have of them,
\* from a DELETE that failed or a worker behind the reset, is not its matter.
Settled == published - Cardinality(stream)

Copied == [t \in Tables |-> [e \in Events |-> IF e > Settled THEN rows[t][e] ELSE 0]]

Promise ==
  INSTANCE Sink WITH table <- Copied, base <- Settled,
                     broken <- tainted \/ reset # "none",
                     stalled <- \A w \in Workers : up[w] = "stuck"
ImplementsSink == Promise!Spec
=============================================================================
