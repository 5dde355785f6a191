----------------------------- MODULE EngineLoop -----------------------------
(***************************************************************************)
(* The engine process around the state machine of Engine (engine.rs,       *)
(* snapshot.rs): it reads commands from the stream engine-events, applies  *)
(* them in order, publishes their execution events and replies, and saves  *)
(* snapshots in PostgreSQL; it may crash between any two effects, and it   *)
(* recovers from the latest snapshot and the rest of the stream.           *)
(*                                                                         *)
(* An entry of the stream is known by its position in history, all that    *)
(* was ever appended; stream ids increase, so positions stand for them,    *)
(* and 0 stands for "0-0".  Handlers are deterministic, so the engine's    *)
(* state is known by the commands applied since the last reset, in order.  *)
(***************************************************************************)
EXTENDS Integers, Sequences, FiniteSets

CONSTANTS SnapshotInterval,  \* commands between snapshots; 1000 in the code
          KeptSnapshots,     \* rows that pruning keeps; 3 in the code
          Faults,            \* the calls that may fail, see below
          Isolation,         \* how far clients keep clear of a reset, see Open
          MaxEntries,        \* bound on the entries appended
          MaxCrashes         \* bound on the crashes and shutdowns

ASSUME SnapshotsAssumption ==
  SnapshotInterval \in Nat \ {0} /\ KeptSnapshots \in Nat \ {0}
ASSUME FaultsAssumption ==
  Faults \subseteq {"load", "xrange", "emit", "save", "prune", "truncate", "del"}
ASSUME IsolationAssumption == Isolation \in {"none", "reply", "delete"}
ASSUME EntriesAssumption == MaxEntries \in Nat /\ MaxCrashes \in Nat

\* The entries: a request, a reset, an entry without channel or data, and one
\* whose channel is unknown or whose data is no message of it (and which is
\* not a reset: only the gateway writes those, and well).
Kinds == {"command", "reset", "malformed", "unparsable"}

VARIABLES history,    \* every entry ever appended, of Kinds
          stream,     \* the positions that engine-events still holds
          snapshots,  \* the rows of engine_snapshots, oldest first
          gateway,    \* "idle" or "resetting": between the two halves of its reset
          up,         \* "down", "loaded", "replaying", "live"
          applied,    \* the engine's state: commands applied since its last reset
          last_id,
          batch,      \* the positions read and not yet processed
          pc,         \* where the engine is with the entry last_id
          events_since_snapshot,
          published,  \* position -> how often its execution events (or some of
                      \* them, when it crashed) were sent: 0, 1, 2 or more
          replied,    \* the positions whose reply was sent
          executed,   \* history: the positions that a handler ever ran for
          crashes

vars == <<history, stream, snapshots, gateway, up, applied, last_id, batch, pc,
          events_since_snapshot, published, replied, executed, crashes>>

Positions == 1..Len(history)

\* No handler runs for the entry.
Inert(p) == history[p] \in {"malformed", "unparsable"}

Init ==
  /\ history = <<>>
  /\ stream = {}
  /\ snapshots = <<>>
  /\ gateway = "idle"
  /\ up = "down"
  /\ applied = <<>>
  /\ last_id = 0
  /\ batch = {}
  /\ pc = "next"
  /\ events_since_snapshot = 0
  /\ published = [p \in 1..MaxEntries |-> 0]
  /\ replied = {}
  /\ executed = {}
  /\ crashes = 0

-----------------------------------------------------------------------------
\* The gateway (routes/admin.rs, redis/listener.rs).

\* Every request so far has been executed and the engine is between entries.
Quiet ==
  /\ \A p \in Positions : Inert(p) \/ p \in executed
  /\ pc = "next"

\* Clients may send a request.  The gateway lets them at any time; Isolation
\* says what they refrain from: nothing, sending between the start of a reset
\* and its reply, or until the engine has deleted the stream as well.
Open ==
  /\ Isolation # "none" =>
       /\ gateway = "idle"
       /\ \A p \in Positions : history[p] = "reset" =>
            /\ p \in executed
            /\ p = last_id => pc # "reply"
  /\ Isolation = "delete" => pc \notin {"truncate", "del"}

Append1(kind) ==
  /\ Len(history) < MaxEntries
  /\ history' = Append(history, kind)
  /\ stream' = stream \cup {Len(history) + 1}

\* send_and_wait: a command is appended to the stream.
Send(kind) ==
  /\ Open
  /\ Append1(kind)
  /\ UNCHANGED <<snapshots, gateway, up, applied, last_id, batch, pc,
                 events_since_snapshot, published, replied, executed, crashes>>

\* reset, first half: the gateway deletes the rows of engine_snapshots.
ResetDeletesRows ==
  /\ gateway = "idle"
  /\ Open
  /\ Isolation # "none" => Quiet
  /\ \/ snapshots' = <<>>
     \/ "truncate" \in Faults /\ snapshots' = snapshots
  /\ gateway' = "resetting"
  /\ UNCHANGED <<history, stream, up, applied, last_id, batch, pc,
                 events_since_snapshot, published, replied, executed, crashes>>

\* reset, second half: it sends the reset to the engine.
ResetSends ==
  /\ gateway = "resetting"
  /\ Append1("reset")
  /\ gateway' = "idle"
  /\ UNCHANGED <<snapshots, up, applied, last_id, batch, pc,
                 events_since_snapshot, published, replied, executed, crashes>>

-----------------------------------------------------------------------------
\* Start and recovery.

\* Mutant of After: the first entry after the position is left out.
AfterSkips(id) == {p \in stream : p > id + 1}

\* The entries the stream holds after a position: XRANGE (id + and XREAD id.
After(id) == {p \in stream : p > id}

\* The row with the highest id.
Latest == snapshots[Len(snapshots)]

\* Mutant of Load: the state is restored, the position is not.
LoadFromStart ==
  /\ up = "down"
  /\ up' = "loaded"
  /\ applied' = IF snapshots = <<>> THEN <<>> ELSE Latest.applied
  /\ last_id' = 0
  /\ UNCHANGED <<history, stream, snapshots, gateway, batch, pc,
                 events_since_snapshot, published, replied, executed, crashes>>

\* load_latest_snapshot; without one, or when it fails, the state is empty.
Load ==
  /\ up = "down"
  /\ up' = "loaded"
  /\ \/ /\ snapshots # <<>>
        /\ applied' = Latest.applied
        /\ last_id' = Latest.last_id
     \/ /\ snapshots = <<>> \/ "load" \in Faults
        /\ UNCHANGED <<applied, last_id>>
  /\ UNCHANGED <<history, stream, snapshots, gateway, batch, pc,
                 events_since_snapshot, published, replied, executed, crashes>>

\* Mutant of Xrange: the engine goes live at once.
XrangeNever ==
  /\ up = "loaded"
  /\ up' = "live"
  /\ UNCHANGED <<history, stream, snapshots, gateway, applied, last_id, batch, pc,
                 events_since_snapshot, published, replied, executed, crashes>>

\* replay_events_since reads what the stream holds; when that fails the
\* engine goes live without replay.
Xrange ==
  /\ up = "loaded"
  /\ \/ up' = "replaying" /\ batch' = After(last_id)
     \/ "xrange" \in Faults /\ up' = "live" /\ batch' = {}
  /\ UNCHANGED <<history, stream, snapshots, gateway, applied, last_id, pc,
                 events_since_snapshot, published, replied, executed, crashes>>

\* The next entry of the batch.
IsNext(p) == p \in batch /\ \A q \in batch : p <= q

\* dispatch_event: the state after the entry at p.
StateAfter(p) ==
  CASE history[p] = "command"   -> Append(applied, p)
    [] history[p] = "reset"     -> <<>>
    [] Inert(p)                 -> applied

\* emit_execution: the execution events of the entry at p go out.
Publish(p) == [published EXCEPT ![p] = IF @ < 2 THEN @ + 1 ELSE 2]

\* Mutant of ReplayRecord: the replay publishes.
ReplayPublishes(p) ==
  /\ up = "replaying"
  /\ IsNext(p)
  /\ batch' = batch \ {p}
  /\ last_id' = p
  /\ applied' = StateAfter(p)
  /\ executed' = IF Inert(p) THEN executed ELSE executed \cup {p}
  /\ published' = Publish(p)
  /\ UNCHANGED <<history, stream, snapshots, gateway, up, pc,
                 events_since_snapshot, replied, crashes>>

\* An entry of the replay is dispatched without a publisher.
ReplayRecord(p) ==
  /\ up = "replaying"
  /\ IsNext(p)
  /\ batch' = batch \ {p}
  /\ last_id' = p
  /\ applied' = StateAfter(p)
  /\ executed' = IF Inert(p) THEN executed ELSE executed \cup {p}
  /\ UNCHANGED <<history, stream, snapshots, gateway, up, pc,
                 events_since_snapshot, published, replied, crashes>>

GoLive ==
  /\ up = "replaying"
  /\ batch = {}
  /\ up' = "live"
  /\ UNCHANGED <<history, stream, snapshots, gateway, applied, last_id, batch, pc,
                 events_since_snapshot, published, replied, executed, crashes>>

-----------------------------------------------------------------------------
\* The live loop.

Xread ==
  /\ up = "live" /\ pc = "next" /\ batch = {}
  /\ After(last_id) # {}
  /\ batch' = After(last_id)
  /\ UNCHANGED <<history, stream, snapshots, gateway, up, applied, last_id, pc,
                 events_since_snapshot, published, replied, executed, crashes>>

\* XREAD BLOCK 1000 finds nothing; the loop goes round.
XreadTimeout ==
  /\ up = "live" /\ pc = "next" /\ batch = {}
  /\ After(last_id) = {}
  /\ UNCHANGED vars

\* The handler runs and sends its execution events; errors of emit_execution
\* are ignored.  A reset publishes none.  A malformed entry is skipped, an
\* unparsable one only counted.
Dispatch(p) ==
  /\ up = "live" /\ pc = "next"
  /\ IsNext(p)
  /\ batch' = batch \ {p}
  /\ last_id' = p
  /\ applied' = StateAfter(p)
  /\ executed' = IF Inert(p) THEN executed ELSE executed \cup {p}
  /\ pc' = CASE history[p] = "malformed"  -> "next"
             [] history[p] = "unparsable" -> "count"
             [] OTHER                     -> "reply"
  /\ \/ history[p] = "command" /\ published' = Publish(p)
     \/ (history[p] = "command" => "emit" \in Faults) /\ published' = published
  /\ UNCHANGED <<history, stream, snapshots, gateway, up, events_since_snapshot,
                 replied, crashes>>

Reply ==
  /\ up = "live" /\ pc = "reply"
  /\ replied' = replied \cup {last_id}
  /\ pc' = IF history[last_id] = "reset" THEN "truncate" ELSE "count"
  /\ UNCHANGED <<history, stream, snapshots, gateway, up, applied, last_id, batch,
                 events_since_snapshot, published, executed, crashes>>

\* The row that is saved.
Snapshot == [last_id |-> last_id, applied |-> applied]

\* The rows that pruning keeps: the newest.
Pruned(rows) ==
  IF Len(rows) <= KeptSnapshots THEN rows
  ELSE SubSeq(rows, Len(rows) - KeptSnapshots + 1, Len(rows))

\* save_snapshot: the insert and the pruning are two statements.  (Pruning
\* does not fail twice in a row, which bounds the rows.)
Save ==
  \/ snapshots' = Pruned(Append(snapshots, Snapshot))
  \/ "prune" \in Faults /\ Len(snapshots) <= KeptSnapshots /\ snapshots' = Append(snapshots, Snapshot)
  \/ "save" \in Faults /\ snapshots' = snapshots

\* Mutant of Count: the stream is emptied once a snapshot has been saved.
CountTrims ==
  /\ up = "live" /\ pc = "count"
  /\ pc' = "next"
  /\ IF events_since_snapshot + 1 < SnapshotInterval
     THEN /\ events_since_snapshot' = events_since_snapshot + 1
          /\ UNCHANGED <<snapshots, stream>>
     ELSE events_since_snapshot' = 0 /\ Save /\ stream' = {}
  /\ UNCHANGED <<history, gateway, up, applied, last_id, batch,
                 published, replied, executed, crashes>>

\* The entry is counted and, when the interval is full, a snapshot saved;
\* the count starts afresh even when that fails.
Count ==
  /\ up = "live" /\ pc = "count"
  /\ pc' = "next"
  /\ IF events_since_snapshot + 1 < SnapshotInterval
     THEN /\ events_since_snapshot' = events_since_snapshot + 1
          /\ UNCHANGED snapshots
     ELSE events_since_snapshot' = 0 /\ Save
  /\ UNCHANGED <<history, stream, gateway, up, applied, last_id, batch,
                 published, replied, executed, crashes>>

\* After the reply to a reset: the snapshots are truncated, then both streams
\* are deleted; errors of either are ignored.
Truncate ==
  /\ up = "live" /\ pc = "truncate"
  /\ \/ snapshots' = <<>>
     \/ "truncate" \in Faults /\ snapshots' = snapshots
  /\ pc' = "del"
  /\ UNCHANGED <<history, stream, gateway, up, applied, last_id, batch,
                 events_since_snapshot, published, replied, executed, crashes>>

Del ==
  /\ up = "live" /\ pc = "del"
  /\ \/ stream' = {}
     \/ "del" \in Faults /\ stream' = stream
  /\ last_id' = 0
  /\ events_since_snapshot' = 0
  /\ pc' = "next"
  /\ UNCHANGED <<history, snapshots, gateway, up, applied, batch, published,
                 replied, executed, crashes>>

-----------------------------------------------------------------------------
\* The end of the process.

Stop ==
  /\ crashes < MaxCrashes
  /\ crashes' = crashes + 1
  /\ up' = "down"
  /\ applied' = <<>>
  /\ last_id' = 0
  /\ batch' = {}
  /\ pc' = "next"
  /\ events_since_snapshot' = 0
  /\ UNCHANGED <<history, stream, gateway, published, replied, executed>>

\* A crash, anywhere: a kill, or the unwrap of a failed reply.
Crash == up # "down" /\ Stop /\ UNCHANGED snapshots

\* The shutdown signal is looked at only while waiting for entries; the loop
\* is left without a further snapshot.
Shutdown == up = "live" /\ pc = "next" /\ batch = {} /\ Stop /\ UNCHANGED snapshots

Next ==
  \/ \E kind \in Kinds \ {"reset"} : Send(kind)
  \/ ResetDeletesRows \/ ResetSends
  \/ Load \/ Xrange \/ GoLive
  \/ \E p \in batch : ReplayRecord(p) \/ Dispatch(p)
  \/ Xread \/ XreadTimeout \/ Reply \/ Count \/ Truncate \/ Del
  \/ Crash \/ Shutdown

Spec == Init /\ [][Next]_vars

\* The process keeps running and is started again when it ended.
FairSpec ==
  /\ Spec
  /\ WF_vars(Load) /\ WF_vars(Xrange) /\ WF_vars(GoLive)
  /\ WF_vars(\E p \in batch : ReplayRecord(p) \/ Dispatch(p))
  /\ WF_vars(Xread) /\ WF_vars(Reply) /\ WF_vars(Count)
  /\ WF_vars(Truncate) /\ WF_vars(Del)
-----------------------------------------------------------------------------
\* Properties.

\* Every variable has its type.
TypeOK ==
  /\ history \in Seq(Kinds)
  /\ stream \subseteq Positions
  /\ snapshots \in Seq([last_id : Nat, applied : Seq(Nat)])
  /\ gateway \in {"idle", "resetting"}
  /\ up \in {"down", "loaded", "replaying", "live"}
  /\ applied \in Seq(Nat)
  /\ last_id \in Nat
  /\ batch \subseteq Positions
  /\ pc \in {"next", "reply", "count", "truncate", "del"}
  /\ events_since_snapshot \in 0..(SnapshotInterval - 1)
  /\ replied \subseteq executed
  /\ executed \subseteq Positions

\* No command counts twice in a state, and all count in the order of the log.
InOrder(state) == \A i, j \in 1..Len(state) : i < j => state[i] < state[j]

\* Whatever fails and wherever the engine crashes, the state it holds, and
\* each one it would recover from, has every command at most once and in the
\* order of the log: snapshot and replay neither overlap nor cross (engine.rs,
\* replay_events_since from the snapshot's last_stream_id, exclusive).
AppliedInOrder ==
  /\ InOrder(applied)
  /\ \A k \in 1..Len(snapshots) : InOrder(snapshots[k].applied)

\* state is what the log up to the position id makes of an empty engine: all
\* commands since the last reset.
IsStateAt(state, id) ==
  /\ InOrder(state)
  /\ {state[i] : i \in 1..Len(state)} =
       {p \in 1..id : /\ history[p] = "command"
                      /\ \A q \in (p + 1)..id : history[q] # "reset"}

\* The engine's state is at all times the one the log makes up to last_id, in
\* replay, in live mode and after any crash: nothing skipped, nothing twice.
StateIsLog == IsStateAt(applied, last_id)

\* So is each saved snapshot, at the position it is saved with.
SnapshotsFaithful ==
  \A k \in 1..Len(snapshots) : IsStateAt(snapshots[k].applied, snapshots[k].last_id)

\* A command that was answered survives every crash, unless a later reset was
\* executed: once the engine is live again its state has it.
AckedSurvive ==
  up = "live" =>
    \A p \in replied :
      \/ history[p] = "reset"
      \/ \E q \in executed : q > p /\ history[q] = "reset"
      \/ \E i \in 1..Len(applied) : applied[i] = p

\* The log loses no command before the engine has executed it ("zero data loss",
\* ARCHITECTURE.md 202; engine.rs 246-252).  Does not hold: a reset is
\* answered before DEL, and a command sent on that answer is erased.
NothingErasedUnread ==
  \A p \in Positions : Inert(p) \/ p \in stream \cup executed

\* What holds of the code as it is, whatever fails, wherever it crashes and
\* whatever clients send meanwhile: the log loses a command unread only while
\* the engine stands at a reset that it has executed, and only one that was
\* appended behind that reset (engine.rs 246-252).  Everything before the reset
\* was executed, also when a snapshot, a replay or an earlier DEL came between.
ErasedBehindReset ==
  [][\A p \in stream \ stream' :
       \/ Inert(p)
       \/ p \in executed
       \/ /\ last_id \in executed
          /\ history[last_id] = "reset"
          /\ last_id < p]_vars

\* The execution events of a command are sent at most once, so the ledger
\* books no trade twice: what was published before a crash is executed again
\* only in replay.
PublishedOnce == \A p \in Positions : published[p] <= 1

\* Every request in the log is eventually executed.
LoggedIsExecuted ==
  \A p \in 1..MaxEntries :
    (p \in Positions /\ ~Inert(p)) ~> p \in executed

\* The replies that replay leaves out are duplicates (engine.rs 35): when the
\* engine is live, every request executed so far has been answered.  Does not
\* hold: a request that arrived while the engine was down, or that a crash
\* interrupted, is executed by replay only, and never answered.
ReplaySuppressesDuplicatesOnly ==
  up = "live" /\ pc = "next" => executed \subseteq replied
=============================================================================
