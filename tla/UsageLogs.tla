------------------------------ MODULE UsageLogs ------------------------------
(***************************************************************************)
(* The usage-log pipeline (src/src/state.rs): requests append logs to an   *)
(* in-memory queue, one flusher at a time copies the queue, writes the     *)
(* copy to durable storage, adds it to the in-memory view and drains it    *)
(* from the queue.  A compare-and-swap flag elects the flusher: a spawned  *)
(* task, or an admin who lists the logs.  Snapshots read the queue and the *)
(* view under separate locks.                                              *)
(*                                                                         *)
(* Logs are numbered in the order of their timestamps.                     *)
(***************************************************************************)
EXTENDS Integers, Sequences, FiniteSets

CONSTANTS
    Logs,       \* numbers of the usage logs, from 1
    Admins,     \* admins that list the logs
    Backend,    \* "file" or "postgres"
    MaxFiles,   \* usage_log_archive_max_files
    MaxErrors,  \* bound: I/O errors in a behaviour
    MaxCrashes, \* bound: restarts in a behaviour
    MaxPrunes   \* bound: retention runs in a behaviour

ASSUME UsageLogsAssumption ==
    /\ Logs \subseteq Nat \ {0}
    /\ IsFiniteSet(Logs)
    /\ Logs \cap Admins = {}
    /\ Backend \in {"file", "postgres"}
    /\ MaxFiles \in Nat \ {0}
    /\ {MaxErrors, MaxCrashes, MaxPrunes} \subseteq Nat

(* The flusher task that appending log l spawned has the number of l.       *)
Workers == Logs \cup Admins

VARIABLES
    status,   \* of each log: "new", "pushed", "appended" or "lost" in a crash
    pending,  \* pending_usage_logs
    running,  \* usage_log_flush_running
    pc,       \* where each flusher is
    batch,    \* the copy each flusher works on
    files,    \* the logs of each archive file, oldest first (one file for postgres)
    view,     \* archived_usage_logs, or usage_logs of the state for postgres
    stored,   \* every log that was ever written to durable storage
    dropped,  \* every log the archive limit or the retention removed
    reader,   \* a snapshot in progress
    prune,    \* prune_expired_usage_logs in progress: its cutoff, or 0
    errors, crashes, prunes

vars == <<status, pending, running, pc, batch, files, view, stored, dropped, reader,
          prune, errors, crashes, prunes>>

LogsIn(s) == {s[i] : i \in DOMAIN s}
Archived == UNION {files[i] : i \in DOMAIN files}

Idle == [at |-> "idle", must |-> {}, seen |-> {}]

Init ==
    /\ status = [l \in Logs |-> "new"]
    /\ pending = <<>>
    /\ running = FALSE
    /\ pc = [w \in Workers |-> "off"]
    /\ batch = [w \in Workers |-> <<>>]
    /\ files = <<>>
    /\ view = {}
    /\ stored = {}
    /\ dropped = {}
    /\ reader = Idle
    /\ prune = 0
    /\ errors = 0 /\ crashes = 0 /\ prunes = 0

bounds == <<errors, crashes, prunes>>
store == <<files, view, stored, dropped>>

-----------------------------------------------------------------------------
(* append_usage_log: push, then elect a flusher if none runs.               *)

Push(l) ==
    /\ status[l] = "new"
    /\ \A k \in Logs : k < l => status[k] # "new"
    /\ pending' = Append(pending, l)
    /\ status' = [status EXCEPT ![l] = "pushed"]
    /\ UNCHANGED <<running, pc, batch, store, reader, prune, bounds>>

Elected == ~running

Schedule(l) ==
    /\ status[l] = "pushed"
    /\ status' = [status EXCEPT ![l] = "appended"]
    /\ running' = TRUE
    /\ pc' = IF Elected THEN [pc EXCEPT ![l] = "sleep"] ELSE pc
    /\ UNCHANGED <<pending, batch, store, reader, prune, bounds>>

-----------------------------------------------------------------------------
(* flush_pending_usage_logs_now, by the task or by an admin.                *)

Moves(w, from, to) == pc[w] = from /\ pc' = [pc EXCEPT ![w] = to]

Wake(w) ==
    /\ Moves(w, "sleep", "copy")
    /\ UNCHANGED <<status, pending, running, batch, store, reader, prune, bounds>>

AfterCopy == IF pending = <<>> THEN "flushed" ELSE "write"

Copy(w) ==
    /\ Moves(w, "copy", AfterCopy)
    /\ batch' = [batch EXCEPT ![w] = pending]
    /\ UNCHANGED <<status, pending, running, store, reader, prune, bounds>>

(* append_usage_logs: a new archive file, or rows that ignore conflicts.    *)
WithBatch(s) ==
    IF Backend = "file" \/ files = <<>> THEN Append(files, LogsIn(s))
    ELSE <<files[1] \cup LogsIn(s)>>

Write(w) ==
    /\ Moves(w, "write", "view")
    /\ files' = WithBatch(batch[w])
    /\ stored' = stored \cup LogsIn(batch[w])
    /\ UNCHANGED <<status, pending, running, batch, view, dropped, reader, prune, bounds>>

ShowBatch(w) ==
    /\ Moves(w, "view", IF Backend = "file" THEN "enforce" ELSE "drain")
    /\ view' = view \cup LogsIn(batch[w])
    /\ UNCHANGED <<status, pending, running, batch, files, stored, dropped, reader, prune, bounds>>

(* enforce_usage_log_archive_limit.                                         *)
Surplus == IF Len(files) > MaxFiles THEN Len(files) - MaxFiles ELSE 0
RemovedWith(k) == UNION {files[i] : i \in 1 .. k}

Enforce(w) ==
    /\ Moves(w, "enforce", "drain")
    /\ files' = SubSeq(files, Surplus + 1, Len(files))
    /\ view' = view \ RemovedWith(Surplus)
    /\ dropped' = dropped \cup RemovedWith(Surplus)
    /\ UNCHANGED <<status, pending, running, batch, stored, reader, prune, bounds>>

(* Drains that forget the logs pushed since the copy.                       *)
DrainedAll(s) == <<>>
Drained(s) ==
    LET n == IF Len(s) < Len(pending) THEN Len(s) ELSE Len(pending)
    IN  SubSeq(pending, n + 1, Len(pending))

Drain(w) ==
    /\ Moves(w, "drain", "copy")
    /\ pending' = Drained(batch[w])
    /\ batch' = [batch EXCEPT ![w] = <<>>]
    /\ UNCHANGED <<status, running, store, reader, prune, bounds>>

(* The write, or the clean-up of old files after k of them, fails.  The     *)
(* task retries after a pause; the admin gives up and clears the flag.      *)
Failed(w) ==
    /\ errors < MaxErrors
    /\ errors' = errors + 1
    /\ batch' = [batch EXCEPT ![w] = <<>>]
    /\ pc' = [pc EXCEPT ![w] = IF w \in Admins THEN "flushed" ELSE "sleep"]

WriteFails(w) ==
    /\ pc[w] = "write"
    /\ Failed(w)
    /\ UNCHANGED <<status, pending, running, store, reader, prune, crashes, prunes>>

EnforceFails(w, k) ==
    /\ pc[w] = "enforce" /\ k \in 0 .. Surplus
    /\ Failed(w)
    /\ files' = SubSeq(files, k + 1, Len(files))
    /\ dropped' = dropped \cup RemovedWith(k)
    /\ UNCHANGED <<status, pending, running, view, stored, reader, prune, crashes, prunes>>

Flush(w) ==
    \/ Wake(w) \/ Copy(w) \/ Write(w) \/ ShowBatch(w) \/ Enforce(w) \/ Drain(w)

Faults(w) == WriteFails(w) \/ \E k \in 0 .. Surplus : EnforceFails(w, k)

-----------------------------------------------------------------------------
(* The end of a flush: the task looks at the queue once before and once     *)
(* after it clears the flag.                                                *)

TaskChecks(w) ==
    /\ w \in Logs
    /\ Moves(w, "flushed", IF pending = <<>> THEN "release" ELSE "sleep")
    /\ UNCHANGED <<status, pending, running, batch, store, reader, prune, bounds>>

(* A task that trusts its first look.                                       *)
AfterReleaseTrusting == "off"
AfterRelease == "recheck"

TaskReleases(w) ==
    /\ Moves(w, "release", AfterRelease)
    /\ running' = FALSE
    /\ UNCHANGED <<status, pending, batch, store, reader, prune, bounds>>

TaskRechecks(w) ==
    /\ Moves(w, "recheck", IF pending = <<>> THEN "off" ELSE "again")
    /\ UNCHANGED <<status, pending, running, batch, store, reader, prune, bounds>>

TaskRestarts(w) ==
    /\ Moves(w, "again", IF running THEN "off" ELSE "sleep")
    /\ running' = TRUE
    /\ UNCHANGED <<status, pending, batch, store, reader, prune, bounds>>

TaskEnds(w) == TaskChecks(w) \/ TaskReleases(w) \/ TaskRechecks(w) \/ TaskRestarts(w)

(* flush_usage_logs_for_test, which admin_list_logs calls: it waits for the *)
(* flag, flushes and clears the flag.  The handler's future is dropped when *)
(* the client hangs up.                                                     *)
AdminFlushes(w) ==
    /\ w \in Admins /\ ~running
    /\ Moves(w, "off", "copy")
    /\ running' = TRUE
    /\ UNCHANGED <<status, pending, batch, store, reader, prune, bounds>>

AdminReleases(w) ==
    /\ w \in Admins
    /\ Moves(w, "flushed", "done")
    /\ running' = FALSE
    /\ UNCHANGED <<status, pending, batch, store, reader, prune, bounds>>

AdminHangsUp(w) ==
    /\ w \in Admins /\ pc[w] \in {"copy", "write", "view", "enforce", "drain"}
    /\ pc' = [pc EXCEPT ![w] = "done"]
    /\ batch' = [batch EXCEPT ![w] = <<>>]
    /\ UNCHANGED <<status, pending, running, store, reader, prune, bounds>>

AdminStep(w) == AdminFlushes(w) \/ AdminReleases(w) \/ AdminHangsUp(w)

-----------------------------------------------------------------------------
(* snapshot(): the state with its own logs first, then the queue, then the  *)
(* archived view.  The logs flushed to postgres are in the state.           *)

(* A snapshot that would read the view before the queue.                    *)
ViewFirst == TRUE
StateHoldsView == Backend = "postgres"

SnapshotBegins ==
    /\ reader.at = "idle"
    /\ reader' = [at   |-> "queue",
                  must |-> {l \in Logs : status[l] \in {"pushed", "appended"}},
                  seen |-> IF StateHoldsView THEN view ELSE {}]
    /\ UNCHANGED <<status, pending, running, pc, batch, store, prune, bounds>>

SnapshotReadsQueue ==
    /\ reader.at = "queue"
    /\ reader' = [reader EXCEPT !.at = "view", !.seen = @ \cup LogsIn(pending)]
    /\ UNCHANGED <<status, pending, running, pc, batch, store, prune, bounds>>

SnapshotReadsView ==
    /\ reader.at = "view"
    /\ reader' = [reader EXCEPT !.at = "complete",
                                !.seen = IF StateHoldsView THEN @ ELSE @ \cup view]
    /\ UNCHANGED <<status, pending, running, pc, batch, store, prune, bounds>>

SnapshotEnds ==
    /\ reader.at = "complete"
    /\ reader' = Idle
    /\ UNCHANGED <<status, pending, running, pc, batch, store, prune, bounds>>

Snapshot == SnapshotBegins \/ SnapshotReadsQueue \/ SnapshotReadsView \/ SnapshotEnds

-----------------------------------------------------------------------------
(* prune_expired_usage_logs: durable storage first, then the view.          *)

Younger(cutoff) == [i \in DOMAIN files |-> {l \in files[i] : l >= cutoff}]

(* The files that still hold a log, in their order; the others are deleted. *)
NonEmpty(fs) ==
    LET stay == {i \in DOMAIN fs : fs[i] # {}}
        Place(n) == CHOOSE i \in stay : Cardinality({j \in stay : j <= i}) = n
    IN  [n \in 1 .. Cardinality(stay) |-> fs[Place(n)]]

PruneDurable(cutoff) ==
    /\ prune = 0 /\ prunes < MaxPrunes
    /\ prune' = cutoff /\ prunes' = prunes + 1
    /\ files' = NonEmpty(Younger(cutoff))
    /\ dropped' = dropped \cup {l \in Archived : l < cutoff}
    /\ UNCHANGED <<status, pending, running, pc, batch, view, stored, reader, errors, crashes>>

PruneView ==
    /\ prune # 0
    /\ prune' = 0
    /\ view' = {l \in view : l >= prune}
    /\ dropped' = dropped \cup {l \in view : l < prune}
    /\ UNCHANGED <<status, pending, running, pc, batch, files, stored, reader, bounds>>

-----------------------------------------------------------------------------
(* The process stops and starts again from durable storage; loading the     *)
(* file store ends with the archive limit.                                  *)
Restart ==
    /\ crashes < MaxCrashes
    /\ crashes' = crashes + 1
    /\ status' = [l \in Logs |->
                    IF status[l] # "new" /\ l \notin stored THEN "lost"
                    ELSE IF status[l] = "pushed" THEN "appended" ELSE status[l]]
    /\ pending' = <<>>
    /\ running' = FALSE
    /\ pc' = [w \in Workers |-> IF w \in Admins /\ pc[w] # "off" THEN "done" ELSE "off"]
    /\ batch' = [w \in Workers |-> <<>>]
    /\ files' = SubSeq(files, Surplus + 1, Len(files))
    /\ view' = Archived \ RemovedWith(Surplus)
    /\ dropped' = dropped \cup RemovedWith(Surplus)
    /\ reader' = Idle
    /\ prune' = 0
    /\ UNCHANGED <<stored, errors, prunes>>

Next ==
    \/ \E l \in Logs : Push(l) \/ Schedule(l)
    \/ \E w \in Workers : Flush(w) \/ Faults(w) \/ TaskEnds(w) \/ AdminStep(w)
    \/ Snapshot
    \/ \E cutoff \in Logs : PruneDurable(cutoff)
    \/ PruneView
    \/ Restart

Spec == Init /\ [][Next]_vars

(* The runtime polls every task that is ready, and a request that pushed    *)
(* its log goes on to schedule the flush without another await.             *)
Fairness ==
    /\ \A l \in Logs : WF_vars(Schedule(l))
    /\ \A w \in Workers : WF_vars(Flush(w) \/ TaskEnds(w) \/ AdminReleases(w))

FairSpec == Spec /\ Fairness

-----------------------------------------------------------------------------
(* Properties.                                                              *)

Owners == {"sleep", "copy", "write", "view", "enforce", "drain", "flushed", "release"}
Flushing == {"write", "view", "enforce", "drain"}

(* The type of the state: queue, copies, files, view and snapshot hold logs. *)
TypeOK ==
    /\ status \in [Logs -> {"new", "pushed", "appended", "lost"}]
    /\ pending \in Seq(Logs)
    /\ running \in BOOLEAN
    /\ pc \in [Workers -> Owners \cup {"off", "recheck", "again", "done"}]
    /\ batch \in [Workers -> Seq(Logs)]
    /\ files \in Seq(SUBSET Logs \ {{}})
    /\ view \subseteq Logs /\ stored \subseteq Logs /\ dropped \subseteq Logs
    /\ reader \in [at : {"idle", "queue", "view", "complete"},
                   must : SUBSET Logs, seen : SUBSET Logs]
    /\ prune \in Logs \cup {0}
    /\ errors \in 0 .. MaxErrors /\ crashes \in 0 .. MaxCrashes /\ prunes \in 0 .. MaxPrunes

(* One flusher at a time: whoever is between winning the flag and clearing  *)
(* it is alone.                                                             *)
FlushExclusive ==
    \A v, w \in Workers : pc[v] \in Owners /\ pc[w] \in Owners => v = w /\ running

(* What is drained is what was written: the copy is still the head of the   *)
(* queue when drain(..n) cuts n logs off it.                                *)
BatchIsHead ==
    \A w \in Workers : pc[w] \in Flushing =>
        /\ Len(batch[w]) <= Len(pending)
        /\ batch[w] = SubSeq(pending, 1, Len(batch[w]))

(* A log leaves the queue only for durable storage, whatever fails.         *)
NoLogLost ==
    \A l \in Logs : status[l] \in {"pushed", "appended"} => l \in LogsIn(pending) \cup stored

(* The queue of usage logs: one flusher at a time, which removes exactly    *)
(* what it wrote, so no appended log is lost before a restart.              *)
PipelineKept == FlushExclusive /\ BatchIsHead /\ NoLogLost

(* "Keep the batch visible to snapshots until durable storage and the       *)
(* archived in-memory view both contain it": a snapshot has every log       *)
(* appended before it began, except those removed by limit or retention.    *)
SnapshotComplete ==
    reader.at = "complete" => reader.must \subseteq reader.seen \cup dropped

(* The in-memory view shows every log that has left the queue and is still  *)
(* in an archive file.                                                      *)
ArchivedVisible == Archived \subseteq view \cup LogsIn(pending)

(* "usage logs durable across restarts": every appended log reaches durable *)
(* storage unless the process stops first.                                  *)
EventuallyStored ==
    \A l \in Logs : status[l] = "pushed" ~> l \in stored \/ status[l] = "lost"

=============================================================================
