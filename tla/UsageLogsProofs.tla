--------------------------- MODULE UsageLogsProofs ---------------------------
(***************************************************************************)
(* Proofs about UsageLogs, for every set of logs and admins and every      *)
(* number of I/O errors, restarts and retention runs: one flusher at a     *)
(* time, what it drains is what it wrote, and no log leaves the queue      *)
(* before it is durable; and, on the file store, snapshots are complete.   *)
(***************************************************************************)
EXTENDS UsageLogs, FiniteSetTheorems, SequenceTheorems, TLAPS

QueueType ==
    /\ status \in [Logs -> {"new", "pushed", "appended", "lost"}]
    /\ pending \in Seq(Logs)
    /\ running \in BOOLEAN
    /\ pc \in [Workers -> Owners \cup {"off", "recheck", "again", "done"}]
    /\ batch \in [Workers -> Seq(Logs)]
    /\ stored \subseteq Logs

(* What was written is durable from then on.                                *)
Written == \A w \in Workers : pc[w] \in {"view", "enforce", "drain"} => LogsIn(batch[w]) \subseteq stored

QInv == QueueType /\ FlushExclusive /\ BatchIsHead /\ Written /\ NoLogLost

-----------------------------------------------------------------------------
(* Sequences of logs.                                                       *)

LEMMA AppendedLogs ==
    ASSUME NEW s \in Seq(Logs), NEW l \in Logs
    PROVE  /\ Append(s, l) \in Seq(Logs)
           /\ Len(Append(s, l)) = Len(s) + 1
           /\ \A i \in 1 .. Len(s) : Append(s, l)[i] = s[i]
           /\ LogsIn(Append(s, l)) = LogsIn(s) \cup {l}
<1> DEFINE a == Append(s, l)
<1>1. a \in Seq(Logs) /\ Len(a) = Len(s) + 1 /\ Len(s) \in Nat
  OBVIOUS
<1>2. (\A i \in 1 .. Len(s) : a[i] = s[i]) /\ a[Len(s) + 1] = l
  OBVIOUS
<1>3. DOMAIN a = 1 .. Len(s) + 1 /\ DOMAIN s = 1 .. Len(s)
  BY <1>1
<1> HIDE DEF a
<1>4. LogsIn(a) \subseteq LogsIn(s) \cup {l}
  <2> SUFFICES ASSUME NEW i \in 1 .. Len(s) + 1 PROVE a[i] \in LogsIn(s) \cup {l}
    BY <1>3 DEF LogsIn
  <2>1. CASE i <= Len(s)
    BY <1>1, <1>2, <1>3, <2>1 DEF LogsIn
  <2>2. CASE i = Len(s) + 1
    BY <1>2, <2>2
  <2> QED BY <1>1, <2>1, <2>2
<1>5. l \in LogsIn(a)
  BY <1>1, <1>2, <1>3 DEF LogsIn
<1>6. LogsIn(s) \subseteq LogsIn(a)
  <2> SUFFICES ASSUME NEW i \in 1 .. Len(s) PROVE s[i] \in LogsIn(a)
    BY <1>3 DEF LogsIn
  <2>1. i \in DOMAIN a /\ a[i] = s[i]
    BY <1>1, <1>2, <1>3
  <2> QED BY <2>1 DEF LogsIn
<1> QED BY <1>1, <1>2, <1>4, <1>5, <1>6 DEF a

(* The head of a queue stays its head when a log is appended.               *)
LEMMA HeadStays ==
    ASSUME NEW s \in Seq(Logs), NEW l \in Logs, NEW b \in Seq(Logs),
           Len(b) <= Len(s), b = SubSeq(s, 1, Len(b))
    PROVE  Len(b) <= Len(Append(s, l)) /\ b = SubSeq(Append(s, l), 1, Len(b))
<1>1. \A i \in 1 .. Len(b) : b[i] = Append(s, l)[i]
  BY AppendedLogs
<1>2. SubSeq(Append(s, l), 1, Len(b)) \in Seq(Logs)
  BY AppendedLogs
<1>3. Len(SubSeq(Append(s, l), 1, Len(b))) = Len(b)
  BY AppendedLogs
<1>4. \A i \in 1 .. Len(b) : SubSeq(Append(s, l), 1, Len(b))[i] = b[i]
  BY <1>1, AppendedLogs
<1> QED BY <1>2, <1>3, <1>4, AppendedLogs

(* Cutting a head off a queue leaves the rest.                              *)
LEMMA CutHead ==
    ASSUME NEW s \in Seq(Logs), NEW b \in Seq(Logs),
           Len(b) <= Len(s), b = SubSeq(s, 1, Len(b))
    PROVE  /\ SubSeq(s, Len(b) + 1, Len(s)) \in Seq(Logs)
           /\ LogsIn(s) \subseteq LogsIn(b) \cup LogsIn(SubSeq(s, Len(b) + 1, Len(s)))
<1> DEFINE r == SubSeq(s, Len(b) + 1, Len(s))
<1>1. r \in Seq(Logs) /\ Len(r) = Len(s) - Len(b)
  OBVIOUS
<1>2. \A j \in 1 .. Len(r) : r[j] = s[Len(b) + j]
  OBVIOUS
<1>3. ASSUME NEW i \in 1 .. Len(s)
      PROVE  s[i] \in LogsIn(b) \cup LogsIn(r)
  <2>1. CASE i <= Len(b)
    <3>1. i \in DOMAIN b /\ b[i] = s[i]
      BY <2>1
    <3> QED BY <3>1 DEF LogsIn
  <2>2. CASE i > Len(b)
    <3>1. i - Len(b) \in 1 .. Len(r)
      BY <1>1, <2>2
    <3>2. r[i - Len(b)] = s[i]
      BY <1>2, <3>1, <2>2
    <3>3. i - Len(b) \in DOMAIN r
      BY <1>1, <3>1
    <3> HIDE DEF r
    <3> QED BY <3>2, <3>3 DEF LogsIn
  <2> QED BY <2>1, <2>2
<1>4. LogsIn(s) \subseteq LogsIn(b) \cup LogsIn(r)
  <2> HIDE DEF r
  <2> SUFFICES ASSUME NEW x \in LogsIn(s) PROVE x \in LogsIn(b) \cup LogsIn(r)
    OBVIOUS
  <2>1. PICK i \in DOMAIN s : x = s[i]
    BY DEF LogsIn
  <2>2. i \in 1 .. Len(s)
    OBVIOUS
  <2> QED BY <2>1, <2>2, <1>3
<1> QED BY <1>1, <1>4

-----------------------------------------------------------------------------
(* Each step keeps the invariant.                                           *)

(* Whoever holds the flag is alone, so a flusher that goes on leaves every  *)
(* other one outside.                                                       *)
LEMMA OthersOutside ==
    ASSUME QInv, NEW w \in Workers, pc[w] \in Owners
    PROVE  running /\ \A v \in Workers : v # w => pc[v] \notin Owners
BY DEF QInv, FlushExclusive

LEMMA PushKeeps == ASSUME QInv, NEW l \in Logs, Push(l) PROVE QInv'
<1>1. /\ pending' = Append(pending, l) /\ status' = [status EXCEPT ![l] = "pushed"]
      /\ UNCHANGED <<running, pc, batch, stored>>
  BY DEF Push, store
<1>2. QueueType'
  BY <1>1, AppendedLogs DEF QInv, QueueType
<1>3. FlushExclusive' /\ Written'
  BY <1>1 DEF QInv, FlushExclusive, Written
<1>4. BatchIsHead'
  <2> SUFFICES ASSUME NEW w \in Workers, pc[w] \in Flushing
               PROVE  /\ Len(batch[w]) <= Len(Append(pending, l))
                      /\ batch[w] = SubSeq(Append(pending, l), 1, Len(batch[w]))
    BY <1>1 DEF BatchIsHead
  <2>1. pending \in Seq(Logs) /\ batch[w] \in Seq(Logs)
    BY DEF QInv, QueueType
  <2>2. Len(batch[w]) <= Len(pending) /\ batch[w] = SubSeq(pending, 1, Len(batch[w]))
    BY DEF QInv, BatchIsHead
  <2> HIDE DEF QInv
  <2> QED BY <2>1, <2>2, HeadStays
<1>5. NoLogLost'
  <2>1. LogsIn(pending') = LogsIn(pending) \cup {l}
    BY <1>1, AppendedLogs DEF QInv, QueueType
  <2>2. \A k \in Logs : k # l => status'[k] = status[k]
    BY <1>1 DEF QInv, QueueType
  <2>3. LogsIn(pending)' = LogsIn(pending') /\ stored' = stored
    BY <1>1 DEF LogsIn
  <2> QED BY <2>1, <2>2, <2>3 DEF QInv, NoLogLost
<1> QED BY <1>2, <1>3, <1>4, <1>5 DEF QInv

LEMMA ScheduleKeeps == ASSUME QInv, NEW l \in Logs, Schedule(l) PROVE QInv'
<1>1. /\ status[l] = "pushed" /\ status' = [status EXCEPT ![l] = "appended"] /\ running' = TRUE
      /\ pc' = IF ~running THEN [pc EXCEPT ![l] = "sleep"] ELSE pc
      /\ UNCHANGED <<pending, batch, stored>>
  BY DEF Schedule, store, Elected
<1>2. l \in Workers
  BY DEF Workers
<1>3. QueueType'
  BY <1>1, <1>2 DEF QInv, QueueType, Owners
<1>4. FlushExclusive'
  <2>1. CASE running
    BY <1>1, <2>1 DEF QInv, FlushExclusive
  <2>2. CASE ~running
    <3>1. \A w \in Workers : pc[w] \notin Owners
      BY <2>2 DEF QInv, FlushExclusive
    <3>2. \A w \in Workers : w # l => pc'[w] = pc[w]
      BY <1>1, <1>2, <2>2 DEF QInv, QueueType
    <3> QED BY <1>1, <3>1, <3>2 DEF FlushExclusive
  <2> QED BY <2>1, <2>2
<1>5. \A w \in Workers : pc'[w] \in Flushing \cup {"view"} => pc'[w] = pc[w]
  BY <1>1, <1>2 DEF QInv, QueueType, Flushing
<1>6. BatchIsHead' /\ Written'
  BY <1>1, <1>5 DEF QInv, BatchIsHead, Written, Flushing, LogsIn
<1>7. NoLogLost'
  BY <1>1 DEF QInv, QueueType, NoLogLost, LogsIn
<1> QED BY <1>3, <1>4, <1>6, <1>7 DEF QInv

(* A worker that moves on inside the flush, or leaves it.                   *)
LEMMA MoveKeepsOwner ==
    ASSUME QInv, NEW w \in Workers, pc[w] \in Owners, NEW to,
           pc' = [pc EXCEPT ![w] = to],
           running' = running \/ to \notin Owners
    PROVE  /\ FlushExclusive'
           /\ \A v \in Workers : v # w => pc'[v] = pc[v] /\ pc'[v] \notin Owners
<1>1. \A v \in Workers : v # w => pc'[v] = pc[v]
  BY DEF QInv, QueueType
<1>2. pc'[w] = to
  BY DEF QInv, QueueType
<1>3. running /\ \A v \in Workers : v # w => pc[v] \notin Owners
  BY OthersOutside
<1> QED BY <1>1, <1>2, <1>3 DEF FlushExclusive

(* What a step of the flusher w has to show.                                *)
Steps(w, to) ==
    /\ pc[w] \in Owners
    /\ pc' = [pc EXCEPT ![w] = to]
    /\ running' = running \/ to \notin Owners
    /\ status' = status
    /\ stored \subseteq stored'
    /\ LogsIn(pending) \subseteq LogsIn(pending') \cup stored'
    /\ to \in Flushing => /\ Len(batch'[w]) <= Len(pending')
                          /\ batch'[w] = SubSeq(pending', 1, Len(batch'[w]))
    /\ to \in {"view", "enforce", "drain"} => LogsIn(batch'[w]) \subseteq stored'

LEMMA StepKeeps ==
    ASSUME QInv, NEW w \in Workers, NEW to, QueueType', Steps(w, to)
    PROVE  QInv'
<1>1. /\ FlushExclusive'
      /\ \A v \in Workers : v # w => pc'[v] = pc[v] /\ pc'[v] \notin Owners
  BY MoveKeepsOwner DEF Steps
<1>2. pc'[w] = to
  BY DEF QInv, QueueType, Steps
<1>3. Flushing \subseteq Owners /\ {"view", "enforce", "drain"} \subseteq Owners
  BY DEF Flushing, Owners
<1>4. BatchIsHead'
  BY <1>1, <1>2, <1>3 DEF BatchIsHead, Steps
<1>5. Written'
  <2>1. \A v \in Workers : LogsIn(batch[v])' = LogsIn(batch'[v])
    BY DEF LogsIn
  <2> QED BY <1>1, <1>2, <1>3, <2>1 DEF Written, Steps
<1>6. NoLogLost'
  <2>1. LogsIn(pending)' = LogsIn(pending')
    BY DEF LogsIn
  <2> QED BY <2>1 DEF QInv, NoLogLost, Steps
<1> QED BY <1>1, <1>4, <1>5, <1>6 DEF QInv

LEMMA CopyKeeps == ASSUME QInv, NEW w \in Workers, Wake(w) \/ Copy(w) PROVE QInv'
<1>1. CASE Wake(w)
  <2>1. QueueType' /\ Steps(w, "copy")
    BY <1>1 DEF Wake, Moves, QInv, QueueType, Steps, Owners, Flushing, store
  <2> QED BY <2>1, StepKeeps
<1>2. CASE Copy(w)
  <2>1. /\ pc[w] = "copy" /\ pc' = [pc EXCEPT ![w] = AfterCopy]
        /\ batch' = [batch EXCEPT ![w] = pending]
        /\ UNCHANGED <<status, pending, running, stored>>
    BY <1>2 DEF Copy, Moves, store
  <2>2. AfterCopy \in {"flushed", "write"}
    BY DEF AfterCopy
  <2>3. QueueType'
    BY <2>1, <2>2 DEF QInv, QueueType, Owners
  <2>4. pending \in Seq(Logs) /\ batch'[w] = pending
    BY <2>1 DEF QInv, QueueType
  <2>5. Len(pending) <= Len(pending) /\ pending = SubSeq(pending, 1, Len(pending))
    BY <2>4
  <2>6. Steps(w, AfterCopy)
    BY <2>1, <2>2, <2>4, <2>5 DEF Steps, Owners
  <2> QED BY <2>3, <2>6, StepKeeps
<1> QED BY <1>1, <1>2

LEMMA WriteKeeps == ASSUME QInv, NEW w \in Workers, Write(w) \/ ShowBatch(w) \/ Enforce(w) PROVE QInv'
<1>0. pc[w] \in Flushing => /\ Len(batch[w]) <= Len(pending)
                            /\ batch[w] = SubSeq(pending, 1, Len(batch[w]))
  BY DEF QInv, BatchIsHead
<1>1. CASE Write(w)
  <2>1. /\ pc[w] = "write" /\ pc' = [pc EXCEPT ![w] = "view"]
        /\ stored' = stored \cup LogsIn(batch[w])
        /\ UNCHANGED <<status, pending, running, batch>>
    BY <1>1 DEF Write, Moves
  <2>2. LogsIn(batch[w]) \subseteq Logs
    BY DEF QInv, QueueType, LogsIn
  <2>3. QueueType'
    BY <2>1, <2>2 DEF QInv, QueueType, Owners
  <2>4. Steps(w, "view")
    BY <2>1, <1>0 DEF Steps, Owners, Flushing
  <2> QED BY <2>3, <2>4, StepKeeps
<1>2. CASE ShowBatch(w) \/ Enforce(w)
  <2>1. PICK to \in {"enforce", "drain"} : pc' = [pc EXCEPT ![w] = to]
    BY <1>2 DEF ShowBatch, Enforce, Moves
  <2>2. /\ pc[w] \in {"view", "enforce"}
        /\ UNCHANGED <<status, pending, running, batch, stored>>
    BY <1>2 DEF ShowBatch, Enforce, Moves
  <2>3. QueueType'
    BY <2>1, <2>2 DEF QInv, QueueType, Owners
  <2>4. LogsIn(batch[w]) \subseteq stored
    BY <2>2 DEF QInv, Written
  <2>5. Steps(w, to)
    BY <2>1, <2>2, <2>4, <1>0 DEF Steps, Owners, Flushing
  <2> QED BY <2>3, <2>5, StepKeeps
<1> QED BY <1>1, <1>2

LEMMA DrainKeeps == ASSUME QInv, NEW w \in Workers, Drain(w) PROVE QInv'
<1>1. /\ pc[w] = "drain" /\ pc' = [pc EXCEPT ![w] = "copy"]
      /\ pending' = Drained(batch[w])
      /\ batch' = [batch EXCEPT ![w] = <<>>]
      /\ UNCHANGED <<status, running, stored>>
  BY DEF Drain, Moves, store
<1>2. pending \in Seq(Logs) /\ batch[w] \in Seq(Logs)
  BY DEF QInv, QueueType
<1>3. /\ Len(batch[w]) <= Len(pending)
      /\ batch[w] = SubSeq(pending, 1, Len(batch[w]))
      /\ LogsIn(batch[w]) \subseteq stored
  BY <1>1 DEF QInv, BatchIsHead, Written, Flushing
<1>4. Drained(batch[w]) = SubSeq(pending, Len(batch[w]) + 1, Len(pending))
  <2>1. Len(batch[w]) \in Nat /\ Len(pending) \in Nat
    BY <1>2
  <2>2. (IF Len(batch[w]) < Len(pending) THEN Len(batch[w]) ELSE Len(pending)) = Len(batch[w])
    BY <1>3, <2>1
  <2> QED BY <2>2, Zenon DEF Drained
<1>5. /\ pending' \in Seq(Logs)
      /\ LogsIn(pending) \subseteq LogsIn(batch[w]) \cup LogsIn(pending')
  BY <1>1, <1>2, <1>3, <1>4, CutHead
<1>6. QueueType'
  <2>1. batch' \in [Workers -> Seq(Logs)]
    BY <1>1 DEF QInv, QueueType
  <2> QED BY <1>1, <1>5, <2>1 DEF QInv, QueueType, Owners
<1>7. Steps(w, "copy")
  BY <1>1, <1>3, <1>5 DEF Steps, Owners, Flushing
<1> QED BY <1>6, <1>7, StepKeeps

LEMMA FaultKeeps == ASSUME QInv, NEW w \in Workers, Faults(w) PROVE QInv'
<1>1. PICK to \in {"flushed", "sleep"} : pc' = [pc EXCEPT ![w] = to]
  BY DEF Faults, WriteFails, EnforceFails, Failed
<1>2. /\ pc[w] \in {"write", "enforce"}
      /\ batch' = [batch EXCEPT ![w] = <<>>]
      /\ UNCHANGED <<status, pending, running, stored>>
  BY DEF Faults, WriteFails, EnforceFails, Failed, store
<1>3. QueueType'
  <2>1. batch' \in [Workers -> Seq(Logs)]
    BY <1>2 DEF QInv, QueueType
  <2> QED BY <1>1, <1>2, <2>1 DEF QInv, QueueType, Owners
<1>4. Steps(w, to)
  BY <1>1, <1>2 DEF Steps, Owners, Flushing
<1> QED BY <1>3, <1>4, StepKeeps

(* Winning the flag while nobody holds it.                                  *)
LEMMA Elects ==
    ASSUME QInv, NEW w \in Workers, pc[w] \in {"again", "off"}, NEW to,
           \/ running /\ to = "off"
           \/ ~running /\ to \in {"sleep", "copy"},
           pc' = [pc EXCEPT ![w] = to], running' = TRUE,
           UNCHANGED <<status, pending, batch, stored>>
    PROVE  QInv'
<1>1. QueueType'
  BY DEF QInv, QueueType, Owners
<1>2. \A v \in Workers : v # w => pc'[v] = pc[v]
  BY DEF QInv, QueueType
<1>3. pc'[w] = to
  BY DEF QInv, QueueType
<1>4. FlushExclusive'
  <2>1. CASE running
    BY <1>2, <1>3, <2>1 DEF QInv, FlushExclusive, Owners
  <2>2. CASE ~running
    <3>1. \A v \in Workers : pc[v] \notin Owners
      BY <2>2 DEF QInv, FlushExclusive
    <3> QED BY <1>2, <3>1 DEF FlushExclusive
  <2> QED BY <2>1, <2>2
<1>5. BatchIsHead' /\ Written'
  BY <1>2, <1>3 DEF QInv, BatchIsHead, Written, Flushing, LogsIn
<1>6. NoLogLost'
  BY DEF QInv, NoLogLost, LogsIn
<1> QED BY <1>1, <1>4, <1>5, <1>6 DEF QInv

(* The end of a task, and an admin's flush.                                 *)
LEMMA TaskKeeps == ASSUME QInv, NEW w \in Workers, TaskEnds(w) PROVE QInv'
<1>0. UNCHANGED <<status, pending, batch, stored>>
  BY DEF TaskEnds, TaskChecks, TaskReleases, TaskRechecks, TaskRestarts, store
<1>1. CASE TaskChecks(w)
  <2>1. PICK to \in {"release", "sleep"} : pc' = [pc EXCEPT ![w] = to]
    BY <1>1 DEF TaskChecks, Moves
  <2>2. pc[w] = "flushed" /\ running' = running
    BY <1>1 DEF TaskChecks, Moves
  <2>3. QueueType' /\ Steps(w, to)
    BY <1>0, <2>1, <2>2 DEF QInv, QueueType, Steps, Owners, Flushing
  <2> QED BY <2>3, StepKeeps
<1>2. CASE TaskReleases(w)
  <2>1. pc[w] = "release" /\ pc' = [pc EXCEPT ![w] = "recheck"] /\ running' = FALSE
    BY <1>2 DEF TaskReleases, Moves, AfterRelease
  <2>2. QueueType' /\ Steps(w, "recheck")
    BY <1>0, <2>1 DEF QInv, QueueType, Steps, Owners, Flushing
  <2> QED BY <2>2, StepKeeps
<1>3. CASE TaskRechecks(w)
  <2>1. PICK to \in {"off", "again"} : pc' = [pc EXCEPT ![w] = to]
    BY <1>3 DEF TaskRechecks, Moves
  <2>2. pc[w] = "recheck" /\ running' = running
    BY <1>3 DEF TaskRechecks, Moves
  <2>3. QueueType'
    BY <1>0, <2>1, <2>2 DEF QInv, QueueType
  <2>4. \A v \in Workers : pc'[v] \in Owners => pc'[v] = pc[v]
    BY <2>1, <2>2 DEF QInv, QueueType, Owners
  <2> QED BY <1>0, <2>2, <2>3, <2>4
          DEF QInv, FlushExclusive, BatchIsHead, Written, NoLogLost, Flushing, Owners, LogsIn
<1>4. CASE TaskRestarts(w)
  BY <1>0, <1>4, Elects DEF TaskRestarts, Moves
<1> QED BY <1>1, <1>2, <1>3, <1>4 DEF TaskEnds

LEMMA AdminKeeps == ASSUME QInv, NEW w \in Workers, AdminStep(w) PROVE QInv'
<1>1. CASE AdminFlushes(w)
  BY <1>1, Elects DEF AdminFlushes, Moves, store
<1>2. CASE AdminReleases(w)
  <2>1. /\ pc[w] = "flushed" /\ pc' = [pc EXCEPT ![w] = "done"] /\ running' = FALSE
        /\ UNCHANGED <<status, pending, batch, stored>>
    BY <1>2 DEF AdminReleases, Moves, store
  <2>2. QueueType' /\ Steps(w, "done")
    BY <2>1 DEF QInv, QueueType, Steps, Owners, Flushing
  <2> QED BY <2>2, StepKeeps
<1>3. CASE AdminHangsUp(w)
  <2>1. /\ pc[w] \in Owners /\ pc' = [pc EXCEPT ![w] = "done"]
        /\ batch' = [batch EXCEPT ![w] = <<>>]
        /\ UNCHANGED <<status, pending, running, stored>>
    BY <1>3 DEF AdminHangsUp, store, Owners
  <2>2. batch' \in [Workers -> Seq(Logs)]
    BY <2>1 DEF QInv, QueueType
  <2>3. QueueType' /\ Steps(w, "done")
    BY <2>1, <2>2 DEF QInv, QueueType, Steps, Owners, Flushing
  <2> QED BY <2>3, StepKeeps
<1> QED BY <1>1, <1>2, <1>3 DEF AdminStep

(* Steps that leave the queue and the flushers alone.                       *)
LEMMA AsideKeeps ==
    ASSUME QInv, UNCHANGED <<status, pending, running, pc, batch, stored>>
    PROVE  QInv'
BY DEF QInv, QueueType, FlushExclusive, BatchIsHead, Written, NoLogLost, LogsIn

(* A restart forgets the queue: what was not stored is lost with it.        *)
LEMMA RestartKeeps == ASSUME QInv, Restart PROVE QInv'
<1>1. /\ status' = [l \in Logs |->
                      IF status[l] # "new" /\ l \notin stored THEN "lost"
                      ELSE IF status[l] = "pushed" THEN "appended" ELSE status[l]]
      /\ pending' = <<>> /\ running' = FALSE
      /\ pc' = [w \in Workers |-> IF w \in Admins /\ pc[w] # "off" THEN "done" ELSE "off"]
      /\ batch' = [w \in Workers |-> <<>>]
      /\ stored' = stored
  BY DEF Restart
<1>2. QueueType'
  <2>1. status' \in [Logs -> {"new", "pushed", "appended", "lost"}]
    BY <1>1 DEF QInv, QueueType
  <2>2. pc' \in [Workers -> Owners \cup {"off", "recheck", "again", "done"}]
    BY <1>1
  <2>3. batch' \in [Workers -> Seq(Logs)] /\ pending' \in Seq(Logs)
    BY <1>1
  <2> QED BY <1>1, <2>1, <2>2, <2>3 DEF QInv, QueueType
<1>3. \A w \in Workers : pc'[w] \notin Owners
  BY <1>1 DEF Owners
<1>4. FlushExclusive' /\ BatchIsHead' /\ Written'
  BY <1>3 DEF FlushExclusive, BatchIsHead, Written, Owners, Flushing
<1>5. NoLogLost'
  <2> SUFFICES ASSUME NEW l \in Logs, status'[l] \in {"pushed", "appended"}
               PROVE  l \in stored'
    BY DEF NoLogLost
  <2> QED BY <1>1
<1> QED BY <1>2, <1>4, <1>5 DEF QInv

-----------------------------------------------------------------------------
(* The inductive invariant of the pipeline holds in every reachable state.  *)
THEOREM PipelineInvariant == Spec => []QInv
<1>1. Init => QInv
  <2> SUFFICES ASSUME Init PROVE QInv
    OBVIOUS
  <2>1. QueueType
    <3>1. pc \in [Workers -> Owners \cup {"off", "recheck", "again", "done"}]
      BY DEF Init
    <3>2. pending \in Seq(Logs) /\ batch \in [Workers -> Seq(Logs)]
      BY DEF Init
    <3>3. status \in [Logs -> {"new", "pushed", "appended", "lost"}] /\ stored \subseteq Logs
      BY DEF Init
    <3>4. running \in BOOLEAN
      BY DEF Init
    <3> QED BY <3>1, <3>2, <3>3, <3>4 DEF QueueType
  <2>2. FlushExclusive /\ BatchIsHead /\ Written
    BY DEF Init, FlushExclusive, BatchIsHead, Written, Owners, Flushing
  <2>3. NoLogLost
    BY DEF Init, NoLogLost
  <2> QED BY <2>1, <2>2, <2>3 DEF QInv
<1>2. QInv /\ [Next]_vars => QInv'
  <2> SUFFICES ASSUME QInv, [Next]_vars PROVE QInv'
    OBVIOUS
  <2>1. ASSUME NEW l \in Logs, Push(l) \/ Schedule(l) PROVE QInv'
    BY <2>1, PushKeeps, ScheduleKeeps
  <2>2. ASSUME NEW w \in Workers, Flush(w) PROVE QInv'
    BY <2>2, CopyKeeps, WriteKeeps, DrainKeeps DEF Flush
  <2>3. ASSUME NEW w \in Workers, Faults(w) \/ TaskEnds(w) \/ AdminStep(w) PROVE QInv'
    BY <2>3, FaultKeeps, TaskKeeps, AdminKeeps
  <2>4. CASE Snapshot
    BY <2>4, AsideKeeps
       DEF Snapshot, SnapshotBegins, SnapshotReadsQueue, SnapshotReadsView, SnapshotEnds, store
  <2>5. ASSUME NEW cutoff \in Logs, PruneDurable(cutoff) PROVE QInv'
    BY <2>5, AsideKeeps DEF PruneDurable
  <2>6. CASE PruneView
    BY <2>6, AsideKeeps DEF PruneView
  <2>7. CASE Restart
    BY <2>7, RestartKeeps
  <2>8. CASE UNCHANGED vars
    BY <2>8, AsideKeeps DEF vars
  <2> QED BY <2>1, <2>2, <2>3, <2>4, <2>5, <2>6, <2>7, <2>8 DEF Next
<1> QED BY <1>1, <1>2, PTL DEF Spec

(* At most one flusher works on the queue, and only under the flag, however *)
(* tasks, admins, hang-ups and I/O errors interleave.                       *)
THEOREM ExclusiveTheorem == Spec => []FlushExclusive
<1>1. QInv => FlushExclusive
  BY DEF QInv
<1> QED BY <1>1, PipelineInvariant, PTL

(* The copy a flusher wrote is still the head of the queue when it drains.  *)
THEOREM HeadTheorem == Spec => []BatchIsHead
<1>1. QInv => BatchIsHead
  BY DEF QInv
<1> QED BY <1>1, PipelineInvariant, PTL

(* An appended log is in the queue or was written to durable storage.       *)
THEOREM NoLossTheorem == Spec => []NoLogLost
<1>1. QInv => NoLogLost
  BY DEF QInv
<1> QED BY <1>1, PipelineInvariant, PTL

(* The whole promise of the queue: flush_pending_usage_logs_now runs alone, *)
(* removes what it wrote and loses nothing.                                 *)
THEOREM PipelineTheorem == Spec => []PipelineKept
BY ExclusiveTheorem, HeadTheorem, NoLossTheorem, PTL DEF PipelineKept

-----------------------------------------------------------------------------
(* Snapshots.  The files are numbered, and what is removed of them is       *)
(* counted as dropped.                                                      *)

UpTo(S, n) == {m \in S : m <= n}

(* The elements of a set of numbers are numbered by their ranks.            *)
LEMMA RanksNumber ==
    ASSUME NEW L \in Nat, NEW S \in SUBSET (1 .. L)
    PROVE  /\ Cardinality(S) \in Nat
           /\ \A n \in S : Cardinality(UpTo(S, n)) \in 1 .. Cardinality(S)
           /\ \A i, j \in S : Cardinality(UpTo(S, i)) = Cardinality(UpTo(S, j)) => i = j
           /\ \A i \in 1 .. Cardinality(S) : \E n \in S : Cardinality(UpTo(S, n)) = i
<1> DEFINE C == Cardinality(S)
           rank == [n \in S |-> Cardinality(UpTo(S, n))]
<1>1. IsFiniteSet(S) /\ C \in Nat
  <2>1. IsFiniteSet(1 .. L)
    BY FS_Interval
  <2>2. IsFiniteSet(S)
    BY <2>1, FS_Subset
  <2> QED BY <2>2, FS_CardinalityType
<1>2. ASSUME NEW n \in S
      PROVE  /\ IsFiniteSet(UpTo(S, n)) /\ Cardinality(UpTo(S, n)) \in 1 .. C /\ n \in UpTo(S, n)
  <2>1. UpTo(S, n) \in SUBSET S /\ n \in UpTo(S, n)
    BY DEF UpTo
  <2>2. IsFiniteSet(UpTo(S, n)) /\ Cardinality(UpTo(S, n)) \in Nat /\ Cardinality(UpTo(S, n)) <= C
    BY <1>1, <2>1, FS_Subset, FS_CardinalityType
  <2>3. Cardinality(UpTo(S, n)) # 0
    BY <2>1, <2>2, FS_EmptySet
  <2> QED BY <1>1, <2>1, <2>2, <2>3
<1>3. ASSUME NEW i \in S, NEW j \in S, i < j
      PROVE  Cardinality(UpTo(S, i)) # Cardinality(UpTo(S, j))
  <2>1. UpTo(S, i) \in SUBSET UpTo(S, j) /\ j \notin UpTo(S, i)
    <3>1. i \in Int /\ j \in Int /\ \A m \in S : m \in Int
      OBVIOUS
    <3>2. \A m \in S : m <= i => m <= j
      BY <1>3, <3>1
    <3>3. ~ (j <= i)
      BY <1>3, <3>1
    <3> QED BY <3>2, <3>3 DEF UpTo
  <2>2. j \in UpTo(S, j) /\ IsFiniteSet(UpTo(S, j))
    BY <1>2
  <2> QED BY <2>1, <2>2, FS_Subset
<1>4. \A i, j \in S : Cardinality(UpTo(S, i)) = Cardinality(UpTo(S, j)) => i = j
  <2> SUFFICES ASSUME NEW i \in S, NEW j \in S, i # j
               PROVE  Cardinality(UpTo(S, i)) # Cardinality(UpTo(S, j))
    OBVIOUS
  <2>1. i < j \/ j < i
    OBVIOUS
  <2> QED BY <2>1, <1>3
<1>5. rank \in Injection(S, 1 .. C)
  <2>1. rank \in [S -> 1 .. C]
    BY <1>2
  <2>2. \A i, j \in S : rank[i] = rank[j] => i = j
    BY <1>4
  <2> HIDE DEF rank
  <2> QED BY <2>1, <2>2 DEF Injection, IsInjective
<1>6. IsFiniteSet(1 .. C) /\ Cardinality(1 .. C) = C
  BY <1>1, FS_Interval
<1>7. rank \in Surjection(S, 1 .. C)
  <2> HIDE DEF rank
  <2> QED BY <1>5, <1>6, FS_Injection
<1>8. \A i \in 1 .. C : \E n \in S : Cardinality(UpTo(S, n)) = i
  BY <1>7 DEF Surjection
<1> QED BY <1>1, <1>2, <1>4, <1>8

FileSeqs == Seq(SUBSET Logs)
LogsOf(fs) == UNION {fs[i] : i \in DOMAIN fs}

(* Deleting the empty files removes no log.                                 *)
LEMMA NonEmptyHolds ==
    ASSUME NEW fs \in FileSeqs
    PROVE  NonEmpty(fs) \in FileSeqs /\ LogsOf(NonEmpty(fs)) = LogsOf(fs)
<1> DEFINE stay == {i \in DOMAIN fs : fs[i] # {}}
           Place(n) == CHOOSE i \in stay : Cardinality(UpTo(stay, i)) = n
           C == Cardinality(stay)
           N == NonEmpty(fs)
<1>1. Len(fs) \in Nat /\ DOMAIN fs = 1 .. Len(fs) /\ \A i \in DOMAIN fs : fs[i] \in SUBSET Logs
  BY DEF FileSeqs
<1>2. stay \in SUBSET (1 .. Len(fs)) /\ \A i \in DOMAIN fs : i \in stay \/ fs[i] = {}
  BY <1>1
<1>3. N = [n \in 1 .. C |-> fs[Place(n)]]
  BY DEF NonEmpty, UpTo
<1> HIDE DEF stay, N
<1>4. /\ C \in Nat
      /\ \A n \in stay : Cardinality(UpTo(stay, n)) \in 1 .. C
      /\ \A i, j \in stay : Cardinality(UpTo(stay, i)) = Cardinality(UpTo(stay, j)) => i = j
      /\ \A i \in 1 .. C : \E n \in stay : Cardinality(UpTo(stay, n)) = i
  BY <1>1, <1>2, RanksNumber
<1>5. \A n \in 1 .. C : Place(n) \in stay
  BY <1>4
<1>6. \A i \in stay : Place(Cardinality(UpTo(stay, i))) = i
  BY <1>4
<1> HIDE DEF Place, C
<1>7. N \in [1 .. C -> SUBSET Logs]
  BY <1>1, <1>2, <1>3, <1>5
<1>8. N \in FileSeqs /\ DOMAIN N = 1 .. C
  BY <1>4, <1>7 DEF FileSeqs
<1>9. LogsOf(N) \subseteq LogsOf(fs)
  <2>1. \A n \in 1 .. C : N[n] = fs[Place(n)] /\ Place(n) \in DOMAIN fs
    BY <1>1, <1>2, <1>3, <1>5
  <2> QED BY <2>1, <1>8 DEF LogsOf
<1>10. ASSUME NEW i \in DOMAIN fs PROVE fs[i] \subseteq LogsOf(N)
  <2>1. CASE i \in stay
    <3> DEFINE n == Cardinality(UpTo(stay, i))
    <3>1. n \in 1 .. C /\ Place(n) = i
      BY <2>1, <1>4, <1>6
    <3> HIDE DEF n
    <3>2. N[n] = fs[i] /\ n \in DOMAIN N
      BY <3>1, <1>3, <1>8
    <3> QED BY <3>2 DEF LogsOf
  <2> QED BY <2>1, <1>2
<1>11. LogsOf(fs) \subseteq LogsOf(N)
  BY <1>10 DEF LogsOf
<1> QED BY <1>8, <1>9, <1>11 DEF N

(* Deleting the oldest k files removes their logs at most.                  *)
LEMMA RestHolds ==
    ASSUME NEW fs \in FileSeqs, NEW k \in 0 .. Len(fs)
    PROVE  /\ SubSeq(fs, k + 1, Len(fs)) \in FileSeqs
           /\ LogsOf(fs) \subseteq LogsOf(SubSeq(fs, k + 1, Len(fs))) \cup UNION {fs[i] : i \in 1 .. k}
           /\ LogsOf(SubSeq(fs, k + 1, Len(fs))) \subseteq LogsOf(fs)
<1> DEFINE r == SubSeq(fs, k + 1, Len(fs))
<1>1. Len(fs) \in Nat /\ DOMAIN fs = 1 .. Len(fs) /\ \A i \in DOMAIN fs : fs[i] \in SUBSET Logs
  BY DEF FileSeqs
<1>2. \A i \in (k + 1) .. Len(fs) : fs[i] \in SUBSET Logs
  BY <1>1
<1>3. /\ r \in Seq(SUBSET Logs)
      /\ Len(r) = IF k + 1 <= Len(fs) THEN Len(fs) - (k + 1) + 1 ELSE 0
      /\ \A i \in 1 .. Len(fs) - (k + 1) + 1 : r[i] = fs[(k + 1) + i - 1]
  BY <1>1, <1>2, SubSeqProperties
<1> HIDE DEF r
<1>4. DOMAIN r = 1 .. (Len(fs) - k) /\ \A i \in 1 .. (Len(fs) - k) : r[i] = fs[k + i]
  <2>1. k \in Nat /\ k <= Len(fs) /\ Len(fs) - (k + 1) + 1 = Len(fs) - k
    BY <1>1
  <2>2. Len(r) = Len(fs) - k
    <3>1. CASE k + 1 <= Len(fs)
      BY <3>1, <1>1, <1>3, <2>1
    <3>2. CASE ~ (k + 1 <= Len(fs))
      <4>1. Len(fs) - k = 0
        BY <3>2, <1>1, <2>1
      <4> QED BY <3>2, <4>1, <1>3
    <3> QED BY <3>1, <3>2
  <2>3. DOMAIN r = 1 .. Len(r)
    BY <1>3
  <2>4. ASSUME NEW i \in 1 .. (Len(fs) - k) PROVE r[i] = fs[k + i]
    <3>1. (k + 1) + i - 1 = k + i /\ i \in 1 .. Len(fs) - (k + 1) + 1
      BY <2>1, <1>1
    <3> QED BY <3>1, <1>3
  <2> QED BY <2>2, <2>3, <2>4
<1>5. LogsOf(r) \subseteq LogsOf(fs)
  <2>1. \A i \in DOMAIN r : r[i] = fs[k + i] /\ k + i \in DOMAIN fs
    BY <1>1, <1>4
  <2> QED BY <2>1 DEF LogsOf
<1>6. ASSUME NEW i \in DOMAIN fs
      PROVE  fs[i] \subseteq LogsOf(r) \cup UNION {fs[j] : j \in 1 .. k}
  <2>1. CASE i \in 1 .. k
    BY <2>1
  <2>2. CASE i \notin 1 .. k
    <3>1. i - k \in DOMAIN r /\ k + (i - k) = i
      BY <2>2, <1>1, <1>4
    <3>2. r[i - k] = fs[i]
      BY <3>1, <1>4
    <3> QED BY <3>1, <3>2 DEF LogsOf
  <2> QED BY <2>1, <2>2
<1> QED BY <1>3, <1>5, <1>6 DEF LogsOf, FileSeqs, r

Held == LogsIn(pending) \cup view \cup dropped

(* What a snapshot of the file store rests on: every log that was appended  *)
(* is in the queue, in the view or was dropped on purpose, a flusher drains *)
(* only what the view shows, what was stored and not dropped is in a file,  *)
(* and a snapshot on its way has not missed anything yet.                   *)
SInv ==
    /\ files \in FileSeqs /\ view \subseteq Logs /\ prune \in Nat
    /\ stored \subseteq LogsOf(files) \cup dropped
    /\ \A w \in Workers : pc[w] \in {"enforce", "drain"} => LogsIn(batch[w]) \subseteq view \cup dropped
    /\ \A l \in Logs : status[l] \in {"pushed", "appended"} => l \in Held
    /\ DOMAIN reader = {"at", "must", "seen"}
    /\ reader.at = "queue" => reader.must \subseteq Held
    /\ reader.at = "view" => reader.must \subseteq reader.seen \cup view \cup dropped
    /\ SnapshotComplete

(* Nothing a step takes away is missed by a snapshot.                       *)
LEMMA SnapshotUnharmed ==
    ASSUME SInv, reader' = reader, files' \in FileSeqs, view' \subseteq Logs, prune' \in Nat,
           stored' \subseteq LogsOf(files') \cup dropped', dropped \subseteq dropped',
           view \subseteq view' \cup dropped',
           LogsIn(pending) \subseteq LogsIn(pending') \cup view' \cup dropped',
           \A w \in Workers : pc'[w] \in {"enforce", "drain"} => LogsIn(batch'[w]) \subseteq view' \cup dropped',
           \A l \in Logs : status'[l] \in {"pushed", "appended"} => l \in LogsIn(pending') \cup view' \cup dropped'
    PROVE  SInv'
<1>1. Held' = LogsIn(pending') \cup view' \cup dropped' /\ Held \subseteq Held'
  BY DEF Held, LogsIn
<1>2. \A w \in Workers : LogsIn(batch[w])' = LogsIn(batch'[w])
  BY DEF LogsIn
<1>3. LogsOf(files)' = LogsOf(files')
  BY DEF LogsOf
<1>4. /\ reader.at = "queue" => reader.must \subseteq Held'
      /\ reader.at = "view" => reader.must \subseteq reader.seen \cup view' \cup dropped'
      /\ reader.at = "complete" => reader.must \subseteq reader.seen \cup dropped'
  BY <1>1 DEF SInv, SnapshotComplete
<1> QED BY <1>1, <1>2, <1>3, <1>4 DEF SInv, SnapshotComplete

(* Steps that leave the files, the view and what is stored alone.           *)
LEMMA QueueSteps ==
    ASSUME SInv, reader' = reader, UNCHANGED <<files, view, stored, dropped, prune>>,
           LogsIn(pending) \subseteq LogsIn(pending') \cup view \cup dropped,
           \A w \in Workers : pc'[w] \in {"enforce", "drain"} => LogsIn(batch'[w]) \subseteq view \cup dropped,
           \A l \in Logs : status'[l] \in {"pushed", "appended"} =>
                             status[l] \in {"pushed", "appended"} \/ l \in LogsIn(pending')
    PROVE  SInv'
<1>1. /\ files' \in FileSeqs /\ view' \subseteq Logs /\ prune' \in Nat
      /\ stored' \subseteq LogsOf(files') \cup dropped'
  BY DEF SInv
<1>2. \A l \in Logs : status'[l] \in {"pushed", "appended"} => l \in LogsIn(pending') \cup view' \cup dropped'
  BY DEF SInv, Held
<1> QED BY <1>1, <1>2, SnapshotUnharmed

LEMMA AppendUnharmed ==
    ASSUME QInv, SInv, NEW l \in Logs, Push(l) \/ Schedule(l)
    PROVE  SInv'
<1>0. /\ pending \in Seq(Logs) /\ status \in [Logs -> {"new", "pushed", "appended", "lost"}]
      /\ pc \in [Workers -> Owners \cup {"off", "recheck", "again", "done"}]
  BY DEF QInv, QueueType
<1>1. /\ reader' = reader /\ UNCHANGED <<files, view, stored, dropped, batch, prune>>
  BY DEF Push, Schedule, store
<1>2. LogsIn(pending) \subseteq LogsIn(pending')
  BY <1>0, AppendedLogs DEF Push, Schedule
<1>3. \A w \in Workers : pc'[w] \in {"enforce", "drain"} => pc'[w] = pc[w]
  BY <1>0 DEF Push, Schedule
<1>4. \A k \in Logs : status'[k] \in {"pushed", "appended"} =>
                        status[k] \in {"pushed", "appended"} \/ k \in LogsIn(pending')
  <2>1. CASE Push(l)
    <3>1. l \in LogsIn(pending') /\ \A k \in Logs : k # l => status'[k] = status[k]
      BY <2>1, <1>0, AppendedLogs DEF Push
    <3> QED BY <3>1
  <2>2. CASE Schedule(l)
    BY <2>2, <1>0 DEF Schedule
  <2> QED BY <2>1, <2>2
<1>5. \A w \in Workers : pc'[w] \in {"enforce", "drain"} => LogsIn(batch'[w]) \subseteq view \cup dropped
  BY <1>1, <1>3 DEF SInv
<1> QED BY <1>1, <1>2, <1>4, <1>5, QueueSteps

(* A flusher that moves on without a new copy to drain.                     *)
LEMMA MovesUnharmed ==
    ASSUME QInv, SInv, NEW w \in Workers,
           \/ Wake(w) \/ Copy(w) \/ Drain(w) \/ WriteFails(w)
           \/ TaskEnds(w) \/ AdminStep(w)
    PROVE  SInv'
<1>0. /\ pending \in Seq(Logs) /\ batch \in [Workers -> Seq(Logs)]
      /\ pc \in [Workers -> Owners \cup {"off", "recheck", "again", "done"}]
  BY DEF QInv, QueueType
<1>1. /\ reader' = reader /\ UNCHANGED <<files, view, stored, dropped, status, prune>>
  BY DEF Wake, Copy, Drain, WriteFails, TaskEnds, TaskChecks, TaskReleases, TaskRechecks, TaskRestarts,
         AdminStep, AdminFlushes, AdminReleases, AdminHangsUp, store
<1>2. \A v \in Workers : v # w => pc'[v] = pc[v] /\ batch'[v] = batch[v]
  BY <1>0 DEF Wake, Copy, Drain, WriteFails, Failed, TaskEnds, TaskChecks, TaskReleases, TaskRechecks,
         TaskRestarts, AdminStep, AdminFlushes, AdminReleases, AdminHangsUp, Moves
<1>3. pc'[w] \notin {"enforce", "drain"}
  <2>1. AfterCopy \notin {"enforce", "drain"} /\ AfterRelease \notin {"enforce", "drain"}
    BY DEF AfterCopy, AfterRelease
  <2> QED BY <1>0, <2>1 DEF Wake, Copy, Drain, WriteFails, Failed, TaskEnds, TaskChecks, TaskReleases,
         TaskRechecks, TaskRestarts, AdminStep, AdminFlushes, AdminReleases, AdminHangsUp, Moves
<1>4. LogsIn(pending) \subseteq LogsIn(pending') \cup view \cup dropped
  <2>1. CASE Drain(w)
    <3>1. /\ pc[w] = "drain" /\ pending' = Drained(batch[w])
      BY <2>1 DEF Drain, Moves
    <3>2. batch[w] \in Seq(Logs) /\ Len(batch[w]) <= Len(pending) /\ batch[w] = SubSeq(pending, 1, Len(batch[w]))
      BY <1>0, <3>1 DEF QInv, BatchIsHead, Flushing
    <3>3. Drained(batch[w]) = SubSeq(pending, Len(batch[w]) + 1, Len(pending))
      <4>1. Len(batch[w]) \in Nat /\ Len(pending) \in Nat
        BY <1>0, <3>2
      <4>2. (IF Len(batch[w]) < Len(pending) THEN Len(batch[w]) ELSE Len(pending)) = Len(batch[w])
        BY <3>2, <4>1
      <4> QED BY <4>2, Zenon DEF Drained
    <3>4. LogsIn(pending) \subseteq LogsIn(batch[w]) \cup LogsIn(pending')
      BY <1>0, <3>1, <3>2, <3>3, CutHead
    <3>5. LogsIn(batch[w]) \subseteq view \cup dropped
      BY <3>1 DEF SInv
    <3> QED BY <3>4, <3>5
  <2>2. CASE ~ Drain(w)
    <3>1. pending' = pending
      BY <2>2 DEF Wake, Copy, WriteFails, TaskEnds, TaskChecks, TaskReleases, TaskRechecks, TaskRestarts,
         AdminStep, AdminFlushes, AdminReleases, AdminHangsUp
    <3> QED BY <3>1
  <2> QED BY <2>1, <2>2
<1>5. \A v \in Workers : pc'[v] \in {"enforce", "drain"} => LogsIn(batch'[v]) \subseteq view \cup dropped
  BY <1>2, <1>3 DEF SInv
<1> QED BY <1>1, <1>4, <1>5, QueueSteps

(* The write, the view and the limit of the archive.                        *)
LEMMA StoresUnharmed ==
    ASSUME Backend = "file", QInv, SInv, NEW w \in Workers,
           Write(w) \/ ShowBatch(w) \/ Enforce(w) \/ \E k \in 0 .. Surplus : EnforceFails(w, k)
    PROVE  SInv'
<1>0. /\ batch \in [Workers -> Seq(Logs)] /\ files \in FileSeqs /\ Len(files) \in Nat
      /\ pc \in [Workers -> Owners \cup {"off", "recheck", "again", "done"}]
      /\ view \subseteq Logs /\ prune \in Nat /\ stored \subseteq LogsOf(files) \cup dropped
      /\ \A v \in Workers : pc[v] \in {"enforce", "drain"} => LogsIn(batch[v]) \subseteq view \cup dropped
      /\ \A l \in Logs : status[l] \in {"pushed", "appended"} => l \in Held
  BY DEF QInv, QueueType, SInv, FileSeqs
<1>1. reader' = reader /\ pending' = pending /\ status' = status /\ prune' \in Nat /\ view' \subseteq Logs
  <2>1. reader' = reader /\ pending' = pending /\ status' = status /\ prune' = prune
    BY DEF Write, ShowBatch, Enforce, EnforceFails
  <2>2. LogsIn(batch[w]) \subseteq Logs
    BY <1>0 DEF LogsIn
  <2>3. view' \subseteq view \cup LogsIn(batch[w])
    BY DEF Write, ShowBatch, Enforce, EnforceFails
  <2> QED BY <1>0, <2>1, <2>2, <2>3
<1>2. \A v \in Workers : v # w => pc'[v] = pc[v] /\ batch'[v] = batch[v]
  BY <1>0 DEF Write, ShowBatch, Enforce, EnforceFails, Failed, Moves
<1>3. Surplus \in 0 .. Len(files)
  BY <1>0, UsageLogsAssumption DEF Surplus
<1>4. ASSUME Write(w)
      PROVE  /\ files' \in FileSeqs /\ stored' \subseteq LogsOf(files') \cup dropped'
             /\ view' = view /\ dropped' = dropped /\ pc'[w] \notin {"enforce", "drain"}
  <2>1. /\ files' = Append(files, LogsIn(batch[w])) /\ stored' = stored \cup LogsIn(batch[w])
        /\ view' = view /\ dropped' = dropped /\ pc'[w] = "view"
    BY <1>0, <1>4 DEF Write, WithBatch, Moves
  <2>2. LogsIn(batch[w]) \in SUBSET Logs
    BY <1>0 DEF LogsIn
  <2> DEFINE b == LogsIn(batch[w])
  <2> HIDE DEF b
  <2>3. files' = Append(files, b) /\ b \in SUBSET Logs /\ stored' = stored \cup b
    BY <2>1, <2>2 DEF b
  <2>4. files' \in FileSeqs /\ LogsOf(files) \cup b \subseteq LogsOf(files')
    <3>1. /\ files' \in Seq(SUBSET Logs) /\ DOMAIN files' = 1 .. (Len(files) + 1)
          /\ files'[Len(files) + 1] = b /\ \A i \in 1 .. Len(files) : files'[i] = files[i]
      BY <1>0, <2>3 DEF FileSeqs
    <3>2. DOMAIN files = 1 .. Len(files)
      BY <1>0 DEF FileSeqs
    <3>3. \A i \in DOMAIN files : i \in DOMAIN files' /\ files'[i] = files[i]
      BY <3>1, <3>2, <1>0
    <3>4. Len(files) + 1 \in DOMAIN files'
      BY <3>1, <1>0
    <3> QED BY <3>1, <3>3, <3>4 DEF FileSeqs, LogsOf
  <2> QED BY <2>1, <2>3, <2>4, <1>0
<1>5. ASSUME ShowBatch(w)
      PROVE  /\ UNCHANGED <<files, stored, dropped>> /\ view' = view \cup LogsIn(batch[w])
             /\ batch'[w] = batch[w]
  BY <1>5 DEF ShowBatch
<1>6. ASSUME NEW k \in 0 .. Len(files), files' = SubSeq(files, k + 1, Len(files)),
             dropped' = dropped \cup RemovedWith(k)
      PROVE  files' \in FileSeqs /\ stored \subseteq LogsOf(files') \cup dropped' /\ dropped \subseteq dropped'
  <2>1. /\ SubSeq(files, k + 1, Len(files)) \in FileSeqs
        /\ LogsOf(files) \subseteq LogsOf(SubSeq(files, k + 1, Len(files))) \cup RemovedWith(k)
    BY <1>0, RestHolds DEF RemovedWith
  <2> QED BY <1>0, <1>6, <2>1
<1>7. CASE Write(w)
  <2>1. \A v \in Workers : pc'[v] \in {"enforce", "drain"} => LogsIn(batch'[v]) \subseteq view' \cup dropped'
    BY <1>0, <1>2, <1>4, <1>7
  <2>2. \A l \in Logs : status'[l] \in {"pushed", "appended"} => l \in LogsIn(pending') \cup view' \cup dropped'
    BY <1>0, <1>1, <1>4, <1>7 DEF Held
  <2> QED BY <1>1, <1>4, <1>7, <2>1, <2>2, SnapshotUnharmed
<1>8. CASE ShowBatch(w)
  <2>1. \A v \in Workers : pc'[v] \in {"enforce", "drain"} => LogsIn(batch'[v]) \subseteq view' \cup dropped'
    BY <1>0, <1>2, <1>5, <1>8
  <2>2. \A l \in Logs : status'[l] \in {"pushed", "appended"} => l \in LogsIn(pending') \cup view' \cup dropped'
    BY <1>0, <1>1, <1>5, <1>8 DEF Held
  <2>3. files' \in FileSeqs /\ stored' \subseteq LogsOf(files') \cup dropped'
    BY <1>0, <1>5, <1>8
  <2> QED BY <1>1, <1>5, <1>8, <2>1, <2>2, <2>3, SnapshotUnharmed
<1>9. CASE Enforce(w)
  <2>1. /\ pc[w] = "enforce" /\ batch' = batch /\ stored' = stored
        /\ files' = SubSeq(files, Surplus + 1, Len(files))
        /\ view' = view \ RemovedWith(Surplus) /\ dropped' = dropped \cup RemovedWith(Surplus)
    BY <1>9 DEF Enforce, Moves
  <2>2. files' \in FileSeqs /\ stored' \subseteq LogsOf(files') \cup dropped' /\ dropped \subseteq dropped'
    BY <1>3, <1>6, <2>1
  <2>3. view \cup dropped \subseteq view' \cup dropped'
    BY <2>1
  <2>4. \A v \in Workers : pc'[v] \in {"enforce", "drain"} => LogsIn(batch'[v]) \subseteq view' \cup dropped'
    BY <1>0, <1>2, <2>1, <2>3
  <2>5. \A l \in Logs : status'[l] \in {"pushed", "appended"} => l \in LogsIn(pending') \cup view' \cup dropped'
    BY <1>0, <1>1, <2>3 DEF Held
  <2> QED BY <1>1, <2>2, <2>3, <2>4, <2>5, SnapshotUnharmed
<1>10. ASSUME NEW k \in 0 .. Surplus, EnforceFails(w, k) PROVE SInv'
  <2>1. /\ batch' = [batch EXCEPT ![w] = <<>>] /\ stored' = stored /\ view' = view
        /\ files' = SubSeq(files, k + 1, Len(files)) /\ dropped' = dropped \cup RemovedWith(k)
        /\ pc'[w] \notin {"enforce", "drain"}
    BY <1>0, <1>10 DEF EnforceFails, Failed
  <2>2. k \in 0 .. Len(files)
    BY <1>0, <1>3
  <2>3. files' \in FileSeqs /\ stored' \subseteq LogsOf(files') \cup dropped' /\ dropped \subseteq dropped'
    BY <1>6, <2>1, <2>2
  <2>4. \A v \in Workers : pc'[v] \in {"enforce", "drain"} => LogsIn(batch'[v]) \subseteq view' \cup dropped'
    BY <1>0, <1>2, <2>1, <2>3
  <2>5. \A l \in Logs : status'[l] \in {"pushed", "appended"} => l \in LogsIn(pending') \cup view' \cup dropped'
    BY <1>0, <1>1, <2>1, <2>3 DEF Held
  <2> QED BY <1>1, <2>1, <2>3, <2>4, <2>5, SnapshotUnharmed
<1> QED BY <1>7, <1>8, <1>9, <1>10

(* Retention and restarts: what leaves the files or the view is dropped.    *)
LEMMA RetentionUnharmed ==
    ASSUME SInv, (\E cutoff \in Logs : PruneDurable(cutoff)) \/ PruneView
    PROVE  SInv'
<1>0. /\ files \in FileSeqs /\ view \subseteq Logs /\ prune \in Nat
      /\ stored \subseteq LogsOf(files) \cup dropped
      /\ \A v \in Workers : pc[v] \in {"enforce", "drain"} => LogsIn(batch[v]) \subseteq view \cup dropped
      /\ \A l \in Logs : status[l] \in {"pushed", "appended"} => l \in Held
  BY DEF SInv
<1>1. reader' = reader /\ UNCHANGED <<pending, status, pc, batch, stored>>
  BY DEF PruneDurable, PruneView
<1>5. view' \subseteq Logs /\ prune' \in Nat
  <2>1. view' \subseteq view
    BY DEF PruneDurable, PruneView
  <2>2. prune' \in Logs \cup {0}
    BY DEF PruneDurable, PruneView
  <2> QED BY <1>0, <2>1, <2>2, UsageLogsAssumption
<1>2. /\ files' \in FileSeqs /\ stored' \subseteq LogsOf(files') \cup dropped'
      /\ dropped \subseteq dropped' /\ view \subseteq view' \cup dropped'
  <2>1. ASSUME NEW cutoff \in Logs, PruneDurable(cutoff)
        PROVE  /\ files' \in FileSeqs /\ stored' \subseteq LogsOf(files') \cup dropped'
               /\ dropped \subseteq dropped' /\ view' = view
    <3> DEFINE fs == Younger(cutoff)
    <3>1. /\ files' = NonEmpty(fs) /\ view' = view
          /\ dropped' = dropped \cup {l \in LogsOf(files) : l < cutoff}
      BY <2>1 DEF PruneDurable, Archived, LogsOf
    <3>2. DOMAIN files = 1 .. Len(files) /\ Len(files) \in Nat /\ \A i \in DOMAIN files : files[i] \in SUBSET Logs
      BY <1>0 DEF FileSeqs
    <3>3. fs \in [1 .. Len(files) -> SUBSET Logs] /\ \A i \in DOMAIN files : fs[i] = {l \in files[i] : l >= cutoff}
      BY <3>2 DEF Younger
    <3>4. fs \in FileSeqs /\ DOMAIN fs = DOMAIN files
      BY <3>2, <3>3 DEF FileSeqs
    <3>5. LogsOf(files) \subseteq LogsOf(fs) \cup {l \in LogsOf(files) : l < cutoff}
      <4> HIDE DEF fs
      <4> SUFFICES ASSUME NEW i \in DOMAIN files, NEW l \in files[i], ~ (l < cutoff)
                   PROVE  l \in LogsOf(fs)
        BY DEF LogsOf
      <4>1. l \in Int /\ cutoff \in Int
        <5>1. l \in Logs /\ cutoff \in Logs
          BY <3>2
        <5>2. \A n \in Logs : n \in Nat
          BY UsageLogsAssumption
        <5>3. l \in Nat /\ cutoff \in Nat
          BY <5>1, <5>2
        <5> QED BY <5>3
      <4>2. l \in fs[i]
        BY <3>3, <4>1
      <4> QED BY <3>4, <4>2 DEF LogsOf
    <3> HIDE DEF fs
    <3>6. files' \in FileSeqs /\ LogsOf(files') = LogsOf(fs)
      BY <3>1, <3>4, NonEmptyHolds
    <3> QED BY <1>0, <1>1, <3>1, <3>5, <3>6
  <2>2. ASSUME PruneView
        PROVE  /\ files' = files /\ dropped \subseteq dropped' /\ view \subseteq view' \cup dropped'
    <3>1. /\ files' = files /\ view' = {l \in view : l >= prune}
          /\ dropped' = dropped \cup {l \in view : l < prune}
      BY <2>2 DEF PruneView
    <3>2. \A l \in view : l >= prune \/ l < prune
      <4>1. \A l \in view : l \in Nat
        BY <1>0, UsageLogsAssumption
      <4> QED BY <1>0, <4>1
    <3> QED BY <3>1, <3>2
  <2> QED BY <1>0, <1>1, <2>1, <2>2
<1>3. \A v \in Workers : pc'[v] \in {"enforce", "drain"} => LogsIn(batch'[v]) \subseteq view' \cup dropped'
  BY <1>0, <1>1, <1>2
<1>4. \A l \in Logs : status'[l] \in {"pushed", "appended"} => l \in LogsIn(pending') \cup view' \cup dropped'
  BY <1>0, <1>1, <1>2 DEF Held
<1> QED BY <1>1, <1>2, <1>3, <1>4, <1>5, SnapshotUnharmed

LEMMA RestartUnharmed == ASSUME QInv, SInv, Restart PROVE SInv'
<1>0. files \in FileSeqs /\ Len(files) \in Nat /\ stored \subseteq LogsOf(files) \cup dropped
  BY DEF SInv, FileSeqs
<1>1. /\ status' = [l \in Logs |->
                      IF status[l] # "new" /\ l \notin stored THEN "lost"
                      ELSE IF status[l] = "pushed" THEN "appended" ELSE status[l]]
      /\ pc' = [w \in Workers |-> IF w \in Admins /\ pc[w] # "off" THEN "done" ELSE "off"]
      /\ files' = SubSeq(files, Surplus + 1, Len(files))
      /\ view' = LogsOf(files) \ RemovedWith(Surplus)
      /\ dropped' = dropped \cup RemovedWith(Surplus)
      /\ reader' = Idle /\ prune' = 0 /\ stored' = stored
  BY DEF Restart, Archived, LogsOf
<1>2. Surplus \in 0 .. Len(files)
  BY <1>0, UsageLogsAssumption DEF Surplus
<1>3. /\ files' \in FileSeqs
      /\ LogsOf(files) \subseteq LogsOf(files') \cup RemovedWith(Surplus)
  BY <1>0, <1>1, <1>2, RestHolds DEF RemovedWith
<1>4. LogsOf(files) \subseteq Logs
  BY <1>0 DEF LogsOf, FileSeqs
<1>5. /\ files' \in FileSeqs /\ view' \subseteq Logs /\ prune' \in Nat
      /\ stored' \subseteq LogsOf(files') \cup dropped'
  BY <1>0, <1>1, <1>3, <1>4
<1>6. LogsOf(files)' = LogsOf(files') /\ view' \cup dropped' \subseteq Held'
  BY DEF LogsOf, Held
<1>7. \A l \in Logs : status'[l] \in {"pushed", "appended"} => l \in Held'
  <2> SUFFICES ASSUME NEW l \in Logs, status'[l] \in {"pushed", "appended"}
               PROVE  l \in view' \cup dropped'
    BY <1>6
  <2>1. l \in stored
    BY <1>1
  <2> QED BY <2>1, <1>0, <1>1
<1>8. \A w \in Workers : pc'[w] \notin {"enforce", "drain"}
  BY <1>1
<1>9. reader'.at = "idle" /\ DOMAIN reader' = {"at", "must", "seen"}
  BY <1>1 DEF Idle
<1> QED BY <1>5, <1>6, <1>7, <1>8, <1>9 DEF SInv, SnapshotComplete

(* The snapshot itself: the queue before the view.                          *)
LEMMA SnapshotSteps ==
    ASSUME Backend = "file", SInv, Snapshot
    PROVE  SInv'
<1>1. UNCHANGED <<status, pending, pc, batch, files, view, stored, dropped, prune>>
  BY DEF Snapshot, SnapshotBegins, SnapshotReadsQueue, SnapshotReadsView, SnapshotEnds, store
<1>2. Held' = Held /\ LogsOf(files)' = LogsOf(files)
      /\ \A w \in Workers : LogsIn(batch[w])' = LogsIn(batch[w])
  BY <1>1 DEF Held, LogsOf, LogsIn
<1>3. /\ reader'.at = "queue" => reader'.must \subseteq Held
      /\ reader'.at = "view" => reader'.must \subseteq reader'.seen \cup view \cup dropped
      /\ reader'.at = "complete" => reader'.must \subseteq reader'.seen \cup dropped
  <2>1. CASE SnapshotBegins
    <3>1. reader'.at = "queue" /\ reader'.must = {l \in Logs : status[l] \in {"pushed", "appended"}}
      BY <2>1 DEF SnapshotBegins
    <3> QED BY <3>1 DEF SInv
  <2>2. CASE SnapshotReadsQueue
    <3>1. /\ reader.at = "queue"
          /\ reader' = [reader EXCEPT !.at = "view", !.seen = @ \cup LogsIn(pending)]
      BY <2>2 DEF SnapshotReadsQueue
    <3>2. DOMAIN reader = {"at", "must", "seen"}
      BY DEF SInv
    <3> QED BY <3>1, <3>2 DEF SInv, Held
  <2>3. CASE SnapshotReadsView
    <3>1. /\ reader.at = "view"
          /\ reader' = [reader EXCEPT !.at = "complete", !.seen = @ \cup view]
      BY <2>3 DEF SnapshotReadsView, StateHoldsView
    <3>2. DOMAIN reader = {"at", "must", "seen"}
      BY DEF SInv
    <3> QED BY <3>1, <3>2 DEF SInv
  <2>4. CASE SnapshotEnds
    BY <2>4 DEF SnapshotEnds, Idle
  <2> QED BY <2>1, <2>2, <2>3, <2>4 DEF Snapshot
<1>4. DOMAIN reader' = {"at", "must", "seen"}
  <2>1. DOMAIN reader = {"at", "must", "seen"}
    BY DEF SInv
  <2> QED BY <2>1 DEF Snapshot, SnapshotBegins, SnapshotReadsQueue, SnapshotReadsView, SnapshotEnds, Idle
<1> QED BY <1>1, <1>2, <1>3, <1>4 DEF SInv, SnapshotComplete

(* A snapshot of the file store shows every log appended before it began    *)
(* that neither the archive limit nor the retention removed: snapshot()     *)
(* reads the queue before the view, and flush_usage_log_batch fills the     *)
(* view before the queue is drained.                                        *)
THEOREM SnapshotTheorem ==
    ASSUME Backend = "file"
    PROVE  Spec => []SnapshotComplete
<1>1. Init => SInv
  <2> SUFFICES ASSUME Init PROVE SInv
    OBVIOUS
  <2>1. files \in FileSeqs /\ view \subseteq Logs /\ prune \in Nat /\ stored = {}
    BY DEF Init, FileSeqs
  <2>2. \A w \in Workers : pc[w] \notin {"enforce", "drain"}
    BY DEF Init
  <2>3. \A l \in Logs : status[l] \notin {"pushed", "appended"}
    BY DEF Init
  <2>4. reader.at = "idle" /\ DOMAIN reader = {"at", "must", "seen"}
    BY DEF Init, Idle
  <2> QED BY <2>1, <2>2, <2>3, <2>4 DEF SInv, SnapshotComplete
<1>2. QInv /\ SInv /\ [Next]_vars => SInv'
  <2> SUFFICES ASSUME QInv, SInv, [Next]_vars PROVE SInv'
    OBVIOUS
  <2>1. ASSUME NEW l \in Logs, Push(l) \/ Schedule(l) PROVE SInv'
    BY <2>1, AppendUnharmed
  <2>2. ASSUME NEW w \in Workers, Flush(w) \/ Faults(w) \/ TaskEnds(w) \/ AdminStep(w) PROVE SInv'
    BY <2>2, MovesUnharmed, StoresUnharmed DEF Flush, Faults
  <2>3. CASE Snapshot
    BY <2>3, SnapshotSteps
  <2>4. CASE (\E cutoff \in Logs : PruneDurable(cutoff)) \/ PruneView
    BY <2>4, RetentionUnharmed
  <2>5. CASE Restart
    BY <2>5, RestartUnharmed
  <2>6. CASE UNCHANGED vars
    BY <2>6 DEF vars, SInv, SnapshotComplete, Held, LogsOf, LogsIn
  <2> QED BY <2>1, <2>2, <2>3, <2>4, <2>5, <2>6 DEF Next
<1>3. SInv => SnapshotComplete
  BY DEF SInv
<1> QED BY <1>1, <1>2, <1>3, PipelineInvariant, PTL DEF Spec
=============================================================================
