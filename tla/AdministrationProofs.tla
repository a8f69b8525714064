------------------------ MODULE AdministrationProofs ------------------------
(***************************************************************************)
(* Proofs about what administrators and portal users change.               *)
(*                                                                         *)
(* Configuration: the handlers implement ConfigRegister, and nobody        *)
(* overwrites settings he has not seen.  PortalAccess: a revoked key opens *)
(* nothing and a migration is for the owner its preview showed.            *)
(* ModelQualification: models are given up on evidence alone, and no other *)
(* key's limits change.                                                    *)
(***************************************************************************)
EXTENDS Configuration, PortalAccess, ModelQualification, TLAPS

-----------------------------------------------------------------------------
(* Configuration: types.                                                    *)

Stages == {"idle", "waiting", "persisting", "written", "tuning", "deleting"}

HandlerType == [op : Operations \cup {"none"}, at : Stages, arg : 0..MaxRevision,
                copy : Document \cup {Torn}, candidate : Document \cup {Torn}]

ConfigTyped ==
    /\ memory \in Document /\ store \in Document
    /\ handler \in [Admins -> HandlerType]
    /\ issued \in 1..MaxSecret
    /\ \A h \in Admins :
          handler[h].at = "waiting" /\ handler[h].op \in {"toggle_downstream", "rotate_downstream"}
             => handler[h].copy \in Document
    /\ \A h \in Admins : handler[h].at # "idle" => handler[h].op \in Operations

(* config_persist_lock: whoever is between his check and his publication    *)
(* holds it, and his candidate was made of the state that is still served.  *)
LockHeld ==
    \A h \in Admins : handler[h].at \in {"persisting", "written", "tuning"} => lock = h

(* What a holder of the lock may rely on: his candidate is a document made  *)
(* of the one served, and once it was written the store holds it, up to the *)
(* group binding the database may reset.                                    *)
HolderPrepared ==
    \A h \in Admins :
        LET me == handler[h] IN
        /\ me.at \in {"persisting", "written"} =>
             /\ me.candidate \in Document
             /\ me.candidate.revision >= memory.revision
             /\ me.op = "settings" =>
                  me.arg = memory.revision /\ me.candidate.revision = memory.revision + 1
        /\ me.at = "written" => Kept(store) = Kept(me.candidate)
        /\ me.at = "tuning" => me.arg < memory.revision /\ me.arg \notin granted

(* Every update that was acknowledged started below the revision that is    *)
(* served, and the store is never behind what is served: a restart cannot   *)
(* bring an old revision back.                                              *)
RevisionsGrow ==
    /\ \A g \in granted : g < memory.revision
    /\ memory.revision <= store.revision
    /\ granted \subseteq Nat
    /\ twice = FALSE

ConfigInv == ConfigTyped /\ LockHeld /\ HolderPrepared /\ RevisionsGrow

(* Taking the group binding out of a document leaves a document with the    *)
(* same revision.                                                           *)
LEMMA KeptDocument ==
  ASSUME NEW c \in Document
  PROVE  Kept(c) \in Document /\ Kept(c).revision = c.revision
BY DEF Kept, Document

(* The closure of every operation (mutate_persisted_state) makes a document *)
(* of a document, and only a settings update moves the revision, by one.    *)
LEMMA CandidateDocument ==
  ASSUME NEW c \in Document, NEW me \in HandlerType, me.op \in Operations,
         me.op = "settings" => c.revision < MaxRevision,
         me.op \in {"toggle_downstream", "rotate_downstream"} => me.copy \in Document
  PROVE  /\ Candidate(c, me) \in Document
         /\ Candidate(c, me).revision =
              IF me.op = "settings" THEN c.revision + 1 ELSE c.revision
<1>0. Operations \subseteq {"settings", "aliases", "insert_upstream", "patch_upstream",
                    "remove_upstream", "toggle_downstream", "rotate_downstream",
                    "patch_downstream", "delete_group", "other"}
  BY ConfigurationAssumption
<1>1. MaxRevision \in Nat /\ MaxSecret \in Nat
  BY ConfigurationAssumption
<1>2. CASE me.op = "settings"
  BY <1>1, <1>2 DEF Candidate, ChangedSettings, Document
<1>3. CASE me.op = "aliases"
  BY <1>1, <1>3 DEF Candidate, ChangedAliases, Document
<1>4. CASE me.op = "insert_upstream"
  BY <1>1, <1>4 DEF Candidate, InsertedUpstream, Document
<1>5. CASE me.op = "patch_upstream"
  BY <1>1, <1>5 DEF Candidate, PatchedUpstream, Document
<1>6. CASE me.op = "remove_upstream"
  BY <1>1, <1>6 DEF Candidate, RemovedUpstream, Document
<1>7. CASE me.op \in {"toggle_downstream", "rotate_downstream"}
  BY <1>1, <1>7 DEF Candidate, ReplacedDownstream, Document
<1>8. CASE me.op = "patch_downstream"
  BY <1>1, <1>8 DEF Candidate, PatchedDownstream, Document
<1>9. CASE me.op = "delete_group"
  BY <1>1, <1>9 DEF Candidate, RetargetedDownstreams, Document
<1>10. CASE me.op = "other"
  BY <1>1, <1>10 DEF Candidate, ChangedOther, Document
<1> QED
  BY <1>0, <1>2, <1>3, <1>4, <1>5, <1>6, <1>7, <1>8, <1>9, <1>10

(* The process starts with a document in the store, served as it is, and    *)
(* no handler running.                                                      *)
LEMMA ConfigStarts == ConfigInit => ConfigInv
<1> SUFFICES ASSUME ConfigInit PROVE ConfigInv
  OBVIOUS
<1>0. MaxRevision \in Nat /\ MaxSecret \in Nat \ {0}
  BY ConfigurationAssumption
<1>1. store \in Document /\ memory = store /\ store.revision = 0
  BY <1>0 DEF ConfigInit, Document
<1>2. Resting \in HandlerType /\ Resting.at = "idle"
  BY <1>0 DEF Resting, HandlerType, Stages
<1>3. ConfigTyped
  BY <1>0, <1>1, <1>2 DEF ConfigInit, ConfigTyped
<1>4. LockHeld /\ HolderPrepared
  BY <1>2 DEF ConfigInit, LockHeld, HolderPrepared
<1>5. RevisionsGrow
  BY <1>1 DEF ConfigInit, RevisionsGrow
<1> QED
  BY <1>3, <1>4, <1>5 DEF ConfigInv

(* A handler that returns, with what it may have done to the settings and   *)
(* the lock it held, leaves the others as they were.                        *)
LEMMA ReturnKeeps ==
  ASSUME ConfigInv, NEW h \in Admins, handler' = Return(h),
         lock' \in {lock, NoLock}, lock' = NoLock /\ lock # NoLock => lock = h,
         store' \in Document, Kept(store') = Kept(store),
         memory' \in Document, memory' # memory => lock = h,
         memory'.revision >= memory.revision, memory'.revision <= store.revision,
         issued' = issued,
         granted' \subseteq Nat,
         granted' # granted => lock = h, \A g \in granted' : g < memory'.revision,
         twice' = FALSE
  PROVE  ConfigInv'
<1>0. Resting \in HandlerType /\ Resting.at = "idle"
  BY ConfigurationAssumption DEF Resting, HandlerType, Stages
<1>1. /\ handler'[h] = Resting
      /\ \A g \in Admins \ {h} : handler'[g] = handler[g]
      /\ handler' \in [Admins -> HandlerType]
  BY <1>0 DEF ConfigInv, ConfigTyped, Return
<1>2. ConfigTyped'
  BY <1>0, <1>1 DEF ConfigInv, ConfigTyped
<1>3. LockHeld'
  BY <1>0, <1>1 DEF ConfigInv, LockHeld
<1>4. HolderPrepared'
  <2> SUFFICES ASSUME NEW g \in Admins, g # h,
                      handler[g].at \in {"persisting", "written", "tuning"}
               PROVE  /\ memory' = memory /\ granted' = granted
    <3> SUFFICES ASSUME NEW g \in Admins PROVE HolderPrepared!(g)'
      BY DEF HolderPrepared
    <3>1. CASE g = h
      BY <1>0, <1>1, <3>1
    <3>2. CASE g # h /\ handler[g].at \notin {"persisting", "written", "tuning"}
      BY <1>1, <3>2
    <3>3. CASE g # h /\ handler[g].at \in {"persisting", "written", "tuning"}
      BY <1>1, <3>3 DEF ConfigInv, HolderPrepared
    <3> QED BY <3>1, <3>2, <3>3
  <2>1. lock = g
    BY DEF ConfigInv, LockHeld
  <2> QED BY <2>1
<1>5. RevisionsGrow'
  BY KeptDocument DEF ConfigInv, ConfigTyped, RevisionsGrow
<1> QED
  BY <1>2, <1>3, <1>4, <1>5 DEF ConfigInv

(* What the invariant says of the documents themselves.                     *)
LEMMA ConfigServes ==
  ASSUME ConfigInv
  PROVE  /\ store \in Document /\ memory \in Document
         /\ memory.revision \in Nat /\ store.revision \in Nat
         /\ memory.revision <= store.revision /\ memory.revision >= memory.revision
         /\ granted \subseteq Nat /\ twice = FALSE
         /\ \A g \in granted : g < memory.revision
BY ConfigurationAssumption DEF ConfigInv, ConfigTyped, RevisionsGrow, Document

(* A call copies what it read and waits for the lock; nothing it read is    *)
(* trusted until it holds the lock.                                         *)
LEMMA CallKeeps ==
  ASSUME ConfigInv, NEW h \in Admins, Call(h)
  PROVE  ConfigInv'
<1>0. MaxRevision \in Nat /\ MaxSecret \in Nat
  BY ConfigurationAssumption
<1>1. PICK op \in Operations, arg \in 0..MaxRevision :
         /\ op = "rotate_downstream" => issued < MaxSecret
         /\ handler' = [handler EXCEPT ![h] =
              [op |-> op, at |-> "waiting", arg |-> arg, copy |-> CopyOf(op), candidate |-> Torn]]
         /\ issued' = IF op = "rotate_downstream" THEN issued + 1 ELSE issued
  BY DEF Call
<1>2. CopyOf(op) \in Document \cup {Torn}
      /\ (op \in {"toggle_downstream", "rotate_downstream"} => CopyOf(op) \in Document)
  <2>1. memory \in Document /\ issued \in 1..MaxSecret
    BY DEF ConfigInv, ConfigTyped
  <2>2. CASE op = "toggle_downstream"
    BY <2>1, <2>2 DEF CopyOf, Document
  <2>3. CASE op = "rotate_downstream"
    BY <1>0, <1>1, <2>1, <2>3 DEF CopyOf, Document
  <2>4. CASE op \notin {"toggle_downstream", "rotate_downstream"}
    BY <2>4 DEF CopyOf
  <2> QED BY <2>2, <2>3, <2>4
<1> DEFINE me == [op |-> op, at |-> "waiting", arg |-> arg, copy |-> CopyOf(op), candidate |-> Torn]
<1>3. me \in HandlerType /\ me.op = op /\ me.at = "waiting" /\ me.copy = CopyOf(op)
  BY <1>2 DEF HandlerType, Stages
<1> HIDE DEF me
<1>4. /\ handler'[h] = me
      /\ \A g \in Admins \ {h} : handler'[g] = handler[g]
      /\ handler' \in [Admins -> HandlerType]
  BY <1>1, <1>3 DEF me, ConfigInv, ConfigTyped
<1>5. UNCHANGED <<store, memory, lock, granted, twice>>
  BY DEF Call
<1>6. ConfigTyped'
  BY <1>0, <1>1, <1>2, <1>3, <1>4, <1>5 DEF ConfigInv, ConfigTyped
<1>7. LockHeld'
  BY <1>3, <1>4, <1>5 DEF ConfigInv, LockHeld
<1>8. HolderPrepared'
  BY <1>3, <1>4, <1>5 DEF ConfigInv, HolderPrepared
<1>9. RevisionsGrow'
  BY <1>5 DEF ConfigInv, RevisionsGrow
<1> QED
  BY <1>6, <1>7, <1>8, <1>9 DEF ConfigInv

(* Under the lock the change is computed on a clone of what is served.      *)
LEMMA PrepareKeeps ==
  ASSUME ConfigInv, NEW h \in Admins, Prepare(h)
  PROVE  ConfigInv'
<1>0. UNCHANGED <<store, memory, issued, granted, twice>>
  BY DEF Prepare
<1>1. CASE ~CheckedUnderLock(handler[h])
  <2>1. handler' = Return(h) /\ lock' = lock
    BY <1>1 DEF Prepare
  <2>2. /\ store \in Document /\ memory \in Document /\ memory.revision <= store.revision
        /\ memory.revision >= memory.revision
        /\ granted \subseteq Nat /\ twice = FALSE /\ \A g \in granted : g < memory.revision
    BY ConfigServes
  <2> QED
    BY <1>0, <2>1, <2>2, ReturnKeeps
<1>2. CASE CheckedUnderLock(handler[h])
  <2> DEFINE me == handler[h]
             new == Candidate(memory, me)
  <2>1. /\ lock = NoLock /\ lock' = h
        /\ handler' = [handler EXCEPT ![h].at = "persisting", ![h].candidate = new]
        /\ me.at = "waiting"
    BY <1>2 DEF Prepare
  <2>2. me \in HandlerType /\ me.op \in Operations
    BY <2>1 DEF ConfigInv, ConfigTyped
  <2>3. me.op = "settings" => me.arg = memory.revision /\ memory.revision < MaxRevision
    BY <1>2 DEF CheckedUnderLock, RevisionCurrent
  <2>4. /\ new \in Document
        /\ new.revision = IF me.op = "settings" THEN memory.revision + 1 ELSE memory.revision
    BY <2>1, <2>2, <2>3, CandidateDocument DEF ConfigInv, ConfigTyped
  <2>5. /\ handler'[h] = [me EXCEPT !.at = "persisting", !.candidate = new]
        /\ \A g \in Admins \ {h} : handler'[g] = handler[g]
    BY <2>1 DEF ConfigInv, ConfigTyped
  <2> HIDE DEF new
  <2>6. /\ handler'[h] \in HandlerType /\ handler'[h].at = "persisting"
        /\ handler'[h].candidate = new /\ handler'[h].op = me.op /\ handler'[h].arg = me.arg
    BY <2>2, <2>4, <2>5 DEF HandlerType, Stages
  <2>7. handler' \in [Admins -> HandlerType]
    BY <2>1, <2>5, <2>6 DEF ConfigInv, ConfigTyped
  <2> HIDE DEF me
  <2>8. ConfigTyped'
    BY <1>0, <2>2, <2>5, <2>6, <2>7 DEF ConfigInv, ConfigTyped
  <2>9. \A g \in Admins : handler[g].at \notin {"persisting", "written", "tuning"}
    BY <2>1, ConfigurationAssumption DEF ConfigInv, LockHeld
  <2>10. LockHeld'
    BY <2>1, <2>5, <2>9 DEF LockHeld
  <2>11. HolderPrepared'
    <3>1. memory.revision \in Nat
      BY ConfigServes
    <3>2. new.revision >= memory.revision
      BY <2>4, <3>1
    <3> QED
      BY <1>0, <2>3, <2>4, <2>5, <2>6, <2>9, <3>2 DEF HolderPrepared
  <2>12. RevisionsGrow'
    BY <1>0 DEF ConfigInv, RevisionsGrow
  <2> QED
    BY <2>8, <2>10, <2>11, <2>12 DEF ConfigInv
<1> QED
  BY <1>1, <1>2

(* The transaction, or the rename of the temporary file.                    *)
LEMMA PersistKeeps ==
  ASSUME ConfigInv, NEW h \in Admins, Persist(h)
  PROVE  /\ ConfigInv'
         /\ store' \in Document /\ memory' = memory
<1> DEFINE me == handler[h]
<1>1. /\ me.at = "persisting" /\ store' = me.candidate
      /\ handler' = [handler EXCEPT ![h].at = "written"]
      /\ UNCHANGED <<memory, lock, issued, granted, twice>>
  BY DEF Persist
<1>2. /\ me \in HandlerType /\ me.op \in Operations
      /\ me.candidate \in Document /\ me.candidate.revision >= memory.revision
      /\ me.op = "settings" =>
           me.arg = memory.revision /\ me.candidate.revision = memory.revision + 1
  BY <1>1 DEF ConfigInv, ConfigTyped, HolderPrepared
<1>3. /\ handler'[h] \in HandlerType /\ handler'[h].at = "written"
      /\ handler'[h].candidate = me.candidate
      /\ handler'[h].op = me.op /\ handler'[h].arg = me.arg
  BY <1>1, <1>2 DEF ConfigInv, ConfigTyped, HandlerType, Stages
<1>4. /\ handler' \in [Admins -> HandlerType]
      /\ \A g \in Admins \ {h} : handler'[g] = handler[g]
  BY <1>1, <1>3 DEF ConfigInv, ConfigTyped
<1>5. lock = h /\ \A g \in Admins \ {h} : handler[g].at \notin {"persisting", "written", "tuning"}
  BY <1>1 DEF ConfigInv, LockHeld
<1> HIDE DEF me
<1>6. ConfigTyped'
  BY <1>1, <1>2, <1>3, <1>4 DEF ConfigInv, ConfigTyped
<1>7. LockHeld'
  BY <1>1, <1>3, <1>4, <1>5 DEF LockHeld
<1>8. HolderPrepared'
  BY <1>1, <1>2, <1>3, <1>4, <1>5 DEF HolderPrepared
<1>9. RevisionsGrow'
  BY <1>1, <1>2 DEF ConfigInv, RevisionsGrow
<1> QED
  BY <1>1, <1>2, <1>6, <1>7, <1>8, <1>9 DEF ConfigInv

(* The candidate is published: what is served becomes what the store holds. *)
LEMMA ApplyKeeps ==
  ASSUME ConfigInv, NEW h \in Admins, Apply(h)
  PROVE  /\ ConfigInv'
         /\ Kept(memory') = Kept(store) /\ store' = store
<1> DEFINE me == handler[h]
<1>1. /\ me.at = "written" /\ memory' = me.candidate
      /\ UNCHANGED <<store, issued, granted, twice>>
  BY DEF Apply, Publishes
<1>2. /\ me \in HandlerType /\ me.op \in Operations
      /\ me.candidate \in Document /\ me.candidate.revision >= memory.revision
      /\ me.op = "settings" =>
           me.arg = memory.revision /\ me.candidate.revision = memory.revision + 1
      /\ Kept(store) = Kept(me.candidate)
  BY <1>1 DEF ConfigInv, ConfigTyped, HolderPrepared
<1>3. lock = h /\ \A g \in Admins \ {h} : handler[g].at \notin {"persisting", "written", "tuning"}
  BY <1>1 DEF ConfigInv, LockHeld
<1>4. me.candidate.revision = store.revision
  BY <1>2, KeptDocument DEF ConfigInv, ConfigTyped
<1>5. /\ store \in Document /\ memory \in Document /\ memory.revision \in Nat
      /\ store.revision \in Nat /\ me.arg \in Nat /\ me.candidate.revision \in Nat
      /\ granted \subseteq Nat /\ \A g \in granted : g < memory.revision
  BY <1>2, ConfigurationAssumption
  DEF ConfigInv, ConfigTyped, RevisionsGrow, Document, HandlerType
<1>6. ASSUME NextStage(h) = "idle" PROVE ConfigInv'
  <2>1. handler' = Return(h) /\ lock' = NoLock
    BY <1>6 DEF Apply
  <2>2. \A g \in granted' : g < memory'.revision
    BY <1>1, <1>2, <1>5
  <2> QED
    BY <1>1, <1>2, <1>3, <1>4, <1>5, <2>1, <2>2, ReturnKeeps, ConfigServes
<1>7. ASSUME NextStage(h) # "idle" PROVE ConfigInv'
  <2>1. /\ handler' = [handler EXCEPT ![h].at = NextStage(h)]
        /\ lock' = IF NextStage(h) = "tuning" THEN lock ELSE NoLock
    BY <1>7 DEF Apply
  <2>2. \/ NextStage(h) = "tuning" /\ me.op = "settings"
        \/ NextStage(h) = "deleting"
    BY <1>7 DEF NextStage
  <2>3. /\ handler'[h] \in HandlerType /\ handler'[h].at = NextStage(h)
        /\ handler'[h].op = me.op /\ handler'[h].arg = me.arg
    BY <1>2, <2>1, <2>2 DEF ConfigInv, ConfigTyped, HandlerType, Stages
  <2>4. /\ handler' \in [Admins -> HandlerType]
        /\ \A g \in Admins \ {h} : handler'[g] = handler[g]
    BY <2>1, <2>3 DEF ConfigInv, ConfigTyped
  <2> HIDE DEF me
  <2>5. ConfigTyped'
    BY <1>1, <1>2, <2>2, <2>3, <2>4 DEF ConfigInv, ConfigTyped
  <2>6. LockHeld'
    BY <1>3, <2>1, <2>2, <2>3, <2>4 DEF LockHeld
  <2>7. HolderPrepared'
    BY <1>1, <1>2, <1>3, <1>5, <2>2, <2>3, <2>4 DEF HolderPrepared
  <2>8. RevisionsGrow'
    BY <1>1, <1>2, <1>4, <1>5 DEF ConfigInv, RevisionsGrow
  <2> QED
    BY <2>5, <2>6, <2>7, <2>8 DEF ConfigInv
<1> QED
  BY <1>1, <1>2, <1>6, <1>7

(* The last step of a settings update: the caller is answered.              *)
LEMMA TuneKeeps ==
  ASSUME ConfigInv, NEW h \in Admins, Tune(h)
  PROVE  ConfigInv'
<1>1. /\ handler[h].at = "tuning" /\ granted' = granted \cup {handler[h].arg}
      /\ twice' = (twice \/ handler[h].arg \in granted)
      /\ handler' = Return(h) /\ lock' = NoLock
      /\ UNCHANGED <<store, memory, issued>>
  BY DEF Tune
<1>2. handler[h].arg < memory.revision /\ handler[h].arg \notin granted /\ lock = h
  BY <1>1 DEF ConfigInv, HolderPrepared, LockHeld
<1>3. handler[h].arg \in Nat
  BY ConfigurationAssumption DEF ConfigInv, ConfigTyped, HandlerType
<1>4. twice' = FALSE /\ granted' \subseteq Nat /\ \A g \in granted' : g < memory.revision
  BY <1>1, <1>2, <1>3 DEF ConfigInv, RevisionsGrow
<1> QED
  BY <1>1, <1>2, <1>4, ReturnKeeps, ConfigServes

(* A restart serves what the store holds, and no handler survives it.       *)
LEMMA RestartKeeps ==
  ASSUME ConfigInv, RestartProcess
  PROVE  ConfigInv' /\ memory' = store /\ store' = store
<1>1. /\ memory' = store /\ handler' = [h \in Admins |-> Resting]
      /\ UNCHANGED <<store, issued, granted, twice>>
  BY DEF RestartProcess
<1>2. Resting \in HandlerType /\ Resting.at = "idle"
  BY ConfigurationAssumption DEF Resting, HandlerType, Stages
<1>3. ConfigTyped'
  BY <1>1, <1>2 DEF ConfigInv, ConfigTyped
<1>4. LockHeld' /\ HolderPrepared'
  BY <1>1, <1>2 DEF LockHeld, HolderPrepared
<1>5. \A g \in granted : g \in Nat /\ g < store.revision
  BY ConfigServes
<1>6. RevisionsGrow'
  BY <1>1, <1>5, ConfigServes DEF RevisionsGrow
<1> QED
  BY <1>1, <1>3, <1>4, <1>6 DEF ConfigInv

(* Each step keeps the invariant, and is a step of the register or one that *)
(* the register does not see: a write is recorded, a publication and a      *)
(* restart serve what is stored.                                            *)
LEMMA ConfigSteps ==
  ASSUME ConfigInv, [ConfigNext]_configVars
  PROVE  ConfigInv' /\ [Register!RegisterNext]_Register!registerVars
<1> USE DEF Register!RegisterNext, Register!Record, Register!Publish, Register!registerVars
<1>0. /\ store \in Document /\ memory \in Document
      /\ Kept(memory)' = Kept(memory') /\ Kept(store)' = Kept(store')
  BY ConfigServes
<1>1. ASSUME NEW h \in Admins, Call(h)
      PROVE  ConfigInv' /\ UNCHANGED <<memory, store>>
  BY <1>1, CallKeeps DEF Call
<1>2. ASSUME NEW h \in Admins, Prepare(h)
      PROVE  ConfigInv' /\ UNCHANGED <<memory, store>>
  BY <1>2, PrepareKeeps DEF Prepare
<1>3. ASSUME NEW h \in Admins, Persist(h)
      PROVE  ConfigInv' /\ Kept(store)' \in Document /\ Kept(memory)' = Kept(memory)
  BY <1>0, <1>3, PersistKeeps, KeptDocument
<1>4. ASSUME NEW h \in Admins, PersistFails(h)
      PROVE  ConfigInv' /\ UNCHANGED <<memory, store>>
  <2>1. /\ handler[h].at = "persisting" /\ handler' = Return(h) /\ lock' = NoLock
        /\ UNCHANGED <<store, memory, issued, granted, twice>>
    BY <1>4 DEF PersistFails
  <2>2. lock = h
    BY <2>1 DEF ConfigInv, LockHeld
  <2> QED BY <2>1, <2>2, ReturnKeeps, ConfigServes
<1>5. ASSUME NEW h \in Admins, Apply(h)
      PROVE  ConfigInv' /\ Kept(memory)' = Kept(store) /\ Kept(store)' = Kept(store)
  BY <1>0, <1>5, ApplyKeeps
<1>6. ASSUME NEW h \in Admins, Tune(h)
      PROVE  ConfigInv' /\ UNCHANGED <<memory, store>>
  BY <1>6, TuneKeeps DEF Tune
<1>7. ASSUME NEW h \in Admins, DeleteGroup(h)
      PROVE  ConfigInv' /\ Kept(memory)' = Kept(memory) /\ Kept(store)' = Kept(store)
  <2>1. /\ handler' = Return(h) /\ store' = [store EXCEPT !.bound = FALSE]
        /\ UNCHANGED <<memory, lock, issued, granted, twice>>
    BY <1>7 DEF DeleteGroup
  <2>2. store' \in Document /\ Kept(store') = Kept(store)
    BY <1>0, <2>1 DEF Document, Kept
  <2>3. ConfigInv'
    BY <2>1, <2>2, ReturnKeeps, ConfigServes
  <2> QED BY <1>0, <2>1, <2>2, <2>3
<1>8. ASSUME NEW h \in Admins, HangUp(h)
      PROVE  ConfigInv' /\ UNCHANGED <<memory, store>>
  <2>1. /\ handler' = Return(h) /\ lock' = IF lock = h THEN NoLock ELSE lock
        /\ UNCHANGED <<store, memory, issued, granted, twice>>
    BY <1>8 DEF HangUp
  <2> QED BY <2>1, ReturnKeeps, ConfigServes
<1>9. ASSUME RestartProcess
      PROVE  ConfigInv' /\ Kept(memory)' = Kept(store) /\ Kept(store)' = Kept(store)
  BY <1>0, <1>9, RestartKeeps
<1>10. ASSUME UNCHANGED configVars
       PROVE  ConfigInv' /\ UNCHANGED <<memory, store>>
  BY <1>10 DEF configVars, ConfigInv, ConfigTyped, LockHeld, HolderPrepared, RevisionsGrow
<1> QED
  BY <1>0, <1>1, <1>2, <1>3, <1>4, <1>5, <1>6, <1>7, <1>8, <1>9, <1>10 DEF ConfigNext

(* The invariant of the configuration's handlers.                           *)
LEMMA ConfigInvariant == ConfigSpec => []ConfigInv
<1>1. ConfigInv /\ [ConfigNext]_configVars => ConfigInv'
  BY ConfigSteps
<1> QED
  BY <1>1, ConfigStarts, PTL DEF ConfigSpec

(* For any number of administrators, operations and restarts, two           *)
(* acknowledged settings updates never started from the same revision       *)
(* (update_runtime_settings, mutate_persisted_state_inner): a page that saw *)
(* an old revision is refused, and an update that was stored and never      *)
(* published cannot make room for a second one.                             *)
THEOREM NoSettingsOverwritten == ConfigSpec => []SettingsNotOverwritten
<1>1. ConfigInv => SettingsNotOverwritten
  BY DEF ConfigInv, RevisionsGrow, SettingsNotOverwritten
<1> QED
  BY <1>1, ConfigInvariant, PTL

(* The handlers, the store and the restarts implement the register: the     *)
(* configuration requests are served from only ever becomes what the store  *)
(* holds (persist before publish, mutate_persisted_state_inner), whoever    *)
(* hangs up and whatever write fails.                                       *)
THEOREM StoreImplementsRegister == ConfigSpec => PersistBeforePublish
<1>1. ConfigInit => Register!RegisterInit
  <2> SUFFICES ASSUME ConfigInit PROVE Register!RegisterInit
    OBVIOUS
  <2>1. ConfigInv /\ memory = store
    BY ConfigStarts DEF ConfigInit
  <2> QED BY <2>1, ConfigServes, KeptDocument DEF Register!RegisterInit
<1>2. ConfigInv /\ [ConfigNext]_configVars => [Register!RegisterNext]_Register!registerVars
  BY ConfigSteps
<1> QED
  BY <1>1, <1>2, ConfigInvariant, PTL DEF ConfigSpec, PersistBeforePublish, Register!RegisterSpec

-----------------------------------------------------------------------------
(* PortalAccess.                                                            *)

PolicyType == [kind : {"absent", "direct", "portal"}, owner : Users \cup {NoUser},
               mode : Modes, group : Groups \cup {"deny-all"}]

AccessTyped ==
    /\ policy \in [AccessKeys -> PolicyType]
    /\ preview \in [fresh : BOOLEAN, owner : Users \cup {NoUser},
                    grants : SUBSET Groups, edit : BOOLEAN]
    /\ cut \subseteq AccessKeys
    /\ policy[Migrated].kind # "absent"

GrantsTyped == grants \in [Users -> SUBSET Groups] /\ groupEdit \in BOOLEAN

(* An id that was not given out yet is bound to nobody.                     *)
AbsentUnbound ==
    \A k \in AccessKeys :
        policy[k].kind = "absent" => policy[k].owner = NoUser /\ \A u \in Users : <<u, k>> \notin bindings

OwnedBoundByOwner ==
    \A k \in AccessKeys, u \in Users :
        policy[k].owner # NoUser /\ <<u, k>> \in bindings => u = policy[k].owner

(* A revoked or rotated key is denied, not merely without an owner: a       *)
(* binding or a grant that comes back does not open it.                     *)
CutDenied == \A k \in cut : policy[k].kind # "absent" /\ policy[k].mode = "deny"

(* A preview nobody wrote behind shows the owner the record still has.      *)
PreviewShowsOwner == preview.fresh => preview.owner = policy[Migrated].owner

(* While a migration transaction is open, what it has checked still holds:  *)
(* the owner, whom only access mutations change, and the group's contents.  *)
CheckedStands ==
    AccessLocked => /\ migrating.owner = policy[Migrated].owner /\ migrating.owner # NoUser
                    /\ migrating.edit = groupEdit

AccessInv ==
    /\ AccessTyped /\ GrantsTyped
    /\ AbsentUnbound /\ OwnedBoundByOwner /\ CutDenied /\ PreviewShowsOwner

(* After the start-up migration the invariant holds: the key in conflict    *)
(* has bindings and no owner.                                               *)
LEMMA AccessStarts == AccessInit => AccessInv
<1> SUFFICES ASSUME AccessInit PROVE AccessInv
  OBVIOUS
<1> USE AccessAssumption
<1>1. PICK u \in Users, direct \in SUBSET (AccessKeys \ {Migrated, Conflicted}) :
        /\ policy = [k \in AccessKeys |->
               IF k = Migrated THEN Denied(u)
               ELSE IF k = Conflicted THEN Denied(NoUser)
               ELSE IF k \in direct
                    THEN [kind |-> "direct", owner |-> NoUser, mode |-> "group", group |-> "team"]
               ELSE Absent]
        /\ bindings = {<<u, Migrated>>} \cup {<<v, Conflicted>> : v \in Users}
        /\ preview = NoPreview /\ cut = {}
  BY DEF AccessInit
<1>2. AccessTyped
  BY <1>1 DEF AccessTyped, PolicyType, Denied, Absent, NoPreview, Modes, Groups
<1>3. AbsentUnbound
  BY <1>1 DEF AbsentUnbound, Denied, Absent
<1>4. OwnedBoundByOwner
  BY <1>1 DEF OwnedBoundByOwner, Denied, Absent
<1>5. CutDenied /\ PreviewShowsOwner
  BY <1>1 DEF CutDenied, PreviewShowsOwner, NoPreview
<1>6. GrantsTyped
  BY DEF AccessInit, GrantsTyped
<1> QED
  BY <1>2, <1>3, <1>4, <1>5, <1>6 DEF AccessInv

(* A transaction that writes the policy of one key, with what it does to    *)
(* that key's bindings: the shape of every access mutation but rotation.    *)
LEMMA WriteKeeps ==
  ASSUME AccessInv, GrantsTyped', NEW k \in AccessKeys, NEW p \in PolicyType, Write(k, p),
         p.kind # "absent",
         NEW u \in Users,
         \/ bindings' = bindings /\ p.owner = policy[k].owner
         \/ bindings' = bindings \cup {<<u, k>>} /\ p.owner = u /\ BoundTo(k) \subseteq {u}
         \/ bindings' = bindings \ {<<u, k>>} /\ p.owner = NoUser,
         \/ cut' = cut \ {k}
         \/ cut' = cut /\ k \notin cut
         \/ cut' = cut \cup {k} /\ p.mode = "deny"
  PROVE  AccessInv'
<1>1. /\ policy' = [policy EXCEPT ![k] = p]
      /\ preview' = IF k = Migrated THEN [preview EXCEPT !.fresh = FALSE] ELSE preview
  BY DEF Write
<1>2. /\ policy'[k] = p /\ \A o \in AccessKeys \ {k} : policy'[o] = policy[o]
      /\ policy' \in [AccessKeys -> PolicyType]
  BY <1>1 DEF AccessInv, AccessTyped
<1>3. AccessTyped'
  BY <1>1, <1>2, AccessAssumption DEF AccessInv, AccessTyped
<1>4. AbsentUnbound'
  BY <1>2 DEF AccessInv, AbsentUnbound
<1>5. OwnedBoundByOwner'
  BY <1>2 DEF AccessInv, OwnedBoundByOwner, BoundTo
<1>6. CutDenied'
  BY <1>2 DEF AccessInv, AccessTyped, CutDenied
<1>7. PreviewShowsOwner'
  BY <1>1, <1>2, AccessAssumption DEF AccessInv, AccessTyped, PreviewShowsOwner
<1> QED
  BY <1>3, <1>4, <1>5, <1>6, <1>7 DEF AccessInv

(* A step that touches neither policies, bindings nor revocations.          *)
LEMMA AccessUntouched ==
  ASSUME AccessInv, GrantsTyped', UNCHANGED <<policy, bindings, cut>>,
         \/ preview' = preview
         \/ /\ preview' \in [fresh : BOOLEAN, owner : Users \cup {NoUser},
                             grants : SUBSET Groups, edit : BOOLEAN]
            /\ preview'.owner = policy[Migrated].owner
  PROVE  AccessInv'
BY DEF AccessInv, AccessTyped, AbsentUnbound, OwnedBoundByOwner, CutDenied, PreviewShowsOwner

(* What the invariant says of one key's policy.                             *)
LEMMA PolicyFields ==
  ASSUME AccessInv, NEW k \in AccessKeys
  PROVE  policy[k] \in PolicyType
BY DEF AccessInv, AccessTyped

(* A selection names a mode and a group of the policy's types.              *)
LEMMA SelectionFields ==
  ASSUME NEW s \in Selections
  PROVE  s.mode \in Modes /\ s.group \in Groups \cup {"deny-all"}
BY DEF Selections, Modes, Groups

(* A new access selection for a key, by its owner or by an administrator.   *)
LEMMA UpdateKeeps ==
  ASSUME AccessInv, NEW actor, NEW k \in AccessKeys, NEW s \in Selections, Update(actor, k, s),
         NEW u \in Users
  PROVE  AccessInv' /\ resolved' = resolved
<1> DEFINE p == [policy[k] EXCEPT !.mode = s.mode, !.group = s.group]
<1>1. p \in PolicyType /\ p.kind = policy[k].kind /\ p.owner = policy[k].owner
  BY PolicyFields, SelectionFields DEF PolicyType
<1>2. /\ policy[k].kind # "absent" /\ Write(k, p) /\ cut' = cut \ {k}
      /\ UNCHANGED <<bindings, grants, groupEdit, resolved>>
  BY DEF Update
<1>3. GrantsTyped'
  BY <1>2 DEF AccessInv, GrantsTyped
<1> HIDE DEF p
<1> QED
  BY <1>1, <1>2, <1>3, WriteKeeps

(* A portal user creates a key under an id that was not given out.          *)
LEMMA CreateKeeps ==
  ASSUME AccessInv, NEW u \in Users, NEW k \in AccessKeys, NEW s \in Selections,
         CreatePortal(u, k, s)
  PROVE  AccessInv' /\ resolved' = resolved
<1> DEFINE p == [kind |-> "portal", owner |-> u, mode |-> s.mode, group |-> s.group]
<1>1. p \in PolicyType /\ p.kind = "portal" /\ p.owner = u
  BY SelectionFields DEF PolicyType
<1>2. /\ policy[k] = Absent /\ Write(k, p) /\ cut' = cut
      /\ bindings' = bindings \cup {<<u, k>>}
      /\ UNCHANGED <<grants, groupEdit, resolved>>
  BY DEF CreatePortal, SetBinding
<1>3. policy[k].kind = "absent"
  BY <1>2 DEF Absent
<1>4. BoundTo(k) \subseteq {u} /\ k \notin cut
  BY <1>3 DEF AccessInv, AbsentUnbound, BoundTo, CutDenied
<1>5. GrantsTyped'
  BY <1>2 DEF AccessInv, GrantsTyped
<1> HIDE DEF p
<1> QED
  BY <1>1, <1>2, <1>4, <1>5, WriteKeeps

(* A key without another owner or another user is bound to a user.          *)
LEMMA BindKeeps ==
  ASSUME AccessInv, NEW u \in Users, NEW k \in AccessKeys, NEW mark,
         NEW selection \in {{}} \cup {{s} : s \in Selections}, Bind(k, u, mark, selection)
  PROVE  AccessInv' /\ resolved' = resolved
<1> DEFINE p == [policy[k] EXCEPT !.kind = "portal", !.owner = u]
           q == IF selection = {} THEN p
                ELSE LET s == CHOOSE s \in selection : TRUE
                     IN [p EXCEPT !.mode = s.mode, !.group = s.group]
<1>1. p \in PolicyType /\ p.kind = "portal" /\ p.owner = u
  BY PolicyFields DEF PolicyType
<1>2. q \in PolicyType /\ q.kind = "portal" /\ q.owner = u
  <2>1. CASE selection = {}
    BY <1>1, <2>1
  <2>2. CASE selection # {}
    <3>1. PICK s \in Selections : s = CHOOSE x \in selection : TRUE
      BY <2>2
    <3>2. q = [p EXCEPT !.mode = s.mode, !.group = s.group]
      BY <2>2, <3>1
    <3> HIDE DEF p, q
    <3> QED BY <1>1, <3>1, <3>2, SelectionFields DEF PolicyType
  <2> QED BY <2>1, <2>2
<1>3. /\ ~BindRefused(k, u) /\ Write(k, q) /\ cut' = cut \ {k}
      /\ bindings' = bindings \cup {<<u, k>>}
      /\ UNCHANGED <<grants, groupEdit, resolved>>
  BY DEF Bind, SetBinding
<1>4. BoundTo(k) \subseteq {u}
  BY <1>3 DEF BindRefused
<1>5. GrantsTyped'
  BY <1>3 DEF AccessInv, GrantsTyped
<1> HIDE DEF q
<1> QED
  BY <1>2, <1>3, <1>4, <1>5, WriteKeeps

(* The first portal use of a bearer key.                                    *)
LEMMA EnsureKeeps ==
  ASSUME AccessInv, NEW u \in Users, NEW k \in AccessKeys, EnsureUser(k, u)
  PROVE  AccessInv' /\ resolved' = resolved
<1> DEFINE p == [policy[k] EXCEPT !.kind = "portal", !.owner = u]
<1>1. p \in PolicyType /\ p.kind = "portal" /\ p.owner = u
  BY PolicyFields DEF PolicyType
<1>2. /\ ~BindRefused(k, u) /\ Write(k, p) /\ cut' = cut \ {k}
      /\ bindings' = bindings \cup {<<u, k>>}
      /\ UNCHANGED <<groupEdit, resolved>>
      /\ grants' = [grants EXCEPT ![u] =
           IF policy[k].mode = "group" /\ policy[k].group # "deny-all"
           THEN @ \cup ({policy[k].group} \ {"basic"}) ELSE @]
  BY DEF EnsureUser, SetBinding
<1>3. BoundTo(k) \subseteq {u}
  BY <1>2 DEF BindRefused
<1>4. GrantsTyped'
  <2>1. policy[k].group # "deny-all" => policy[k].group \in Groups
    BY PolicyFields DEF PolicyType
  <2> QED BY <1>2, <2>1 DEF AccessInv, GrantsTyped
<1> HIDE DEF p
<1> QED
  BY <1>1, <1>2, <1>3, <1>4, WriteKeeps

(* A revoked key is denied and loses its owner.                             *)
LEMMA UnbindKeeps ==
  ASSUME AccessInv, NEW u \in Users, NEW k \in AccessKeys, Unbind(k, u)
  PROVE  AccessInv' /\ resolved' = resolved
<1>1. Denied(NoUser) \in PolicyType /\ Denied(NoUser).kind = "portal"
      /\ Denied(NoUser).owner = NoUser /\ Denied(NoUser).mode = "deny"
  BY DEF Denied, PolicyType, Modes
<1>2. /\ Write(k, Denied(NoUser)) /\ cut' = cut \cup {k} /\ bindings' = bindings \ {<<u, k>>}
      /\ UNCHANGED <<grants, groupEdit, resolved>>
  BY DEF Unbind
<1>3. GrantsTyped'
  BY <1>2 DEF AccessInv, GrantsTyped
<1> QED
  BY <1>1, <1>2, <1>3, WriteKeeps

(* The default mark moves; the owner is bound to the key he owns.           *)
LEMMA DefaultKeeps ==
  ASSUME AccessInv, NEW u \in Users, NEW k \in AccessKeys, policy[k].kind # "absent",
         SetDefault(k, u)
  PROVE  AccessInv' /\ resolved' = resolved
<1>1. /\ policy[k].owner = u /\ bindings' = bindings \cup {<<u, k>>}
      /\ UNCHANGED <<policy, preview, cut, grants, groupEdit, resolved>>
  BY DEF SetDefault, SetBinding
<1>2. AbsentUnbound'
  BY <1>1 DEF AccessInv, AbsentUnbound
<1>3. OwnedBoundByOwner'
  BY <1>1 DEF AccessInv, OwnedBoundByOwner
<1> QED
  BY <1>1, <1>2, <1>3 DEF AccessInv, AccessTyped, GrantsTyped, CutDenied, PreviewShowsOwner

(* Rotation: the new key takes everything over, the old one is denied.      *)
LEMMA RotateKeeps ==
  ASSUME AccessInv, NEW u \in Users, NEW old \in AccessKeys, NEW new \in AccessKeys,
         RotatePortal(old, new, u)
  PROVE  AccessInv' /\ resolved' = resolved
<1> DEFINE p == [policy[old] EXCEPT !.kind = "portal"]
           q == RotatedOut(policy[old])
<1>1. /\ policy[old].kind # "absent" /\ policy[new] = Absent /\ policy[old].owner = u
      /\ policy' = [policy EXCEPT ![new] = p, ![old] = q]
      /\ preview' = IF old = Migrated THEN [preview EXCEPT !.fresh = FALSE] ELSE preview
      /\ bindings' = (bindings \ {<<u, old>>}) \cup {<<u, new>>}
      /\ cut' = cut \cup {old}
      /\ UNCHANGED <<grants, groupEdit, resolved>>
  BY DEF RotatePortal
<1>2. policy[new].kind = "absent" /\ old # new /\ new # Migrated /\ new \notin cut
  BY <1>1 DEF Absent, AccessInv, AccessTyped, CutDenied
<1>3. /\ p \in PolicyType /\ p.kind = "portal" /\ p.owner = u
      /\ q \in PolicyType /\ q.kind = policy[old].kind /\ q.owner = u /\ q.mode = "deny"
  <2>1. policy[old] \in PolicyType /\ policy[old].owner = u
    BY <1>1, PolicyFields
  <2>2. p \in PolicyType /\ p.kind = "portal" /\ p.owner = u
    BY <2>1 DEF PolicyType
  <2>3. q \in PolicyType /\ q.kind = policy[old].kind /\ q.owner = u /\ q.mode = "deny"
    BY <2>1 DEF PolicyType, RotatedOut, Modes
  <2> QED BY <2>2, <2>3
<1> HIDE DEF p, q
<1>4. /\ policy' \in [AccessKeys -> PolicyType]
      /\ policy'[new] = p /\ policy'[old] = q
      /\ \A o \in AccessKeys \ {old, new} : policy'[o] = policy[o]
  BY <1>1, <1>2, <1>3 DEF AccessInv, AccessTyped
<1>5. AccessTyped' /\ GrantsTyped'
  BY <1>1, <1>2, <1>3, <1>4, AccessAssumption DEF AccessInv, AccessTyped, GrantsTyped
<1>6. AbsentUnbound'
  BY <1>1, <1>2, <1>3, <1>4 DEF AccessInv, AbsentUnbound
<1>7. OwnedBoundByOwner'
  BY <1>1, <1>2, <1>3, <1>4 DEF AccessInv, AbsentUnbound, OwnedBoundByOwner
<1>8. CutDenied'
  BY <1>1, <1>2, <1>3, <1>4 DEF AccessInv, AccessTyped, CutDenied
<1>9. PreviewShowsOwner'
  BY <1>1, <1>2, <1>3, <1>4, AccessAssumption DEF AccessInv, AccessTyped, PreviewShowsOwner
<1> QED
  BY <1>1, <1>5, <1>6, <1>7, <1>8, <1>9 DEF AccessInv

(* The check of a migration looks at the preview and opens the transaction. *)
LEMMA CheckKeeps ==
  ASSUME AccessInv, CheckMigration
  PROVE  AccessInv' /\ CheckedStands' /\ resolved' = resolved
<1>1. /\ preview.fresh /\ policy[Migrated].owner # NoUser /\ preview.edit = groupEdit
      /\ migrating' = preview
      /\ UNCHANGED <<policy, bindings, grants, groupEdit, resolved, preview, cut>>
  BY DEF CheckMigration
<1>2. GrantsTyped'
  BY <1>1 DEF AccessInv, GrantsTyped
<1>3. AccessInv'
  BY <1>1, <1>2, AccessUntouched
<1>4. CheckedStands'
  BY <1>1 DEF CheckedStands, AccessLocked, AccessInv, PreviewShowsOwner
<1> QED
  BY <1>1, <1>3, <1>4

(* The commit of a migration: its owner is granted the group.               *)
LEMMA MigrationKeeps ==
  ASSUME AccessInv, CheckedStands, CommitMigration
  PROVE  AccessInv' /\ CheckedStands'
<1> DEFINE u == policy[Migrated].owner
           p == [policy[Migrated] EXCEPT !.mode = "inherit", !.group = "deny-all"]
<1>1. policy[Migrated] \in PolicyType /\ policy[Migrated].kind # "absent"
  BY AccessAssumption DEF AccessInv, AccessTyped
<1>2. u \in Users
  BY <1>1 DEF PolicyType, CommitMigration, CheckedStands
<1>3. p \in PolicyType /\ p.kind = policy[Migrated].kind /\ p.owner = u
  BY <1>1 DEF PolicyType, Modes
<1>4. /\ \/ grants' = [grants EXCEPT ![u] = @ \cup {"team"}]
         \/ UNCHANGED grants
      /\ \/ Write(Migrated, p) /\ cut' = cut \ {Migrated}
         \/ UNCHANGED <<policy, preview, cut>>
      /\ UNCHANGED <<bindings, groupEdit>> /\ migrating' = NoPreview
  BY DEF CommitMigration
<1>5. GrantsTyped'
  BY <1>2, <1>4 DEF AccessInv, GrantsTyped, Groups
<1> HIDE DEF p
<1>6. ASSUME Write(Migrated, p), cut' = cut \ {Migrated} PROVE AccessInv'
  BY <1>1, <1>2, <1>3, <1>4, <1>5, <1>6, WriteKeeps, AccessAssumption
<1>7. ASSUME UNCHANGED <<policy, preview, cut>> PROVE AccessInv'
  BY <1>4, <1>5, <1>7, AccessUntouched
<1>8. CheckedStands'
  BY <1>4 DEF CheckedStands, AccessLocked, NoPreview
<1> QED
  BY <1>4, <1>6, <1>7, <1>8

(* The access mutations: each leaves the migration alone.                   *)
LEMMA MutationKeeps ==
  ASSUME AccessInv, NEW u \in Users, NEW k \in AccessKeys,
         \/ \E s \in Selections : \/ PortalCreate(u, k, s) \/ PortalUpdate(u, k, s)
                                   \/ AdminUpdate(k, s) \/ AdminBind(u, k, {s})
         \/ AdminBind(u, k, {}) \/ AdminUnbind(u, k) \/ LoginBind(u, k)
         \/ EnsureUser(k, u) \/ PortalDefault(u, k) \/ PortalDelete(u, k)
         \/ \E new \in AccessKeys : PortalRotate(u, k, new)
  PROVE  AccessInv' /\ resolved' = resolved /\ migrating' = migrating
<1>1. ASSUME NEW s \in Selections,
             \/ PortalCreate(u, k, s) \/ PortalUpdate(u, k, s)
             \/ AdminUpdate(k, s) \/ AdminBind(u, k, {s})
      PROVE  AccessInv' /\ resolved' = resolved /\ migrating' = migrating
  <2>1. AccessInv' /\ resolved' = resolved
    BY <1>1, CreateKeeps, UpdateKeeps, BindKeeps
    DEF PortalCreate, PortalUpdate, AdminUpdate, AdminBind
  <2>2. migrating' = migrating
    BY <1>1 DEF PortalCreate, PortalUpdate, AdminUpdate, AdminBind, CreatePortal, Update, Bind
  <2> QED BY <2>1, <2>2
<1>2. ASSUME \/ AdminBind(u, k, {}) \/ AdminUnbind(u, k) \/ LoginBind(u, k)
             \/ EnsureUser(k, u) \/ PortalDefault(u, k) \/ PortalDelete(u, k)
      PROVE  AccessInv' /\ resolved' = resolved /\ migrating' = migrating
  <2>1. AccessInv' /\ resolved' = resolved
    BY <1>2, BindKeeps, UnbindKeeps, EnsureKeeps, DefaultKeeps
    DEF AdminBind, AdminUnbind, LoginBind, PortalDefault, PortalDelete
  <2>2. migrating' = migrating
    BY <1>2 DEF AdminBind, AdminUnbind, LoginBind, EnsureUser, PortalDefault, PortalDelete,
                Bind, Unbind, SetDefault
  <2> QED BY <2>1, <2>2
<1>3. ASSUME NEW new \in AccessKeys, PortalRotate(u, k, new)
      PROVE  AccessInv' /\ resolved' = resolved /\ migrating' = migrating
  BY <1>3, RotateKeeps DEF PortalRotate, RotatePortal
<1> QED
  BY <1>1, <1>2, <1>3

(* Every transaction keeps the invariant, and only the one that applies the *)
(* migration resolves it.                                                   *)
LEMMA AccessSteps ==
  ASSUME AccessInv, CheckedStands, [AccessNext]_accessVars
  PROVE  /\ AccessInv' /\ CheckedStands'
         /\ resolved' # resolved =>
              /\ migrating.owner = policy[Migrated].owner
              /\ migrating.edit = groupEdit
<1>1. ASSUME ~AccessLocked, NEW u \in Users, NEW k \in AccessKeys,
             \/ \E s \in Selections : \/ PortalCreate(u, k, s) \/ PortalUpdate(u, k, s)
                                       \/ AdminUpdate(k, s) \/ AdminBind(u, k, {s})
             \/ AdminBind(u, k, {}) \/ AdminUnbind(u, k) \/ LoginBind(u, k)
             \/ EnsureUser(k, u) \/ PortalDefault(u, k) \/ PortalDelete(u, k)
             \/ \E new \in AccessKeys : PortalRotate(u, k, new)
      PROVE  AccessInv' /\ CheckedStands' /\ resolved' = resolved
  <2>1. AccessInv' /\ resolved' = resolved /\ migrating' = migrating
    BY <1>1, MutationKeeps
  <2> QED BY <1>1, <2>1 DEF CheckedStands, AccessLocked
<1>2. ASSUME \/ \E u \in Users :
                   \/ \E gs \in SUBSET {"team"} : ReplaceGrants(u, gs)
                   \/ CheckLogin(u) \/ OpenSession(u) \/ Logout(u)
                   \/ \E d \in BOOLEAN : SetDisabled(u, d)
             \/ UNCHANGED accessVars
      PROVE  AccessInv' /\ CheckedStands' /\ resolved' = resolved
  <2>1. UNCHANGED <<policy, bindings, cut, preview, groupEdit, resolved, migrating>>
    BY <1>2 DEF ReplaceGrants, CheckLogin, OpenSession, Logout, SetDisabled, accessVars
  <2>2. GrantsTyped'
    BY <1>2, <2>1
    DEF ReplaceGrants, CheckLogin, OpenSession, Logout, SetDisabled, accessVars, AccessInv, GrantsTyped, Groups
  <2> QED BY <2>1, <2>2, AccessUntouched DEF CheckedStands, AccessLocked
<1>3. ASSUME ~AccessLocked, EditGroup PROVE AccessInv' /\ CheckedStands' /\ resolved' = resolved
  <2>1. GrantsTyped'
    BY <1>3 DEF EditGroup, AccessInv, GrantsTyped
  <2> QED BY <1>3, <2>1, AccessUntouched DEF EditGroup, CheckedStands, AccessLocked
<1>4. ASSUME PreviewMigration PROVE AccessInv' /\ CheckedStands' /\ resolved' = resolved
  <2>1. policy[Migrated].owner \in Users \cup {NoUser}
    BY AccessAssumption DEF AccessInv, AccessTyped, PolicyType
  <2>2. /\ UNCHANGED <<policy, bindings, cut, grants, groupEdit, resolved, migrating>>
        /\ preview' = [fresh |-> TRUE, owner |-> policy[Migrated].owner, edit |-> groupEdit,
                       grants |-> IF policy[Migrated].owner = NoUser THEN {}
                                  ELSE grants[policy[Migrated].owner]]
    BY <1>4 DEF PreviewMigration
  <2>3. GrantsTyped'
    BY <2>2 DEF AccessInv, GrantsTyped
  <2>4. /\ preview' \in [fresh : BOOLEAN, owner : Users \cup {NoUser},
                         grants : SUBSET Groups, edit : BOOLEAN]
        /\ preview'.owner = policy[Migrated].owner
    BY <2>1, <2>2 DEF AccessInv, GrantsTyped
  <2>5. AccessInv'
    BY <2>2, <2>3, <2>4, AccessUntouched
  <2> QED BY <2>2, <2>5 DEF CheckedStands, AccessLocked
<1>5. ASSUME CommitMigration
      PROVE  /\ AccessInv' /\ CheckedStands'
             /\ migrating.owner = policy[Migrated].owner /\ migrating.edit = groupEdit
  BY <1>5, MigrationKeeps DEF CommitMigration, CheckedStands
<1> QED
  BY <1>1, <1>2, <1>3, <1>4, <1>5, CheckKeeps DEF AccessNext, AccessStep

(* For any users, keys and transactions: a revoked or rotated key opens     *)
(* nothing until somebody entitled gives it access again, an owned key is   *)
(* bound to its owner alone, and a migration is applied to the owner and    *)
(* the group contents its preview showed, although the owner is in no       *)
(* fingerprint and grants, logins and disablings commit while it is open    *)
(* (the access mutations and apply_access_migration_one).                   *)
THEOREM AccessKept == AccessSpec => AccessPromise
<1>1. AccessInv => RevokedKeyOpensNothing /\ OwnerBindsAlone
  <2> SUFFICES ASSUME AccessInv PROVE RevokedKeyOpensNothing /\ OwnerBindsAlone
    OBVIOUS
  <2>1. ASSUME NEW k \in cut PROVE Effective(k) = {}
    BY <2>1 DEF AccessInv, CutDenied, Effective
  <2>2. OwnerBindsAlone
    BY DEF AccessInv, OwnedBoundByOwner, OwnerBindsAlone, BoundTo
  <2> QED BY <2>1, <2>2 DEF RevokedKeyOpensNothing
<1>2. AccessInv /\ CheckedStands /\ [AccessNext]_accessVars => AccessInv' /\ CheckedStands'
  BY AccessSteps
<1>3. AccessInv /\ CheckedStands /\ [AccessNext]_accessVars
        => [resolved' /\ ~resolved => /\ migrating.owner = policy[Migrated].owner
                                      /\ migrating.edit = groupEdit]_accessVars
  BY AccessSteps
<1>4. AccessInit => CheckedStands
  BY DEF AccessInit, CheckedStands, AccessLocked, NoPreview
<1> QED
  BY <1>1, <1>2, <1>3, <1>4, AccessStarts, PTL DEF AccessSpec, AccessPromise, MigrationAsPreviewed

-----------------------------------------------------------------------------
(* ModelQualification.                                                      *)

QualAnswers == Settled \cup Rejections \cup {"waiting"}

RunType == [at : {"idle", "probing", "decided", "storing", "checked", "stored"},
            before : [UpKeys -> SUBSET UpModels], keys : SUBSET UpKeys,
            probes : [Tuples -> QualAnswers], retained : [UpKeys -> SUBSET UpModels],
            excluded : SUBSET UpModels]

QualTyped ==
    /\ qual \in RunType
    /\ ring \subseteq UpKeys
    /\ listed \in [UpKeys -> SUBSET UpModels]
    /\ listedStored \in [UpKeys -> SUBSET UpModels]

(* The bindings the transaction counted stand until it commits.             *)
CountStands == portal /\ qual.at = "checked" => ~(BoundToOwn > 1)

QualInv == QualTyped /\ GivenUpOnEvidence /\ OtherKeysKeepLimits /\ CountStands

(* No run: nothing was tried, nothing is given up.                          *)
LEMMA NoRunTyped == NoRun \in RunType /\ NoRun.at = "idle"
BY DEF NoRun, RunType, QualAnswers, Settled

(* confirmed_level over the protocols (build_key_qualification_decision): a *)
(* model is unusable for a key only if both tries were rejected for the     *)
(* same reason on every protocol.                                           *)
LEMMA UnusableOnEvidence ==
  ASSUME NEW k, NEW mdl, KeyLevel(k, mdl) = "unusable"
  PROVE  \A p \in QualProtocols : qual.probes[<<k, mdl, p>>] = "same"
<1> DEFINE over == {LevelOf(qual.probes[<<k, mdl, p>>]) : p \in QualProtocols}
<1>1. "usable" \notin over /\ "operational" \notin over
  BY DEF KeyLevel
<1>2. ASSUME NEW p \in QualProtocols
      PROVE  qual.probes[<<k, mdl, p>>] = "same"
  <2>1. LevelOf(qual.probes[<<k, mdl, p>>]) \in over
    OBVIOUS
  <2>2. LevelOf(qual.probes[<<k, mdl, p>>]) \notin {"usable", "operational"}
    BY <1>1, <2>1
  <2> QED BY <2>2 DEF LevelOf
<1> QED
  BY <1>2

(* What a decision gives up of a key's list was rejected on every protocol. *)
LEMMA RetainedOnEvidence ==
  ASSUME NEW k, NEW mdl \in qual.before[k], mdl \notin RetainedBy(k)
  PROVE  \A p \in QualProtocols : qual.probes[<<k, mdl, p>>] = "same"
<1>1. KeyLevel(k, mdl) = "unusable"
  BY DEF RetainedBy
<1> QED
  BY <1>1, UnusableOnEvidence

(* Deciding on the answers of a run.                                        *)
LEMMA DecideKeeps ==
  ASSUME QualInv, Decide
  PROVE  QualInv'
<1>0. UNCHANGED <<ring, listed, listedStored, broadened>>
  BY DEF Decide
<1>1. CASE qual' = NoRun
  BY <1>0, <1>1, NoRunTyped DEF QualInv, QualTyped, GivenUpOnEvidence, OtherKeysKeepLimits, CountStands
<1>2. ASSUME NEW excluded \in SUBSET UpModels,
             qual' = [qual EXCEPT !.at = "decided", !.excluded = excluded,
                      !.retained = [k \in UpKeys |->
                          IF k \in qual.keys THEN RetainedBy(k) \ excluded ELSE {}]]
      PROVE  QualInv'
  <2> DEFINE kept == [k \in UpKeys |-> IF k \in qual.keys THEN RetainedBy(k) \ excluded ELSE {}]
  <2>1. qual \in RunType
    BY DEF QualInv, QualTyped
  <2>2. kept \in [UpKeys -> SUBSET UpModels]
    BY <2>1 DEF RunType, RetainedBy, Tried
  <2>3. \A k \in qual.keys : kept[k] = RetainedBy(k) \ excluded
    BY <2>1 DEF RunType
  <2> HIDE DEF kept
  <2>4. /\ qual' \in RunType /\ qual'.retained = kept /\ qual'.excluded = excluded
        /\ qual'.before = qual.before /\ qual'.keys = qual.keys /\ qual'.probes = qual.probes
        /\ qual'.at = "decided"
    BY <1>2, <2>1, <2>2 DEF RunType, kept
  <2>5. QualTyped'
    BY <1>0, <2>4 DEF QualInv, QualTyped
  <2>6. GivenUpOnEvidence'
    <3> SUFFICES ASSUME NEW k \in qual.keys, NEW mdl \in qual.before[k], mdl \notin kept[k],
                        mdl \notin excluded
                 PROVE  \A p \in QualProtocols : qual.probes[<<k, mdl, p>>] = "same"
      BY <2>4 DEF GivenUpOnEvidence
    <3>1. mdl \notin RetainedBy(k)
      BY <2>3
    <3> QED BY <3>1, RetainedOnEvidence
  <2> QED BY <1>0, <2>4, <2>5, <2>6 DEF QualInv, OtherKeysKeepLimits, CountStands
<1> QED
  BY <1>1, <1>2 DEF Decide

(* Each step of a run, and each edit behind its back.                       *)
LEMMA QualSteps ==
  ASSUME QualInv, [QualNext]_qualVars
  PROVE  QualInv'
<1>0. qual \in RunType
  BY DEF QualInv, QualTyped
<1>1. CASE StartRun
  <2>1. PICK found \in [ring -> SUBSET UpModels] :
          qual' = [NoRun EXCEPT !.at = "probing", !.keys = ring, !.before = listed,
                   !.probes = [t \in Tuples |->
                       IF t[1] \in ring /\ t[2] \in listed[t[1]] \cup found[t[1]]
                       THEN "waiting" ELSE "unwanted"]]
    BY <1>1 DEF StartRun
  <2>2. qual' \in RunType /\ qual'.at = "probing"
    BY <2>1, NoRunTyped DEF QualInv, QualTyped, RunType, QualAnswers, Settled
  <2> QED BY <1>1, <2>2 DEF StartRun, QualInv, QualTyped, GivenUpOnEvidence, OtherKeysKeepLimits, CountStands
<1>2. CASE Decide
  BY <1>2, DecideKeeps
<1>3. CASE BeginApply
  <2>1. CASE qual' = NoRun
    BY <1>3, <2>1, NoRunTyped DEF BeginApply, QualInv, QualTyped, GivenUpOnEvidence, OtherKeysKeepLimits, CountStands
  <2>2. CASE qual' = [qual EXCEPT !.at = "storing"]
    <3>1. /\ qual' \in RunType /\ qual'.retained = qual.retained /\ qual'.excluded = qual.excluded
          /\ qual'.before = qual.before /\ qual'.keys = qual.keys /\ qual'.probes = qual.probes
          /\ qual.at = "decided" /\ qual'.at = "storing"
      BY <1>0, <1>3, <2>2 DEF RunType, BeginApply
    <3> QED BY <1>3, <3>1 DEF BeginApply, QualInv, QualTyped, GivenUpOnEvidence, OtherKeysKeepLimits, CountStands
  <2> QED BY <1>3, <2>1, <2>2 DEF BeginApply
<1>4. CASE CheckRun
  <2>1. CASE qual' = NoRun
    BY <1>4, <2>1, NoRunTyped DEF CheckRun, QualInv, QualTyped, GivenUpOnEvidence, OtherKeysKeepLimits, CountStands
  <2>2. CASE ~TransactionRefused /\ qual' = [qual EXCEPT !.at = "checked"]
    <3>1. /\ qual' \in RunType /\ qual'.retained = qual.retained /\ qual'.excluded = qual.excluded
          /\ qual'.before = qual.before /\ qual'.keys = qual.keys /\ qual'.probes = qual.probes
          /\ qual.at = "storing"
      BY <1>0, <1>4, <2>2 DEF RunType, CheckRun
    <3>2. CountStands'
      BY <1>4, <2>2 DEF CheckRun, CountStands, TransactionRefused, BoundToOwn
    <3> QED BY <1>4, <3>1, <3>2 DEF CheckRun, QualInv, QualTyped, GivenUpOnEvidence, OtherKeysKeepLimits
  <2> QED BY <1>4, <2>1, <2>2 DEF CheckRun
<1>11. CASE CommitRun
  <2>1. CASE qual' = NoRun /\ UNCHANGED <<listedStored, groupModels, broadened, lapsed>>
    BY <1>11, <2>1, NoRunTyped DEF CommitRun, QualInv, QualTyped, GivenUpOnEvidence, OtherKeysKeepLimits, CountStands
  <2>2. CASE /\ listedStored' = [k \in UpKeys |-> IF k \in ring THEN qual.retained[k] ELSE {}]
             /\ broadened' = IF portal THEN broadened \cup OthersLimited ELSE broadened
             /\ qual' = [qual EXCEPT !.at = "stored"]
    <3>1. /\ qual' \in RunType /\ qual'.retained = qual.retained /\ qual'.excluded = qual.excluded
          /\ qual'.before = qual.before /\ qual'.keys = qual.keys /\ qual'.probes = qual.probes
          /\ qual.at = "checked" /\ qual'.at = "stored"
      BY <1>0, <1>11, <2>2 DEF RunType, CommitRun
    <3>2. OtherKeysKeepLimits'
      <4>1. portal => ~(BoundToOwn > 1)
        BY <3>1 DEF QualInv, CountStands
      <4>2. portal => "key" \notin OthersLimited
        BY <4>1 DEF OthersLimited
      <4> QED BY <2>2, <4>2 DEF QualInv, OtherKeysKeepLimits
    <3>3. listedStored' \in [UpKeys -> SUBSET UpModels]
      BY <1>0, <2>2 DEF RunType
    <3>4. GivenUpOnEvidence' /\ CountStands'
      BY <3>1 DEF QualInv, GivenUpOnEvidence, CountStands
    <3> QED BY <1>11, <3>1, <3>2, <3>3, <3>4 DEF CommitRun, QualInv, QualTyped
  <2> QED BY <1>11, <2>1, <2>2 DEF CommitRun
<1>5. CASE PublishRun
  BY <1>5, NoRunTyped DEF PublishRun, QualInv, QualTyped, GivenUpOnEvidence, OtherKeysKeepLimits, CountStands
<1>6. CASE AbandonRun
  BY <1>6, NoRunTyped DEF AbandonRun, QualInv, QualTyped, GivenUpOnEvidence, OtherKeysKeepLimits, CountStands
<1>7. ASSUME NEW t \in Tuples, Probed(t) PROVE QualInv'
  <2>1. PICK a \in QualAnswers : qual' = [qual EXCEPT !.probes[t] = a]
    BY <1>7 DEF Probed, Trials, Both, QualAnswers, Settled, Rejections
  <2>2. qual' \in RunType /\ qual'.at = qual.at /\ qual.at = "probing"
    BY <1>0, <1>7, <2>1 DEF Probed, RunType
  <2> QED BY <1>7, <2>2 DEF Probed, QualInv, QualTyped, GivenUpOnEvidence, OtherKeysKeepLimits, CountStands
<1>8. ASSUME NEW k \in UpKeys, EditKey(k) PROVE QualInv'
  <2>1. ring' \subseteq UpKeys /\ listed' \in [UpKeys -> SUBSET UpModels] /\ listedStored' = listed'
    BY <1>8 DEF EditKey, QualInv, QualTyped
  <2>2. CountStands'
    BY <1>8 DEF EditKey, QualInv, CountStands, BoundToOwn
  <2> QED BY <1>8, <2>1, <2>2 DEF EditKey, QualInv, QualTyped, GivenUpOnEvidence, OtherKeysKeepLimits
<1>9. CASE EditBinding
  <2>1. UNCHANGED <<portal, ring, listed, listedStored, qual, broadened>>
    BY <1>9 DEF EditBinding
  <2>2. CountStands'
    <3>1. CASE portal /\ qual.at = "checked"
      <4>1. UNCHANGED binding
        BY <1>9, <3>1 DEF EditBinding
      <4> QED BY <2>1, <4>1 DEF QualInv, CountStands, BoundToOwn
    <3> QED BY <2>1, <3>1 DEF CountStands
  <2> QED BY <2>1, <2>2 DEF QualInv, QualTyped, GivenUpOnEvidence, OtherKeysKeepLimits
<1>10. CASE UNCHANGED qualVars
  BY <1>10 DEF qualVars, QualInv, QualTyped, GivenUpOnEvidence, OtherKeysKeepLimits, CountStands, BoundToOwn
<1> QED
  BY <1>1, <1>2, <1>3, <1>4, <1>5, <1>6, <1>7, <1>8, <1>9, <1>10, <1>11 DEF QualNext

(* For any keys, models and protocols, and whatever others edit while a run *)
(* probes and stores: of the lists the run started from, a model is given   *)
(* up only when the administrator excluded it or it was rejected twice for  *)
(* one reason on every protocol of the key, and the dedicated group is      *)
(* rewritten only while no other key is bound to it                         *)
(* (qualify_active_upstreams, replace_state_with_qualified_models).         *)
THEOREM QualificationKept == QualSpec => []QualificationSafe
<1>1. QualInit => QualInv
  <2> SUFFICES ASSUME QualInit PROVE QualInv
    OBVIOUS
  <2>1. QualTyped
    BY NoRunTyped DEF QualInit, QualTyped
  <2> QED BY <2>1, NoRunTyped DEF QualInit, QualInv, GivenUpOnEvidence, OtherKeysKeepLimits, CountStands
<1>2. QualInv /\ [QualNext]_qualVars => QualInv'
  BY QualSteps
<1>3. QualInv => QualificationSafe
  BY DEF QualInv, QualificationSafe
<1> QED
  BY <1>1, <1>2, <1>3, PTL DEF QualSpec
=============================================================================
