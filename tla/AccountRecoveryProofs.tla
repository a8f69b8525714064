------------------------ MODULE AccountRecoveryProofs ------------------------
(***************************************************************************)
(* Proofs about AccountRecovery, for every value of its constants.         *)
(*                                                                         *)
(* The probe of an account always has an owner who knows of it, and, if    *)
(* timers are timely, only one request at a time is sent as the probe of   *)
(* an account (ProbeInv).  That argument needs the clock, the generations, *)
(* the probes and, of each session, its step, its lease and how long it    *)
(* takes its probe for safely owned.                                       *)
(*                                                                         *)
(* The queues are sound and the probes are granted in the order of         *)
(* registration (QueueInv).  The clock is too coarse for that order: two   *)
(* registrations may fall on one instant.  The invariant says that there   *)
(* was one order of all registrations, of whichever session and account,   *)
(* with which every queue and every session's list of tickets agrees.      *)
(*                                                                         *)
(* A standing Retry-After is kept (CoolInv), and the state has its type.   *)
(***************************************************************************)
EXTENDS AccountRecovery, FiniteSetTheorems, WellFoundedInduction, TLAPS

\* The types of the part of the state that the argument is about.
ProbeTypes ==
  /\ now \in Nat
  /\ generation \in [Accounts -> Nat]
  /\ probe \in [Accounts -> Probe \cup {None}]
  /\ pc \in [Sessions -> Steps]
  /\ trying \in [Sessions -> Accounts \cup {None}]
  /\ lease \in [Sessions -> Lease \cup {None}]
  /\ safe \in [Sessions -> Nat]

\* A probe is of the current generation of its account and its session holds it.
ProbeHeld ==
  \A a \in Accounts : probe[a] # None =>
    /\ probe[a].gen = generation[a]
    /\ lease[probe[a].who] = [account |-> a, gen |-> probe[a].gen]

\* Only a session that has still to send, answer or clean up holds a lease, and
\* an attempt that is a probe goes to the account that was leased.
LeasePlace ==
  \A s \in Sessions :
    /\ lease[s] # None => pc[s] \in {"route", "attempt", "cleanup"}
    /\ pc[s] \in {"attempt", "requeue"} => trying[s] \in Accounts
    /\ pc[s] = "attempt" /\ lease[s] # None => trying[s] = lease[s].account

\* The probe of s is in the registry and outlives what s takes for safe by Margin.
Covered(s) ==
  /\ OwnsProbe(s, lease[s].account)
  /\ safe[s] + Margin <= probe[lease[s].account].expires

\* A session that would send its probe still owns it.
SafeOwned ==
  \A s \in Sessions :
    pc[s] = "route" /\ lease[s] # None /\ now < safe[s] => Covered(s)

\* With timely timers, so does a session whose probe is being sent.
SendingOwned ==
  Timely => \A s \in Sessions :
    pc[s] = "attempt" /\ lease[s] # None => Covered(s) /\ now < safe[s] + Margin

\* The inductive invariant.
ProbeInv == ProbeTypes /\ ProbeHeld /\ LeasePlace /\ SafeOwned /\ SendingOwned

-----------------------------------------------------------------------------

\* The marker for "no lease, no probe" is neither a lease nor a probe.
LEMMA NoneDiffers == None \notin Probe /\ None \notin Lease
<1>1. \A p \in Probe : DOMAIN p = {"who", "gen", "expires"}
  BY DEF Probe
<1>2. \A l \in Lease : DOMAIN l = {"account", "gen"}
  BY DEF Lease
<1>3. DOMAIN None = {"none"}
  BY DEF None
<1> QED
  BY <1>1, <1>2, <1>3

\* The initial state satisfies the invariant.
LEMMA ProbeInit == Init => ProbeInv
<1> SUFFICES ASSUME Init PROVE ProbeInv
  OBVIOUS
<1>1. ProbeTypes
  BY DEF Init, ProbeTypes, Never, Steps
<1>2. ProbeHeld
  BY DEF Init, ProbeHeld
<1>3. LeasePlace /\ SafeOwned /\ SendingOwned
  BY DEF Init, LeasePlace, SafeOwned, SendingOwned
<1> QED
  BY <1>1, <1>2, <1>3 DEF ProbeInv

\* The variables the invariant is about.
probeVars == <<now, generation, probe, pc, trying, lease, safe>>

\* Nothing that leaves these variables alone disturbs the invariant.
LEMMA ProbeStutter == ProbeInv /\ UNCHANGED probeVars => ProbeInv'
BY DEF ProbeInv, ProbeTypes, ProbeHeld, LeasePlace, SafeOwned, SendingOwned, Covered, OwnsProbe,
       probeVars

\* A session that only moves on, to a step at which it may hold its lease, and
\* that does not start to send or to route.
LEMMA ProbeMove ==
  ASSUME ProbeInv, NEW s \in Sessions,
         UNCHANGED <<now, generation, probe, lease, safe>>,
         NEW step \in Steps \ {"attempt", "requeue"},
         pc' = [pc EXCEPT ![s] = step],
         trying' = trying \/ trying' = [trying EXCEPT ![s] = None],
         lease[s] # None => step = "cleanup" \/ (step = "route" /\ pc[s] = "route")
  PROVE  ProbeInv'
<1> USE DEF ProbeInv
<1>1. ProbeTypes'
  BY DEF ProbeTypes
<1>2. ProbeHeld'
  BY DEF ProbeHeld
<1>3. LeasePlace'
  BY DEF LeasePlace, ProbeTypes
<1>4. \A u \in Sessions : pc'[u] \in {"route", "attempt"} /\ lease[u] # None => pc'[u] = pc[u]
  BY DEF ProbeTypes
<1>5. SafeOwned'
  BY <1>4 DEF SafeOwned, Covered, OwnsProbe
<1>6. SendingOwned'
  BY <1>4 DEF SendingOwned, Covered, OwnsProbe
<1> QED
  BY <1>1, <1>2, <1>3, <1>5, <1>6

\* In particular, a session may be on its way out with its lease in hand.
LEMMA ProbeLeaves ==
  ASSUME ProbeInv, NEW s \in Sessions,
         UNCHANGED <<now, generation, probe, lease, safe>>,
         pc' = [pc EXCEPT ![s] = "cleanup"],
         trying' = trying \/ trying' = [trying EXCEPT ![s] = None]
  PROVE  ProbeInv'
<1>1. PICK step \in Steps \ {"attempt", "requeue"} : step = "cleanup"
  BY DEF Steps
<1>2. pc' = [pc EXCEPT ![s] = step]
  BY <1>1
<1>3. lease[s] # None => step = "cleanup" \/ (step = "route" /\ pc[s] = "route")
  BY <1>1
<1> QED
  BY <1>2, <1>3, ProbeMove

\* A session gives up its lease, and the probe with it if it is still in the
\* registry.  Nobody else's probe is touched.
LEMMA ProbeReleased ==
  ASSUME ProbeInv, NEW s \in Sessions, now' = now,
         generation' \in [Accounts -> Nat], probe' \in [Accounts -> Probe \cup {None}],
         NEW step \in Steps \ {"attempt"}, pc' = [pc EXCEPT ![s] = step],
         lease' = [lease EXCEPT ![s] = None],
         safe' = [safe EXCEPT ![s] = Never],
         \/ trying' = trying /\ (step = "requeue" => pc[s] = "attempt")
         \/ trying' = [trying EXCEPT ![s] = None] /\ step # "requeue",
         \A a \in Accounts :
           \/ probe'[a] = None /\ (probe[a] = None \/ probe[a].who = s)
           \/ /\ probe'[a] = probe[a] /\ generation'[a] = generation[a]
              /\ probe[a] # None => probe[a].who # s
  PROVE  ProbeInv'
<1> USE DEF ProbeInv
<1>1. ProbeTypes'
  BY DEF ProbeTypes, Never
<1>2. ProbeHeld'
  <2> SUFFICES ASSUME NEW a \in Accounts, probe'[a] # None
               PROVE  /\ probe'[a].gen = generation'[a]
                      /\ lease'[probe'[a].who] = [account |-> a, gen |-> probe'[a].gen]
    BY DEF ProbeHeld
  <2>1. probe'[a] = probe[a] /\ generation'[a] = generation[a] /\ probe[a].who # s
    OBVIOUS
  <2>2. probe[a].who \in Sessions
    BY <2>1 DEF ProbeTypes, Probe
  <2> QED
    BY <2>1, <2>2 DEF ProbeHeld, ProbeTypes
<1>3. LeasePlace'
  <2> SUFFICES ASSUME NEW u \in Sessions
               PROVE  /\ lease'[u] # None => pc'[u] \in {"route", "attempt", "cleanup"}
                      /\ pc'[u] \in {"attempt", "requeue"} => trying'[u] \in Accounts
                      /\ pc'[u] = "attempt" /\ lease'[u] # None => trying'[u] = lease'[u].account
    BY DEF LeasePlace
  <2>1. CASE u = s
    BY <2>1 DEF LeasePlace, ProbeTypes
  <2>2. CASE u # s
    <3>1. pc'[u] = pc[u] /\ lease'[u] = lease[u] /\ trying'[u] = trying[u]
      BY <2>2 DEF ProbeTypes
    <3> QED
      BY <3>1 DEF LeasePlace
  <2> QED
    BY <2>1, <2>2
<1>4. \A u \in Sessions : lease'[u] # None =>
        u # s /\ pc'[u] = pc[u] /\ lease'[u] = lease[u] /\ safe'[u] = safe[u]
  BY DEF ProbeTypes
<1>5. ASSUME NEW u \in Sessions, lease'[u] # None, Covered(u)
      PROVE  Covered(u)'
  <2>1. u # s /\ lease'[u] = lease[u] /\ safe'[u] = safe[u] /\ lease[u] \in Lease
    BY <1>4, <1>5 DEF ProbeTypes
  <2>2. lease[u].account \in Accounts
    BY <2>1 DEF Lease
  <2>3. probe'[lease[u].account] = probe[lease[u].account]
        /\ generation'[lease[u].account] = generation[lease[u].account]
    BY <2>1, <2>2, <1>5 DEF Covered, OwnsProbe
  <2> QED
    BY <2>1, <2>3, <1>5 DEF Covered, OwnsProbe
<1>6. SafeOwned'
  BY <1>4, <1>5 DEF SafeOwned
<1>7. SendingOwned'
  BY <1>4, <1>5 DEF SendingOwned
<1> QED
  BY <1>1, <1>2, <1>3, <1>6, <1>7

\* An ordinary attempt holds no probe.
LEMMA ProbeAdmitOrdinary ==
  ASSUME ProbeInv, NEW s \in Sessions, NEW a \in Accounts, AdmitOrdinary(s, a)
  PROVE  ProbeInv'
<1> USE DEF ProbeInv, AdmitOrdinary, Candidate, Goto, registry
<1>1. ProbeTypes'
  BY DEF ProbeTypes, Steps
<1>2. ProbeHeld'
  BY DEF ProbeHeld
<1>3. LeasePlace'
  BY DEF LeasePlace, ProbeTypes
<1>4. \A u \in Sessions : lease[u] # None => pc'[u] = pc[u]
  BY DEF ProbeTypes
<1>5. SafeOwned'
  BY <1>4 DEF SafeOwned, Covered, OwnsProbe
<1>6. SendingOwned'
  BY <1>4 DEF SendingOwned, Covered, OwnsProbe
<1> QED
  BY <1>1, <1>2, <1>3, <1>5, <1>6

\* A session starts to send its probe only while it is safely owned.
LEMMA ProbeAdmitProbe ==
  ASSUME ProbeInv, NEW s \in Sessions, AdmitProbe(s)
  PROVE  ProbeInv'
<1> USE RecoveryAssumption DEF ProbeInv, AdmitProbe, Goto, registry
<1>0. lease[s] \in Lease /\ lease[s].account \in Accounts
  BY DEF ProbeTypes, Lease
<1>1. ProbeTypes'
  BY <1>0 DEF ProbeTypes, Steps
<1>2. ProbeHeld'
  BY DEF ProbeHeld
<1>3. LeasePlace'
  BY <1>0 DEF LeasePlace, ProbeTypes
<1>4. SafeOwned'
  BY DEF SafeOwned, Covered, OwnsProbe, ProbeTypes
<1>5. SendingOwned'
  <2>1. Covered(s) /\ now < safe[s] + Margin
    BY DEF SafeOwned, ProbeTypes
  <2>2. \A u \in Sessions : u # s => pc'[u] = pc[u]
    BY DEF ProbeTypes
  <2> QED
    BY <2>1, <2>2 DEF SendingOwned, Covered, OwnsProbe
<1> QED
  BY <1>1, <1>2, <1>3, <1>4, <1>5

\* A probe is granted only on an account that has none.
LEMMA ProbeGranted ==
  ASSUME ProbeInv, NEW s \in Sessions, NEW a \in Accounts, GrantProbe(s, a)
  PROVE  ProbeInv'
<1> USE RecoveryAssumption DEF ProbeInv, GrantProbe, Grantable, Goto, SafeUntil
<1> DEFINE granted == [who |-> s, gen |-> generation[a], expires |-> now + ProbeTtl]
           held == [account |-> a, gen |-> generation[a]]
<1>0. granted \in Probe /\ held \in Lease /\ SafeUntil \in Nat
      /\ SafeUntil + Margin = now + ProbeTtl
  BY DEF ProbeTypes, Probe, Lease
<1>1. /\ probe' = [probe EXCEPT ![a] = granted]
      /\ lease' = [lease EXCEPT ![s] = held]
      /\ safe' = [safe EXCEPT ![s] = SafeUntil]
      /\ pc' = [pc EXCEPT ![s] = "route"]
      /\ UNCHANGED <<now, generation, trying>>
      /\ pc[s] = "waiting" /\ probe[a] = None
  OBVIOUS
<1>2. /\ granted.who = s /\ granted.gen = generation[a] /\ granted.expires = now + ProbeTtl
      /\ held.account = a /\ held.gen = generation[a]
  OBVIOUS
<1>3. lease[s] = None
  BY <1>1 DEF LeasePlace
<1>4. granted # None
  BY <1>0, NoneDiffers
<1>5. held = [account |-> a, gen |-> granted.gen]
  BY <1>2
<1> HIDE DEF granted, held, GrantProbe, Grantable, Goto, SafeUntil
<1>6. ProbeTypes'
  BY <1>0, <1>1 DEF ProbeTypes, Steps
<1>7. ProbeHeld'
  <2> SUFFICES ASSUME NEW b \in Accounts, probe'[b] # None
               PROVE  /\ probe'[b].gen = generation'[b]
                      /\ lease'[probe'[b].who] = [account |-> b, gen |-> probe'[b].gen]
    BY DEF ProbeHeld
  <2>1. CASE b = a
    <3>1. probe'[b] = granted /\ lease'[s] = held /\ generation'[b] = generation[a]
      BY <1>1, <2>1 DEF ProbeTypes
    <3> QED
      BY <3>1, <1>2, <1>5, <2>1
  <2>2. CASE b # a
    <3>1. probe'[b] = probe[b] /\ generation'[b] = generation[b]
      BY <1>1, <2>2 DEF ProbeTypes
    <3>2. lease[probe[b].who] = [account |-> b, gen |-> probe[b].gen]
          /\ probe[b].gen = generation[b]
      BY <3>1 DEF ProbeHeld
    <3>3. [account |-> b, gen |-> probe[b].gen] # None
      <4>1. DOMAIN [account |-> b, gen |-> probe[b].gen] = {"account", "gen"}
        OBVIOUS
      <4>2. DOMAIN None = {"none"}
        BY DEF None
      <4> QED
        BY <4>1, <4>2
    <3>4. probe[b].who # s
      BY <3>2, <3>3, <1>3
    <3>5. probe[b].who \in Sessions
      BY <3>1 DEF ProbeTypes, Probe
    <3> QED
      BY <3>1, <3>2, <3>4, <3>5, <1>1 DEF ProbeTypes
  <2> QED
    BY <2>1, <2>2
<1>8. LeasePlace'
  BY <1>1 DEF LeasePlace, ProbeTypes
<1>9. \A u \in Sessions : u # s =>
        pc'[u] = pc[u] /\ lease'[u] = lease[u] /\ safe'[u] = safe[u]
  BY <1>1 DEF ProbeTypes
<1>10. ASSUME NEW u \in Sessions, u # s, lease[u] # None, Covered(u)
       PROVE  Covered(u)'
  <2>1. lease[u].account \in Accounts
    BY <1>10 DEF ProbeTypes, Lease
  <2>2. lease[u].account # a
    BY <1>10, <1>1 DEF Covered, OwnsProbe
  <2>3. probe'[lease[u].account] = probe[lease[u].account]
    BY <2>1, <2>2, <1>1 DEF ProbeTypes
  <2> QED
    BY <2>3, <1>1, <1>9, <1>10 DEF Covered, OwnsProbe
<1>11. Covered(s)'
  <2>1. lease'[s] = held /\ probe'[a] = granted /\ safe'[s] = SafeUntil /\ generation' = generation
    BY <1>1 DEF ProbeTypes
  <2> QED
    BY <2>1, <1>0, <1>2, <1>4 DEF Covered, OwnsProbe, ProbeTypes
<1>12. SafeOwned'
  BY <1>1, <1>9, <1>10, <1>11 DEF SafeOwned
<1>13. pc'[s] # "attempt"
  BY <1>1 DEF ProbeTypes
<1>14. SendingOwned'
  BY <1>1, <1>9, <1>10, <1>13 DEF SendingOwned
<1> QED
  BY <1>6, <1>7, <1>8, <1>12, <1>14

\* A renewal moves the expiry and the safe time together, or finds the probe gone.
LEMMA ProbeRenewed ==
  ASSUME ProbeInv, NEW s \in Sessions, RenewProbe(s)
  PROVE  ProbeInv'
<1> USE RecoveryAssumption DEF ProbeInv
<1> DEFINE a == lease[s].account
           renewed == [who |-> s, gen |-> generation[a], expires |-> now + ProbeTtl]
<1>1. lease[s] # None /\ pc[s] \in {"route", "attempt"}
      /\ UNCHANGED <<now, generation, pc, trying, lease>>
  BY DEF RenewProbe
<1>2. lease[s] \in Lease /\ a \in Accounts /\ generation[a] \in Nat
  BY <1>1 DEF ProbeTypes, Lease
<1>3. LeasePlace'
  BY <1>1 DEF LeasePlace
<1>4. CASE OwnsProbe(s, a)
  <2>1. probe' = [probe EXCEPT ![a] = renewed] /\ safe' = [safe EXCEPT ![s] = SafeUntil]
    BY <1>4 DEF RenewProbe
  <2>2. renewed \in Probe /\ SafeUntil \in Nat /\ SafeUntil + Margin = now + ProbeTtl
    BY <1>2 DEF ProbeTypes, Probe, SafeUntil
  <2>3. renewed.who = s /\ renewed.gen = generation[a] /\ renewed.expires = now + ProbeTtl
    OBVIOUS
  <2>4. renewed # None
    BY <2>2, NoneDiffers
  <2>5. probe[a] # None /\ probe[a].who = s /\ probe[a].gen = generation[a]
        /\ lease[s].gen = generation[a]
    BY <1>4 DEF OwnsProbe
  <2>6. lease[s] = [account |-> a, gen |-> generation[a]]
    BY <1>2, <2>5 DEF ProbeHeld
  <2> HIDE DEF renewed, a
  <2>7. ProbeTypes'
    BY <1>1, <2>1, <2>2 DEF ProbeTypes
  <2>8. ProbeHeld'
    <3> SUFFICES ASSUME NEW b \in Accounts, probe'[b] # None
                 PROVE  /\ probe'[b].gen = generation[b]
                        /\ lease[probe'[b].who] = [account |-> b, gen |-> probe'[b].gen]
      BY <1>1 DEF ProbeHeld
    <3>1. CASE b = a
      <4>1. probe'[b] = renewed
        BY <2>1, <3>1 DEF ProbeTypes
      <4> QED
        BY <4>1, <3>1, <2>3, <2>6
    <3>2. CASE b # a
      <4>1. probe'[b] = probe[b]
        BY <2>1, <3>2 DEF ProbeTypes
      <4> QED
        BY <4>1 DEF ProbeHeld
    <3> QED
      BY <3>1, <3>2
  <2>9. ASSUME NEW u \in Sessions, u # s, lease[u] # None, Covered(u)
        PROVE  Covered(u)'
    <3>1. lease[u].account \in Accounts
      BY <2>9 DEF ProbeTypes, Lease
    <3>2. lease[u].account # a
      BY <2>9, <2>5 DEF Covered, OwnsProbe
    <3>3. probe'[lease[u].account] = probe[lease[u].account] /\ safe'[u] = safe[u]
      BY <3>1, <3>2, <2>1, <2>9 DEF ProbeTypes
    <3> QED
      BY <3>3, <1>1, <2>9 DEF Covered, OwnsProbe
  <2>10. probe'[a] = renewed /\ safe'[s] = SafeUntil
    BY <2>1, <1>2 DEF ProbeTypes
  <2>11. Covered(s)'
    <3>1. lease'[s].account = a /\ lease'[s].gen = generation[a] /\ generation'[a] = generation[a]
      BY <1>1, <2>5 DEF a
    <3>2. OwnsProbe(s, lease[s].account)'
      BY <3>1, <2>10, <2>3, <2>4 DEF OwnsProbe
    <3>3. (safe[s] + Margin <= probe[lease[s].account].expires)'
      BY <3>1, <2>10, <2>3, <2>2 DEF ProbeTypes
    <3> QED
      BY <3>2, <3>3 DEF Covered
  <2>12. SafeOwned'
    <3> SUFFICES ASSUME NEW u \in Sessions, pc'[u] = "route", lease'[u] # None, now' < safe'[u]
                 PROVE  Covered(u)'
      BY DEF SafeOwned
    <3>1. CASE u = s
      BY <3>1, <2>11
    <3>2. CASE u # s
      <4>1. safe'[u] = safe[u]
        BY <2>1, <3>2 DEF ProbeTypes
      <4> QED
        BY <4>1, <3>2, <1>1, <2>9 DEF SafeOwned
    <3> QED
      BY <3>1, <3>2
  <2>13. SendingOwned'
    <3> SUFFICES ASSUME Timely, NEW u \in Sessions, pc'[u] = "attempt", lease'[u] # None
                 PROVE  Covered(u)' /\ now' < safe'[u] + Margin
      BY DEF SendingOwned
    <3>1. CASE u = s
      <4>1. now' < safe'[u] + Margin
        BY <3>1, <2>10, <2>2, <1>1 DEF ProbeTypes
      <4> QED
        BY <4>1, <3>1, <2>11
    <3>2. CASE u # s
      <4>1. safe'[u] = safe[u]
        BY <2>1, <3>2 DEF ProbeTypes
      <4>2. Covered(u) /\ now < safe[u] + Margin
        BY <1>1 DEF SendingOwned
      <4> QED
        BY <4>1, <4>2, <3>2, <1>1, <2>9
    <3> QED
      BY <3>1, <3>2
  <2> QED
    BY <1>3, <2>7, <2>8, <2>12, <2>13
<1>5. CASE ~ OwnsProbe(s, a)
  <2>1. probe' = probe /\ safe' = [safe EXCEPT ![s] = now]
    BY <1>5 DEF RenewProbe
  <2>2. ProbeTypes'
    BY <1>1, <2>1 DEF ProbeTypes
  <2>3. ProbeHeld'
    BY <1>1, <2>1 DEF ProbeHeld
  <2>4. \A u \in Sessions : u # s => safe'[u] = safe[u]
    BY <2>1 DEF ProbeTypes
  <2>5. ASSUME NEW u \in Sessions, u # s, Covered(u)
        PROVE  Covered(u)'
    BY <1>1, <2>1, <2>4, <2>5 DEF Covered, OwnsProbe
  <2>6. ~ (now < safe'[s])
    BY <2>1 DEF ProbeTypes
  <2>7. SafeOwned'
    BY <1>1, <2>4, <2>5, <2>6 DEF SafeOwned
  <2>8. Timely => pc[s] # "attempt"
    BY <1>1, <1>5 DEF SendingOwned, Covered
  <2>9. SendingOwned'
    BY <1>1, <2>4, <2>5, <2>8 DEF SendingOwned
  <2> QED
    BY <1>3, <2>2, <2>3, <2>7, <2>9
<1> QED
  BY <1>4, <1>5

\* When time passes, a probe that a session counts on does not expire.
LEMMA ProbeTick == ProbeInv /\ Tick => ProbeInv'
<1> SUFFICES ASSUME ProbeInv, Tick PROVE ProbeInv'
  OBVIOUS
<1> USE RecoveryAssumption DEF ProbeInv
<1>1. now' = now + 1 /\ now \in Nat /\ UNCHANGED <<pc, trying, lease, safe>>
  BY DEF Tick, ProbeTypes, session
<1>2. ASSUME NEW a \in Accounts, probe[a] # None
      PROVE  \/ probe'[a] = None
             \/ probe'[a] = probe[a] /\ generation'[a] = generation[a] /\ now' < probe[a].expires
  BY <1>1, <1>2 DEF Tick, Prune, ProbeExpires, ProbeTypes, Probe
<1>3. ASSUME NEW a \in Accounts, probe[a] = None
      PROVE  probe'[a] = None /\ generation'[a] = generation[a]
  BY <1>3 DEF Tick, Prune, ProbeExpires
<1>4. ProbeTypes'
  BY <1>1 DEF ProbeTypes, Tick, Prune
<1>5. ProbeHeld'
  BY <1>1, <1>2, <1>3 DEF ProbeHeld
<1>6. LeasePlace'
  BY <1>1 DEF LeasePlace
<1>7. ASSUME NEW u \in Sessions, lease[u] # None, Covered(u), now' < safe[u] + Margin
      PROVE  Covered(u)'
  <2>1. lease[u].account \in Accounts
    BY <1>7 DEF ProbeTypes, Lease
  <2> DEFINE a == lease[u].account
  <2>2. probe[a] # None /\ probe[a] \in Probe /\ safe[u] + Margin <= probe[a].expires
    BY <1>7, <2>1 DEF Covered, OwnsProbe, ProbeTypes
  <2>3. ~ ProbeExpires(a, now + 1)
    BY <1>1, <1>7, <2>2 DEF ProbeExpires, Probe, ProbeTypes
  <2>4. probe'[a] = probe[a] /\ generation'[a] = generation[a]
    BY <2>1, <2>3 DEF Tick, Prune
  <2> QED
    BY <2>4, <1>1, <1>7 DEF Covered, OwnsProbe
<1>8. SafeOwned'
  <2> SUFFICES ASSUME NEW u \in Sessions, pc[u] = "route", lease[u] # None, now' < safe[u]
               PROVE  Covered(u)'
    BY <1>1 DEF SafeOwned
  <2>1. now < safe[u] /\ now' < safe[u] + Margin
    BY <1>1 DEF ProbeTypes
  <2> QED
    BY <2>1, <1>7 DEF SafeOwned
<1>9. SendingOwned'
  <2> SUFFICES ASSUME Timely, NEW u \in Sessions, pc[u] = "attempt", lease[u] # None
               PROVE  Covered(u)' /\ now' < safe[u] + Margin
    BY <1>1 DEF SendingOwned
  <2>1. now' < safe[u] + Margin
    BY <1>1 DEF Tick
  <2> QED
    BY <2>1, <1>7 DEF SendingOwned
<1> QED
  BY <1>4, <1>5, <1>6, <1>8, <1>9

\* Whoever holds no lease owns no probe in the registry.
LEMMA NoLeaseNoProbe ==
  ASSUME ProbeInv, NEW s \in Sessions, lease[s] = None, NEW a \in Accounts, probe[a] # None
  PROVE  probe[a].who # s
<1>1. lease[probe[a].who] = [account |-> a, gen |-> probe[a].gen]
  BY DEF ProbeInv, ProbeHeld
<1>2. DOMAIN [account |-> a, gen |-> probe[a].gen] = {"account", "gen"}
  OBVIOUS
<1>3. DOMAIN None = {"none"}
  BY DEF None
<1> QED
  BY <1>1, <1>2, <1>3

\* Whoever holds a lease owns no probe but that of the leased account.
LEMMA OneLeaseOneProbe ==
  ASSUME ProbeInv, NEW s \in Sessions, NEW a \in Accounts, probe[a] # None, probe[a].who = s
  PROVE  a = lease[s].account
<1>1. lease[s] = [account |-> a, gen |-> probe[a].gen]
  BY DEF ProbeInv, ProbeHeld
<1> QED
  BY <1>1

\* A session that holds no lease drops none: the other probes stay as they are.
LEMMA ReleaseNothing ==
  ASSUME ProbeInv, NEW s \in Sessions, lease[s] = None, NEW a \in Accounts,
         probe'[a] = probe[a], probe[a] = None \/ generation'[a] = generation[a]
  PROVE  \/ probe'[a] = None /\ (probe[a] = None \/ probe[a].who = s)
         \/ /\ probe'[a] = probe[a] /\ generation'[a] = generation[a]
            /\ probe[a] # None => probe[a].who # s
BY NoLeaseNoProbe

\* A session that takes its own probe out of the registry leaves the others.
LEMMA ReleaseOwn ==
  ASSUME ProbeInv, NEW s \in Sessions, NEW own \in Accounts,
         own = lease[s].account, OwnsProbe(s, own),
         probe' = [probe EXCEPT ![own] = None], NEW a \in Accounts,
         a # own => generation'[a] = generation[a]
  PROVE  \/ probe'[a] = None /\ (probe[a] = None \/ probe[a].who = s)
         \/ /\ probe'[a] = probe[a] /\ generation'[a] = generation[a]
            /\ probe[a] # None => probe[a].who # s
<1>1. CASE a = own
  BY <1>1 DEF OwnsProbe, ProbeInv, ProbeTypes
<1>2. CASE a # own
  BY <1>2, OneLeaseOneProbe DEF ProbeInv, ProbeTypes
<1> QED
  BY <1>1, <1>2

\* The end of an attempt whose outcome the registry learns.
LEMMA ProbeCompleted ==
  ASSUME ProbeInv, NEW s \in Sessions, Rejected(s) \/ Failed(s) \/ Accepted(s)
  PROVE  ProbeInv'
<1> DEFINE a == trying[s]
<1>1. pc[s] = "attempt" /\ now' = now /\ trying' = trying
      /\ lease' = [lease EXCEPT ![s] = None] /\ safe' = [safe EXCEPT ![s] = Never]
  BY DEF Rejected, Failed, Accepted, DropLease
<1>2. PICK step \in {"requeue", "accepted"} : pc' = [pc EXCEPT ![s] = step]
  BY DEF Rejected, Failed, Accepted, Goto
<1>3. a \in Accounts /\ (lease[s] # None => a = lease[s].account)
  BY <1>1 DEF ProbeInv, LeasePlace
<1>4. /\ generation' \in [Accounts -> Nat]
      /\ \A b \in Accounts : b # a => generation'[b] = generation[b]
      /\ lease[s] = None => probe[a] = None \/ generation'[a] = generation[a]
  <2>1. CASE Rejected(s)
    <3>1. PICK g \in {generation[a], generation[a] + 1} :
            /\ generation' = [generation EXCEPT ![a] = g]
            /\ lease[s] = None => probe[a] = None \/ g = generation[a]
      BY <2>1 DEF Rejected, ApplyRejection
    <3>2. g \in Nat
      BY <1>3 DEF ProbeInv, ProbeTypes
    <3> QED
      BY <3>1, <3>2, <1>3 DEF ProbeInv, ProbeTypes
  <2>2. CASE Failed(s) \/ Accepted(s)
    BY <2>2 DEF Failed, Accepted, registry, ProbeInv, ProbeTypes
  <2> QED
    BY <2>1, <2>2
<1>5. IF lease[s] = None THEN probe' = probe
      ELSE OwnsProbe(s, a) /\ probe' = [probe EXCEPT ![a] = None]
  BY DEF Rejected, Failed, Accepted, registry
<1>6. probe' \in [Accounts -> Probe \cup {None}]
  BY <1>5 DEF ProbeInv, ProbeTypes
<1>7. \A b \in Accounts :
        \/ probe'[b] = None /\ (probe[b] = None \/ probe[b].who = s)
        \/ /\ probe'[b] = probe[b] /\ generation'[b] = generation[b]
           /\ probe[b] # None => probe[b].who # s
  <2>1. CASE lease[s] = None
    BY <2>1, <1>4, <1>5, ReleaseNothing
  <2>2. CASE lease[s] # None
    BY <2>2, <1>3, <1>4, <1>5, ReleaseOwn
  <2> QED
    BY <2>1, <2>2
<1>8. step \in Steps \ {"attempt"}
  BY DEF Steps
<1> QED
  BY <1>1, <1>2, <1>4, <1>6, <1>7, <1>8, ProbeReleased

\* An interrupted probe is given back, or was already gone.
LEMMA ProbeInterrupted ==
  ASSUME ProbeInv, NEW s \in Sessions, Interrupt(s)
  PROVE  ProbeInv'
<1> DEFINE a == lease[s].account
<1>1. lease[s] # None /\ pc[s] \in {"route", "attempt"} /\ now' = now /\ generation' = generation
      /\ trying' = [trying EXCEPT ![s] = None]
  BY DEF Interrupt, LeaveAttempt
<1>2. a \in Accounts
  BY <1>1 DEF ProbeInv, ProbeTypes, Lease
<1>3. CASE OwnsProbe(s, a)
  <2>1. probe' = [probe EXCEPT ![a] = None]
        /\ lease' = [lease EXCEPT ![s] = None] /\ safe' = [safe EXCEPT ![s] = Never]
    BY <1>3 DEF Interrupt, DropLease
  <2>2. PICK step \in {"route", "cleanup"} : pc' = [pc EXCEPT ![s] = step]
    BY <1>3 DEF Interrupt, LeaveAttempt, Goto
  <2>3. step \in Steps \ {"attempt"} /\ step # "requeue"
    BY DEF Steps
  <2>4. probe' \in [Accounts -> Probe \cup {None}] /\ generation' \in [Accounts -> Nat]
    BY <1>1, <2>1 DEF ProbeInv, ProbeTypes
  <2>5. \A b \in Accounts :
          \/ probe'[b] = None /\ (probe[b] = None \/ probe[b].who = s)
          \/ /\ probe'[b] = probe[b] /\ generation'[b] = generation[b]
             /\ probe[b] # None => probe[b].who # s
    BY <1>1, <1>2, <1>3, <2>1, ReleaseOwn
  <2> QED
    BY <1>1, <2>1, <2>2, <2>3, <2>4, <2>5, ProbeReleased
<1>4. CASE ~ OwnsProbe(s, a)
  <2>1. UNCHANGED <<probe, lease, safe>> /\ pc' = [pc EXCEPT ![s] = "cleanup"]
    BY <1>4 DEF Interrupt, LeaveAttempt, Goto
  <2> QED
    BY <1>1, <2>1, ProbeLeaves
<1> QED
  BY <1>3, <1>4

\* finish() and Drop give back a probe that is still owned.
LEMMA ProbeCleanup ==
  ASSUME ProbeInv, NEW s \in Sessions, Cleanup(s)
  PROVE  ProbeInv'
<1> DEFINE a == lease[s].account
<1>1. now' = now /\ generation' = generation /\ trying' = trying
      /\ lease' = [lease EXCEPT ![s] = None] /\ safe' = [safe EXCEPT ![s] = Never]
      /\ pc' = [pc EXCEPT ![s] = "done"] /\ ReleaseProbe(s)
  BY DEF Cleanup, DropLease, Goto
<1>2. lease[s] # None => a \in Accounts /\ lease[s] \in Lease
  BY DEF ProbeInv, ProbeTypes, Lease
<1>3. probe' \in [Accounts -> Probe \cup {None}] /\ generation' \in [Accounts -> Nat]
  BY <1>1 DEF ReleaseProbe, ProbeInv, ProbeTypes
<1>4. \A b \in Accounts :
        \/ probe'[b] = None /\ (probe[b] = None \/ probe[b].who = s)
        \/ /\ probe'[b] = probe[b] /\ generation'[b] = generation[b]
           /\ probe[b] # None => probe[b].who # s
  <2>1. CASE lease[s] = None
    <3>1. probe' = probe
      BY <1>1, <2>1 DEF ReleaseProbe
    <3> QED
      BY <3>1, <1>1, <2>1, ReleaseNothing
  <2>2. CASE lease[s] # None /\ OwnsProbe(s, a)
    <3>1. probe' = [probe EXCEPT ![a] = None]
      BY <1>1, <2>2 DEF ReleaseProbe
    <3> QED
      BY <3>1, <1>1, <1>2, <2>2, ReleaseOwn
  <2>3. CASE lease[s] # None /\ ~ OwnsProbe(s, a)
    <3>1. probe' = probe
      BY <1>1, <2>3 DEF ReleaseProbe
    <3>2. ASSUME NEW b \in Accounts, probe[b] # None, probe[b].who = s
          PROVE  FALSE
      <4>1. lease[s] = [account |-> b, gen |-> probe[b].gen] /\ probe[b].gen = generation[b]
        BY <3>2 DEF ProbeInv, ProbeHeld
      <4>2. b = a /\ lease[s].gen = generation[a] /\ probe[b].gen = lease[s].gen
        BY <4>1
      <4> QED
        BY <4>2, <3>2, <2>3 DEF OwnsProbe
    <3> QED
      BY <3>1, <3>2, <1>1
  <2> QED
    BY <2>1, <2>2, <2>3
<1>5. "done" \in Steps \ {"attempt"}
  BY DEF Steps
<1> QED
  BY <1>1, <1>3, <1>4, <1>5, ProbeReleased

\* Every step preserves the invariant.
LEMMA ProbeStep == ProbeInv /\ [Next]_vars => ProbeInv'
<1> SUFFICES ASSUME ProbeInv, [Next]_vars PROVE ProbeInv'
  OBVIOUS
<1>1. ASSUME NEW s \in Sessions, Start(s) PROVE ProbeInv'
  <2>1. lease[s] = None
    BY <1>1 DEF Start, ProbeInv, LeasePlace
  <2>2. PICK step \in Steps \ {"attempt", "requeue"} : pc' = [pc EXCEPT ![s] = step]
    BY <1>1 DEF Start, Goto, Steps
  <2> QED
    BY <1>1, <2>1, <2>2, ProbeMove DEF Start, registry
<1>2. ASSUME NEW s \in Sessions, NEW a \in Accounts, AdmitOrdinary(s, a) PROVE ProbeInv'
  BY <1>2, ProbeAdmitOrdinary
<1>3. ASSUME NEW s \in Sessions, NEW a \in Accounts, Defer(s, a) PROVE ProbeInv'
  BY <1>3, ProbeStutter DEF Defer, probeVars
<1>4. ASSUME NEW s \in Sessions, AdmitProbe(s) PROVE ProbeInv'
  BY <1>4, ProbeAdmitProbe
<1>5. ASSUME NEW s \in Sessions, Wait(s) PROVE ProbeInv'
  <2>1. PICK step \in Steps \ {"attempt", "requeue"} : pc' = [pc EXCEPT ![s] = step]
    BY <1>5 DEF Wait, Goto, Steps
  <2> QED
    BY <1>5, <2>1, ProbeMove DEF Wait, registry
<1>6. ASSUME NEW s \in Sessions, Polling(s) PROVE ProbeInv'
  <2>1. CASE GiveUp(s) \/ ProbeRefused(s) \/ RenewMissing(s)
    BY <2>1, ProbeLeaves DEF GiveUp, ProbeRefused, RenewMissing, Goto, registry
  <2>2. CASE \E a \in Accounts : GrantProbe(s, a)
    BY <2>2, ProbeGranted
  <2> QED
    BY <1>6, <2>1, <2>2 DEF Polling
<1>7. ASSUME NEW s \in Sessions, RenewProbe(s) PROVE ProbeInv'
  BY <1>7, ProbeRenewed
<1>8. ASSUME NEW s \in Sessions, Attempting(s) PROVE ProbeInv'
  <2>1. CASE LeaseLost(s)
    BY <2>1, ProbeLeaves DEF LeaseLost, LeaveAttempt, Goto, registry
  <2> QED
    BY <1>8, <2>1, ProbeCompleted DEF Attempting
<1>9. ASSUME NEW s \in Sessions, Requeue(s) PROVE ProbeInv'
  <2>1. lease[s] = None
    BY <1>9 DEF Requeue, ProbeInv, LeasePlace
  <2>2. PICK step \in Steps \ {"attempt", "requeue"} : pc' = [pc EXCEPT ![s] = step]
    BY <1>9 DEF Requeue, LeaveAttempt, Goto, Steps
  <2> QED
    BY <1>9, <2>1, <2>2, ProbeMove DEF Requeue, LeaveAttempt
<1>10. ASSUME NEW s \in Sessions, LeaveQueues(s) PROVE ProbeInv'
  <2>1. lease[s] = None
    BY <1>10 DEF LeaveQueues, ProbeInv, LeasePlace
  <2>2. PICK step \in Steps \ {"attempt", "requeue"} : pc' = [pc EXCEPT ![s] = step]
    BY <1>10 DEF LeaveQueues, LeaveAttempt, Goto, Steps
  <2> QED
    BY <1>10, <2>1, <2>2, ProbeMove DEF LeaveQueues, LeaveAttempt
<1>11. ASSUME NEW s \in Sessions, Interrupt(s) PROVE ProbeInv'
  BY <1>11, ProbeInterrupted
<1>12. ASSUME NEW s \in Sessions, Leave(s) PROVE ProbeInv'
  BY <1>12, ProbeLeaves DEF Leave, LeaveAttempt, Goto, registry
<1>13. ASSUME NEW s \in Sessions, Cleanup(s) PROVE ProbeInv'
  BY <1>13, ProbeCleanup
<1>14. ASSUME NEW b \in Budgets, UpdateTuning(b) PROVE ProbeInv'
  BY <1>14, ProbeStutter DEF UpdateTuning, probeVars, session
<1>15. CASE Tick
  BY <1>15, ProbeTick
<1>16. CASE UNCHANGED vars
  BY <1>16, ProbeStutter DEF vars, probeVars, registry, session
<1> QED
  BY <1>1, <1>2, <1>3, <1>4, <1>5, <1>6, <1>7, <1>8, <1>9, <1>10, <1>11, <1>12, <1>13, <1>14,
     <1>15, <1>16 DEF Next

-----------------------------------------------------------------------------

\* The invariant holds: a probe in the registry is of its account's generation
\* and held by its session, and what a session counts on does not expire.
THEOREM ProbeInvariant == Spec => []ProbeInv
<1>1. ProbeInv /\ [Next]_vars => ProbeInv'
  BY ProbeStep
<1> QED
  BY ProbeInit, <1>1, PTL DEF Spec

\* No orphaned probe, for any number of sessions and accounts and for timers as
\* late as can be: finish_probe, the expiry and the renewals never leave a probe
\* in the registry that its session does not hold.
THEOREM ProbeOwnedTheorem == Spec => []ProbeOwned
<1>1. ProbeInv => ProbeOwned
  BY DEF ProbeInv, ProbeHeld, LeasePlace, ProbeOwned
<1> QED
  BY ProbeInvariant, <1>1, PTL

\* Single flight, for any number of sessions and accounts, any probe TTL above
\* the margin and any local or announced cooldown, if timers are timely.
THEOREM SingleFlightTheorem == ASSUME Timely PROVE Spec => []SingleFlight
<1>1. ProbeInv => SingleFlight
  <2> SUFFICES ASSUME ProbeInv, NEW a \in Accounts
               PROVE  Cardinality(Probing(a)) <= 1
    BY DEF SingleFlight
  <2>1. \A s, u \in Probing(a) : s = u
    BY DEF Probing, ProbeInv, SendingOwned, Covered, OwnsProbe
  <2>2. CASE Probing(a) = {}
    BY <2>2, FS_EmptySet
  <2>3. CASE Probing(a) # {}
    <3>1. PICK s : s \in Probing(a)
      BY <2>3
    <3>2. Probing(a) = {s}
      BY <2>1, <3>1
    <3> QED
      BY <3>2, FS_Singleton
  <2> QED
    BY <2>2, <2>3
<1> QED
  BY ProbeInvariant, <1>1, PTL

-----------------------------------------------------------------------------
(***************************************************************************)
(* The queues                                                              *)
(***************************************************************************)

\* A set of naturals that is not empty has a least element.
LEMMA LeastNatural ==
  ASSUME NEW S \in SUBSET Nat, S # {}
  PROVE  \E n \in S : \A j \in S : n <= j
<1> DEFINE R == {ss \in Nat \X Nat : ss[1] < ss[2]}
<1>1. IsWellFoundedOn(R, Nat)
  BY NatLessThanWellFounded DEF OpToRel
<1>2. \E x \in S : \A y \in S : ~ (<<y, x>> \in R)
  <2> HIDE DEF R
  <2> QED BY <1>1, WFMin
<1>3. \A x, y \in Nat : ~ (<<y, x>> \in R) => x <= y
  OBVIOUS
<1> HIDE DEF R
<1> QED BY <1>2, <1>3

UpTo(S, n) == {m \in S : m <= n}

\* The ranks of a finite set of places grow with the places and number them.
LEMMA RanksGrow ==
  ASSUME NEW L \in Nat, NEW S \in SUBSET (1 .. L)
  PROVE  /\ Cardinality(S) \in Nat
         /\ \A n \in S : Cardinality(UpTo(S, n)) \in 1 .. Cardinality(S)
         /\ \A i, j \in S : i < j => Cardinality(UpTo(S, i)) < Cardinality(UpTo(S, j))
         /\ \A i \in 1 .. Cardinality(S) : \E n \in S : Cardinality(UpTo(S, n)) = i
<1> DEFINE C == Cardinality(S)
           rank == [n \in S |-> Cardinality(UpTo(S, n))]
<1>1. IsFiniteSet(S) /\ C \in Nat
  <2>1. IsFiniteSet(1 .. L)
    BY FS_Interval
  <2>2. IsFiniteSet(S)
    BY <2>1, FS_Subset
  <2> QED BY <2>2, FS_CardinalityType
<1>2. ASSUME NEW n \in S
      PROVE  /\ IsFiniteSet(UpTo(S, n)) /\ Cardinality(UpTo(S, n)) \in 1 .. C /\ n \in UpTo(S, n)
  <2>1. UpTo(S, n) \in SUBSET S /\ n \in UpTo(S, n)
    BY DEF UpTo
  <2>2. IsFiniteSet(UpTo(S, n)) /\ Cardinality(UpTo(S, n)) \in Nat /\ Cardinality(UpTo(S, n)) <= C
    BY <1>1, <2>1, FS_Subset, FS_CardinalityType
  <2>3. Cardinality(UpTo(S, n)) # 0
    BY <2>1, <2>2, FS_EmptySet
  <2> QED BY <1>1, <2>1, <2>2, <2>3
<1>3. ASSUME NEW i \in S, NEW j \in S, i < j
      PROVE  Cardinality(UpTo(S, i)) < Cardinality(UpTo(S, j))
  <2>1. UpTo(S, i) \in SUBSET UpTo(S, j) /\ j \notin UpTo(S, i)
    <3>1. i \in Int /\ j \in Int /\ \A m \in S : m \in Int
      OBVIOUS
    <3>2. \A m \in S : m <= i => m <= j
      BY <1>3, <3>1
    <3>3. ~ (j <= i)
      BY <1>3, <3>1
    <3> QED BY <3>2, <3>3 DEF UpTo
  <2>2. j \in UpTo(S, j) /\ IsFiniteSet(UpTo(S, j))
    BY <1>2
  <2>3. /\ Cardinality(UpTo(S, i)) <= Cardinality(UpTo(S, j))
        /\ Cardinality(UpTo(S, i)) # Cardinality(UpTo(S, j))
    BY <2>1, <2>2, FS_Subset
  <2>4. Cardinality(UpTo(S, i)) \in Int /\ Cardinality(UpTo(S, j)) \in Int
    BY <1>1, <1>2
  <2> QED BY <2>3, <2>4
<1>4. rank \in Injection(S, 1 .. C)
  <2>1. rank \in [S -> 1 .. C]
    BY <1>2
  <2>2. ASSUME NEW i \in S, NEW j \in S, i # j PROVE rank[i] # rank[j]
    <3>1. i < j \/ j < i
      BY <2>2
    <3>2. rank[i] \in Int /\ rank[j] \in Int
      BY <2>1, <1>1
    <3>3. rank[i] < rank[j] \/ rank[j] < rank[i]
      BY <3>1, <1>3
    <3> QED BY <3>2, <3>3
  <2> HIDE DEF rank
  <2> QED BY <2>1, <2>2 DEF Injection, IsInjective
<1>5. IsFiniteSet(1 .. C) /\ Cardinality(1 .. C) = C
  BY <1>1, FS_Interval
<1>6. rank \in Surjection(S, 1 .. C)
  <2> HIDE DEF rank
  <2> QED BY <1>1, <1>4, <1>5, FS_Injection
<1>7. \A i \in 1 .. C : \E n \in S : Cardinality(UpTo(S, n)) = i
  BY <1>6 DEF Surjection
<1> QED BY <1>1, <1>2, <1>3, <1>7

\* f maps the places of one sequence into those of another and keeps their order.
Embeds(f, short, long) ==
  /\ f \in [DOMAIN short -> DOMAIN long]
  /\ \A i, j \in DOMAIN short : i < j => f[i] < f[j]

\* What is retained is a subsequence that holds every kept place.
LEMMA RetainEmbeds ==
  ASSUME NEW T, NEW q \in Seq(T), NEW kept \in SUBSET DOMAIN q
  PROVE  /\ Retain(q, kept) \in Seq(T)
         /\ \E f : /\ Embeds(f, Retain(q, kept), q)
                   /\ \A i \in DOMAIN Retain(q, kept) : f[i] \in kept /\ Retain(q, kept)[i] = q[f[i]]
         /\ \A n \in kept : \E i \in DOMAIN Retain(q, kept) : Retain(q, kept)[i] = q[n]
<1> DEFINE Place(n) == CHOOSE i \in kept : Cardinality(UpTo(kept, i)) = n
           C == Cardinality(kept)
           K == Retain(q, kept)
           f == [n \in 1 .. C |-> Place(n)]
<1>1. Len(q) \in Nat /\ DOMAIN q = 1 .. Len(q) /\ \A i \in DOMAIN q : q[i] \in T
  OBVIOUS
<1>2. K = [n \in 1 .. C |-> q[Place(n)]]
  BY DEF Retain, UpTo
<1> HIDE DEF K
<1>3. /\ C \in Nat
      /\ \A n \in kept : Cardinality(UpTo(kept, n)) \in 1 .. C
      /\ \A i, j \in kept : i < j => Cardinality(UpTo(kept, i)) < Cardinality(UpTo(kept, j))
      /\ \A i \in 1 .. C : \E n \in kept : Cardinality(UpTo(kept, n)) = i
  BY <1>1, RanksGrow
<1>4. \A n \in 1 .. C : Place(n) \in kept /\ Cardinality(UpTo(kept, Place(n))) = n
  BY <1>3
<1> HIDE DEF Place
<1>5. \A i \in kept : i \in Int
  BY <1>1
<1> HIDE DEF C
<1>6. ASSUME NEW i \in 1 .. C, NEW j \in 1 .. C, i < j PROVE Place(i) < Place(j)
  <2>1. Place(i) \in kept /\ Place(j) \in kept /\ Place(i) \in Int /\ Place(j) \in Int
    BY <1>4, <1>5
  <2>2. i \in Int /\ j \in Int /\ ~ (j < i) /\ i # j
    BY <1>3, <1>6
  <2>3. ~ (Place(j) < Place(i)) /\ Place(i) # Place(j)
    BY <1>3, <1>4, <2>1, <2>2
  <2> QED BY <2>1, <2>3
<1>7. ASSUME NEW n \in kept PROVE \E i \in 1 .. C : Place(i) = n
  <2> DEFINE i == Cardinality(UpTo(kept, n))
  <2>1. i \in 1 .. C /\ i \in Int
    BY <1>3
  <2>2. Place(i) \in kept /\ Cardinality(UpTo(kept, Place(i))) = i
    BY <2>1, <1>4
  <2>3. ~ (Place(i) < n) /\ ~ (n < Place(i))
    BY <1>3, <2>1, <2>2
  <2>4. Place(i) = n
    BY <1>5, <2>2, <2>3
  <2> QED BY <2>1, <2>4
<1>8. K \in Seq(T) /\ DOMAIN K = 1 .. C
  <2>1. K \in [1 .. C -> T]
    BY <1>1, <1>2, <1>4
  <2> QED BY <1>3, <2>1
<1>9. Embeds(f, K, q) /\ \A i \in DOMAIN K : f[i] \in kept /\ K[i] = q[f[i]]
  <2>1. f \in [1 .. C -> DOMAIN q] /\ \A i \in 1 .. C : f[i] = Place(i) /\ f[i] \in kept
    BY <1>1, <1>4
  <2>2. \A i \in 1 .. C : K[i] = q[f[i]]
    BY <1>2, <2>1
  <2> HIDE DEF f
  <2> QED BY <1>6, <1>8, <2>1, <2>2 DEF Embeds
<1>10. ASSUME NEW n \in kept PROVE \E i \in DOMAIN K : K[i] = q[n]
  <2>1. PICK i \in 1 .. C : Place(i) = n
    BY <1>7
  <2> QED BY <1>2, <1>8, <2>1
<1> HIDE DEF f
<1> QED BY <1>8, <1>9, <1>10 DEF K

-----------------------------------------------------------------------------

Ticket == [who : Sessions, at : Nat, until : Nat]
Held == [account : Accounts, at : Nat]

\* The types of what the queues depend on.
QueueTypes ==
  /\ now \in Nat /\ budget \in Budgets
  /\ queue \in [Accounts -> Seq(Ticket)]
  /\ tickets \in [Sessions -> Seq(Held)]
  /\ pc \in [Sessions -> Steps]
  /\ waiting \subseteq Limited
  /\ marked \in [Sessions -> BOOLEAN]

\* Tickets are in the order of their registration, none in the future.
InTime(q, t) ==
  /\ \A i \in DOMAIN q : q[i].at <= t
  /\ \A i, j \in DOMAIN q : i < j => q[i].at <= q[j].at

QueuesInTime == \A a \in Accounts : InTime(queue[a], now)
TicketsInTime == \A s \in Sessions : InTime(tickets[s], now)

\* rank numbers all registrations below top in the order they came, whichever
\* session and account they are of.
RankedBy(rank, top) ==
  /\ rank \in [Sessions -> [Accounts -> Nat]] /\ top \in Nat
  /\ \A s \in Sessions, a \in Accounts : rank[s][a] < top
  /\ \A a \in Accounts : \A i, j \in DOMAIN queue[a] :
       i < j => rank[queue[a][i].who][a] < rank[queue[a][j].who][a]
  /\ \A s \in Sessions : \A i, j \in DOMAIN tickets[s] :
       i < j => rank[s][tickets[s][i].account] < rank[s][tickets[s][j].account]

\* There was one order of registrations, and queues and tickets are in it.
Ranked == \E rank : \E top : RankedBy(rank, top)

\* Who polls has a ticket to poll with.
WaitsWithTicket == \A s \in Sessions : pc[s] = "waiting" => tickets[s] # << >>

\* The inductive invariant of the queues.
QueueInv ==
  /\ QueueTypes /\ QueuesInTime /\ TicketsInTime /\ Ranked /\ WaitsWithTicket /\ TicketsOwned

LEMMA QueueStart == Init => QueueInv
<1> SUFFICES ASSUME Init PROVE QueueInv
  OBVIOUS
<1>1. QueueTypes
  BY DEF Init, QueueTypes, Steps
<1>2. QueuesInTime /\ TicketsInTime /\ WaitsWithTicket
  BY DEF Init, QueuesInTime, TicketsInTime, InTime, WaitsWithTicket
<1>3. RankedBy([s \in Sessions |-> [a \in Accounts |-> 0]], 1)
  BY DEF Init, RankedBy
<1>4. TicketsOwned
  BY DEF Init, TicketsOwned, Queued
<1> QED BY <1>1, <1>2, <1>3, <1>4 DEF QueueInv, Ranked

\* now is later, queues lost tickets and kept the order of the others.
Shrunk(q2, q) ==
  \E f : /\ Embeds(f, q2, q)
         /\ \A i \in DOMAIN q2 : q2[i].at = q[f[i]].at /\ q2[i].who = q[f[i]].who

Thinned(t2, t) ==
  \E f : /\ Embeds(f, t2, t)
         /\ \A i \in DOMAIN t2 : t2[i].at = t[f[i]].at /\ t2[i].account = t[f[i]].account

\* A part of a sequence in time is in time, and stays so.
LEMMA PartInTime ==
  ASSUME NEW q2, NEW q, NEW f, NEW t \in Nat, NEW u \in Nat, t <= u, Embeds(f, q2, q), InTime(q, t),
         \A i \in DOMAIN q : q[i].at \in Nat,
         \A i \in DOMAIN q2 : q2[i].at = q[f[i]].at
  PROVE  InTime(q2, u)
<1>1. \A i \in DOMAIN q2 : f[i] \in DOMAIN q
  BY DEF Embeds
<1>2. ASSUME NEW i \in DOMAIN q2 PROVE q2[i].at <= u
  <2>1. q[f[i]].at \in Nat /\ q[f[i]].at <= t
    BY <1>1 DEF InTime
  <2> QED BY <2>1
<1>3. ASSUME NEW i \in DOMAIN q2, NEW j \in DOMAIN q2, i < j PROVE q2[i].at <= q2[j].at
  <2>1. f[i] < f[j]
    BY <1>3 DEF Embeds
  <2> QED BY <1>1, <2>1 DEF InTime
<1> QED BY <1>2, <1>3 DEF InTime

\* Losing tickets disturbs no order.
LEMMA ShrinkingKeepsOrder ==
  ASSUME QueueInv, QueueTypes', now <= now',
         \A a \in Accounts : Shrunk(queue'[a], queue[a]),
         \A s \in Sessions : Thinned(tickets'[s], tickets[s])
  PROVE  QueuesInTime' /\ TicketsInTime' /\ Ranked'
<1>1. /\ now \in Nat /\ now' \in Nat
      /\ \A a \in Accounts : queue[a] \in Seq(Ticket) /\ queue'[a] \in Seq(Ticket)
      /\ \A s \in Sessions : tickets[s] \in Seq(Held) /\ tickets'[s] \in Seq(Held)
  BY DEF QueueInv, QueueTypes
<1>2. ASSUME NEW a \in Accounts PROVE InTime(queue'[a], now')
  <2>1. PICK f : /\ Embeds(f, queue'[a], queue[a])
                 /\ \A i \in DOMAIN queue'[a] : queue'[a][i].at = queue[a][f[i]].at
    BY DEF Shrunk
  <2>2. InTime(queue[a], now)
    BY DEF QueueInv, QueuesInTime
  <2>3. \A i \in DOMAIN queue[a] : queue[a][i] \in Ticket
    BY <1>1
  <2>4. \A i \in DOMAIN queue[a] : queue[a][i].at \in Nat
    BY <2>3 DEF Ticket
  <2> QED BY <1>1, <2>1, <2>2, <2>4, PartInTime
<1>3. ASSUME NEW s \in Sessions PROVE InTime(tickets'[s], now')
  <2>1. PICK f : /\ Embeds(f, tickets'[s], tickets[s])
                 /\ \A i \in DOMAIN tickets'[s] : tickets'[s][i].at = tickets[s][f[i]].at
    BY DEF Thinned
  <2>2. InTime(tickets[s], now)
    BY DEF QueueInv, TicketsInTime
  <2>3. \A i \in DOMAIN tickets[s] : tickets[s][i] \in Held
    BY <1>1
  <2>4. \A i \in DOMAIN tickets[s] : tickets[s][i].at \in Nat
    BY <2>3 DEF Held
  <2> QED BY <1>1, <2>1, <2>2, <2>4, PartInTime
<1>4. PICK rank, top : RankedBy(rank, top)
  BY DEF QueueInv, Ranked
<1>5. RankedBy(rank, top)'
  <2>1. ASSUME NEW a \in Accounts, NEW i \in DOMAIN queue'[a], NEW j \in DOMAIN queue'[a], i < j
        PROVE  rank[queue'[a][i].who][a] < rank[queue'[a][j].who][a]
    <3>1. PICK f : /\ Embeds(f, queue'[a], queue[a])
                   /\ \A n \in DOMAIN queue'[a] : queue'[a][n].who = queue[a][f[n]].who
      BY DEF Shrunk
    <3>2. f[i] \in DOMAIN queue[a] /\ f[j] \in DOMAIN queue[a] /\ f[i] < f[j]
      BY <2>1, <3>1 DEF Embeds
    <3> QED BY <1>4, <3>1, <3>2 DEF RankedBy
  <2>2. ASSUME NEW s \in Sessions, NEW i \in DOMAIN tickets'[s], NEW j \in DOMAIN tickets'[s], i < j
        PROVE  rank[s][tickets'[s][i].account] < rank[s][tickets'[s][j].account]
    <3>1. PICK f : /\ Embeds(f, tickets'[s], tickets[s])
                   /\ \A n \in DOMAIN tickets'[s] : tickets'[s][n].account = tickets[s][f[n]].account
      BY DEF Thinned
    <3>2. f[i] \in DOMAIN tickets[s] /\ f[j] \in DOMAIN tickets[s] /\ f[i] < f[j]
      BY <2>2, <3>1 DEF Embeds
    <3> QED BY <1>4, <3>1, <3>2 DEF RankedBy
  <2> QED BY <1>4, <2>1, <2>2 DEF RankedBy
<1> QED BY <1>2, <1>3, <1>5 DEF QueuesInTime, TicketsInTime, Ranked

\* A sequence is a subsequence of itself.
LEMMA SameShrunk ==
  ASSUME NEW q \in Seq(Ticket) PROVE Shrunk(q, q)
<1> DEFINE f == [i \in DOMAIN q |-> i]
<1>1. Embeds(f, q, q) /\ \A i \in DOMAIN q : f[i] = i
  BY DEF Embeds
<1> HIDE DEF f
<1> QED BY <1>1 DEF Shrunk

LEMMA SameThinned ==
  ASSUME NEW t \in Seq(Held) PROVE Thinned(t, t)
<1> DEFINE f == [i \in DOMAIN t |-> i]
<1>1. Embeds(f, t, t) /\ \A i \in DOMAIN t : f[i] = i
  BY DEF Embeds
<1> HIDE DEF f
<1> QED BY <1>1 DEF Thinned

\* What is retained of a queue is a part of it, in its order.
LEMMA RetainShrinks ==
  ASSUME NEW q \in Seq(Ticket), NEW kept \in SUBSET DOMAIN q
  PROVE  /\ Retain(q, kept) \in Seq(Ticket) /\ Shrunk(Retain(q, kept), q)
         /\ \A i \in DOMAIN Retain(q, kept) : \E n \in kept : Retain(q, kept)[i] = q[n]
<1>1. /\ Retain(q, kept) \in Seq(Ticket)
      /\ \E f : /\ Embeds(f, Retain(q, kept), q)
                /\ \A i \in DOMAIN Retain(q, kept) : f[i] \in kept /\ Retain(q, kept)[i] = q[f[i]]
  BY RetainEmbeds
<1> QED BY <1>1 DEF Shrunk

LEMMA WithoutShrinks ==
  ASSUME QueueTypes, NEW a \in Accounts, NEW s
  PROVE  /\ Without(a, s) \in Seq(Ticket) /\ Shrunk(Without(a, s), queue[a])
         /\ \A i \in DOMAIN Without(a, s) :
              /\ Without(a, s)[i].who # s
              /\ \E n \in DOMAIN queue[a] : Without(a, s)[i] = queue[a][n]
<1> DEFINE kept == {i \in DOMAIN queue[a] : queue[a][i].who # s}
<1>1. queue[a] \in Seq(Ticket) /\ kept \in SUBSET DOMAIN queue[a]
  BY DEF QueueTypes
<1>2. \A n \in kept : n \in DOMAIN queue[a] /\ queue[a][n].who # s
  OBVIOUS
<1>3. Without(a, s) = Retain(queue[a], kept)
  BY DEF Without
<1> HIDE DEF kept
<1>4. /\ Retain(queue[a], kept) \in Seq(Ticket) /\ Shrunk(Retain(queue[a], kept), queue[a])
      /\ \A i \in DOMAIN Retain(queue[a], kept) :
           \E n \in kept : Retain(queue[a], kept)[i] = queue[a][n]
  BY <1>1, RetainShrinks
<1> QED BY <1>2, <1>3, <1>4

\* A shorter queue has nobody new in it.
LEMMA ShrunkQueued ==
  ASSUME NEW a \in Accounts, Shrunk(queue'[a], queue[a])
  PROVE  Queued(a)' \subseteq Queued(a)
BY DEF Shrunk, Embeds, Queued

\* Who queues, and for what, is read off the queue and the tickets.
LEMMA QueuedSame ==
  ASSUME NEW a, queue'[a] = queue[a] PROVE Queued(a)' = Queued(a)
BY DEF Queued

LEMMA AccountsSame ==
  ASSUME NEW s, tickets'[s] = tickets[s] PROVE TicketAccounts(s)' = TicketAccounts(s)
BY DEF TicketAccounts

\* What a session does that touches neither queues nor tickets.
LEMMA QueueQuiet ==
  ASSUME QueueInv, UNCHANGED <<now, budget, queue, tickets, marked, waiting>>,
         NEW s \in Sessions, NEW step \in Steps, pc' = [pc EXCEPT ![s] = step] \/ pc' = pc,
         step # "done", step = "waiting" => tickets[s] # << >>
  PROVE  QueueInv'
<1>1. QueueTypes'
  BY DEF QueueInv, QueueTypes
<1>2. WaitsWithTicket'
  BY DEF QueueInv, QueueTypes, WaitsWithTicket
<1>3. TicketsOwned'
  <2>1. \A a \in Accounts : \A u \in Queued(a)' : a \in TicketAccounts(u)'
    <3>1. \A a : Queued(a)' = Queued(a)
      BY QueuedSame
    <3>2. \A u : TicketAccounts(u)' = TicketAccounts(u)
      BY AccountsSame
    <3> QED BY <3>1, <3>2 DEF QueueInv, TicketsOwned
  <2>2. \A u \in Sessions : pc'[u] = "done" => pc[u] = "done"
    BY DEF QueueInv, QueueTypes
  <2>3. tickets' = tickets /\ marked' = marked /\ waiting' = waiting
    OBVIOUS
  <2>4. /\ \A u \in waiting : marked[u]
        /\ \A u \in Sessions : pc[u] = "done" => tickets[u] = << >> /\ ~ marked[u]
    BY DEF QueueInv, TicketsOwned
  <2>5. /\ \A u \in waiting' : marked'[u]
        /\ \A u \in Sessions : pc'[u] = "done" => tickets'[u] = << >> /\ ~ marked'[u]
    BY <2>2, <2>3, <2>4, Zenon
  <2> QED BY <2>1, <2>5 DEF TicketsOwned
<1>4. QueuesInTime' /\ TicketsInTime' /\ Ranked'
  BY DEF QueueInv, QueuesInTime, TicketsInTime, Ranked, RankedBy
<1> QED BY <1>1, <1>2, <1>3, <1>4 DEF QueueInv

\* A ticket taken last is last in the queue.
LEMMA AppendPlaces ==
  ASSUME NEW T, NEW q \in Seq(T), NEW e \in T
  PROVE  /\ Append(q, e) \in Seq(T)
         /\ DOMAIN Append(q, e) = DOMAIN q \cup {Len(q) + 1}
         /\ \A i \in DOMAIN q : Append(q, e)[i] = q[i] /\ i < Len(q) + 1
         /\ Append(q, e)[Len(q) + 1] = e
         /\ Len(q) + 1 \notin DOMAIN q /\ Len(q) + 1 \in Nat
  OBVIOUS

LEMMA AppendInTime ==
  ASSUME NEW T, NEW q \in Seq(T), NEW e \in T, NEW t \in Nat, e.at = t, InTime(q, t)
  PROVE  InTime(Append(q, e), t)
<1> DEFINE n == Len(q) + 1
           p == Append(q, e)
<1>1. /\ DOMAIN p = DOMAIN q \cup {n} /\ p[n] = e /\ n \in Nat
      /\ \A i \in DOMAIN q : p[i] = q[i] /\ i < n /\ i \in Nat
  BY AppendPlaces
<1> HIDE DEF n, p
<1>2. ASSUME NEW i \in DOMAIN p PROVE p[i].at <= t
  BY <1>1 DEF InTime
<1>3. ASSUME NEW i \in DOMAIN p, NEW j \in DOMAIN p, i < j PROVE p[i].at <= p[j].at
  <2>1. CASE j = n
    BY <1>1, <1>2, <2>1
  <2>2. CASE j # n
    <3>1. i \in DOMAIN q /\ j \in DOMAIN q
      BY <1>1, <1>3, <2>2
    <3> QED BY <1>1, <1>3, <3>1 DEF InTime
  <2> QED BY <2>1, <2>2
<1>4. InTime(p, t)
  BY <1>2, <1>3 DEF InTime
<1> QED BY <1>4 DEF p

\* register_waiter_if_saturated and the session's bookkeeping.
LEMMA QueueRegister ==
  ASSUME QueueInv, NEW s \in Sessions, NEW a \in Accounts, a \notin TicketAccounts(s),
         Register(s, a), now' = now, budget' = budget,
         pc' = [pc EXCEPT ![s] = "route"] \/ pc' = pc, pc[s] \in {"route", "requeue"}
  PROVE  QueueInv'
<1> DEFINE W == Without(a, s)
           e == [who |-> s, at |-> now, until |-> now + budget]
           h == [account |-> a, at |-> now]
           n == Len(W) + 1
           m == Len(tickets[s]) + 1
<1>0. QueueTypes
  BY DEF QueueInv
<1>1. /\ now \in Nat /\ now + budget \in Nat
      /\ queue \in [Accounts -> Seq(Ticket)] /\ tickets \in [Sessions -> Seq(Held)]
      /\ pc \in [Sessions -> Steps] /\ waiting \subseteq Limited /\ marked \in [Sessions -> BOOLEAN]
  BY <1>0, RecoveryAssumption DEF QueueTypes
<1>2. /\ W \in Seq(Ticket) /\ Shrunk(W, queue[a])
      /\ \A i \in DOMAIN W : /\ W[i].who # s
                             /\ \E k \in DOMAIN queue[a] : W[i] = queue[a][k]
  BY <1>0, WithoutShrinks
<1>3. /\ queue' = [queue EXCEPT ![a] = Append(W, e)]
      /\ tickets' = [tickets EXCEPT ![s] = Append(@, h)]
      /\ marked' = [marked EXCEPT ![s] = TRUE]
      /\ waiting' = waiting \cup ({s} \cap Limited)
  BY DEF Register
<1> HIDE DEF W
<1>4. e \in Ticket /\ e.who = s /\ e.at = now /\ h \in Held /\ h.account = a /\ h.at = now
  BY <1>1 DEF Ticket, Held
<1> HIDE DEF e, h
<1>5. /\ queue'[a] \in Seq(Ticket) /\ DOMAIN queue'[a] = DOMAIN W \cup {n}
      /\ \A i \in DOMAIN W : queue'[a][i] = W[i] /\ i < n /\ i \in Nat
      /\ queue'[a][n] = e /\ n \in Nat
      /\ \A b \in Accounts \ {a} : queue'[b] = queue[b]
  <2>1. queue'[a] = Append(W, e) /\ \A b \in Accounts \ {a} : queue'[b] = queue[b]
    BY <1>1, <1>3
  <2>2. \A i \in DOMAIN W : i \in Nat
    BY <1>2
  <2> QED BY <1>2, <1>4, <2>1, <2>2, AppendPlaces
<1>6. /\ tickets'[s] \in Seq(Held) /\ DOMAIN tickets'[s] = DOMAIN tickets[s] \cup {m}
      /\ \A i \in DOMAIN tickets[s] : tickets'[s][i] = tickets[s][i] /\ i < m /\ i \in Nat
      /\ tickets'[s][m] = h /\ m \in Nat
      /\ \A u \in Sessions \ {s} : tickets'[u] = tickets[u]
  <2>1. tickets'[s] = Append(tickets[s], h) /\ \A u \in Sessions \ {s} : tickets'[u] = tickets[u]
    BY <1>1, <1>3
  <2>2. tickets[s] \in Seq(Held)
    BY <1>1
  <2>3. \A i \in DOMAIN tickets[s] : i \in Nat
    BY <2>2
  <2> QED BY <1>4, <2>1, <2>2, <2>3, AppendPlaces
<1>7. QueueTypes'
  <2>1. queue' \in [Accounts -> Seq(Ticket)]
    BY <1>1, <1>3, <1>5
  <2>2. tickets' \in [Sessions -> Seq(Held)]
    BY <1>1, <1>3, <1>6
  <2>3. pc' \in [Sessions -> Steps] /\ marked' \in [Sessions -> BOOLEAN] /\ waiting' \subseteq Limited
    BY <1>1, <1>3 DEF Steps
  <2> QED BY <1>0, <2>1, <2>2, <2>3 DEF QueueTypes
<1>8. QueuesInTime'
  <2>1. InTime(queue[a], now) /\ \A b \in Accounts : InTime(queue[b], now)
    BY DEF QueueInv, QueuesInTime
  <2>2. \A i \in DOMAIN queue[a] : queue[a][i] \in Ticket
    BY <1>1
  <2>3. \A i \in DOMAIN queue[a] : queue[a][i].at \in Nat
    BY <2>2 DEF Ticket
  <2>4. PICK f : Embeds(f, W, queue[a]) /\ \A i \in DOMAIN W : W[i].at = queue[a][f[i]].at
    BY <1>2 DEF Shrunk
  <2>5. InTime(W, now)
    BY <1>1, <2>1, <2>3, <2>4, PartInTime
  <2>6. InTime(Append(W, e), now)
    BY <1>1, <1>2, <1>4, <2>5, AppendInTime
  <2>7. queue'[a] = Append(W, e)
    BY <1>1, <1>3
  <2> QED BY <1>5, <2>1, <2>6, <2>7 DEF QueuesInTime
<1>9. TicketsInTime'
  <2>1. \A u \in Sessions : InTime(tickets[u], now)
    BY DEF QueueInv, TicketsInTime
  <2>2. tickets[s] \in Seq(Held) /\ tickets'[s] = Append(tickets[s], h)
    BY <1>1, <1>3
  <2>3. InTime(tickets[s], now)
    BY <2>1
  <2>4. InTime(Append(tickets[s], h), now)
    BY <1>1, <1>4, <2>2, <2>3, AppendInTime
  <2> QED BY <1>6, <2>1, <2>2, <2>4 DEF TicketsInTime
<1>10. Ranked'
  <2>1. PICK rank, top : RankedBy(rank, top)
    BY DEF QueueInv, Ranked
  <2> DEFINE rank2 == [rank EXCEPT ![s][a] = top]
  <2>2. /\ rank \in [Sessions -> [Accounts -> Nat]] /\ top \in Nat
        /\ \A u \in Sessions, b \in Accounts : rank[u][b] < top
    BY <2>1 DEF RankedBy
  <2>3. /\ rank2 \in [Sessions -> [Accounts -> Nat]] /\ rank2[s][a] = top
        /\ \A u \in Sessions, b \in Accounts : u # s \/ b # a => rank2[u][b] = rank[u][b]
    BY <2>2
  <2> HIDE DEF rank2
  <2>4. \A u \in Sessions, b \in Accounts : rank2[u][b] < top + 1
    <3> SUFFICES ASSUME NEW u \in Sessions, NEW b \in Accounts PROVE rank2[u][b] < top + 1
      OBVIOUS
    <3>1. rank[u][b] \in Nat /\ rank[u][b] < top
      BY <2>2
    <3>2. rank2[u][b] = top \/ rank2[u][b] = rank[u][b]
      BY <2>3
    <3> QED BY <2>2, <3>1, <3>2
  <2>5. ASSUME NEW b \in Accounts, NEW i \in DOMAIN queue'[b], NEW j \in DOMAIN queue'[b], i < j
        PROVE  rank2[queue'[b][i].who][b] < rank2[queue'[b][j].who][b]
    <3>0. ASSUME NEW c \in Accounts, NEW k \in DOMAIN queue[c] PROVE queue[c][k].who \in Sessions
      <4>1. queue[c][k] \in Ticket
        BY <1>1
      <4> QED BY <4>1 DEF Ticket
    <3>1. CASE b # a
      <4>1. queue'[b] = queue[b]
        BY <1>5, <3>1
      <4>2. rank[queue[b][i].who][b] < rank[queue[b][j].who][b]
        BY <2>1, <2>5, <4>1 DEF RankedBy
      <4>3. queue[b][i].who \in Sessions /\ queue[b][j].who \in Sessions
        BY <3>0, <4>1
      <4> QED BY <2>3, <3>1, <4>1, <4>2, <4>3
    <3>2. CASE b = a
      <4>1. ASSUME NEW k \in DOMAIN W
            PROVE  /\ queue'[b][k].who = W[k].who /\ W[k].who \in Sessions
                   /\ rank2[W[k].who][b] = rank[W[k].who][b]
        <5>1. PICK g \in DOMAIN queue[a] : W[k] = queue[a][g]
          BY <1>2
        <5>2. W[k].who \in Sessions /\ W[k].who # s
          BY <1>2, <3>0, <5>1
        <5> QED BY <1>5, <2>3, <3>2, <5>2
      <4>2. i \in DOMAIN W
        <5>1. i = n \/ i \in DOMAIN W
          BY <1>5, <3>2
        <5>2. j = n \/ j \in DOMAIN W
          BY <1>5, <3>2
        <5>3. i # n
          BY <1>5, <2>5, <5>2
        <5> QED BY <5>1, <5>3
      <4>3. CASE j = n
        <5>1. queue'[b][j].who = s
          BY <1>4, <1>5, <3>2, <4>3
        <5> QED BY <2>2, <2>3, <3>2, <4>1, <4>2, <5>1
      <4>4. CASE j # n
        <5>1. j \in DOMAIN W
          BY <1>5, <3>2, <4>4
        <5>2. PICK f : Embeds(f, W, queue[a]) /\ \A k \in DOMAIN W : W[k].who = queue[a][f[k]].who
          BY <1>2 DEF Shrunk
        <5>3. f[i] \in DOMAIN queue[a] /\ f[j] \in DOMAIN queue[a] /\ f[i] < f[j]
          BY <2>5, <4>2, <5>1, <5>2 DEF Embeds
        <5>4. rank[queue[a][f[i]].who][a] < rank[queue[a][f[j]].who][a]
          BY <2>1, <5>3 DEF RankedBy
        <5> QED BY <3>2, <4>1, <4>2, <5>1, <5>2, <5>4
      <4> QED BY <4>3, <4>4
    <3> QED BY <3>1, <3>2
  <2>6. ASSUME NEW u \in Sessions, NEW i \in DOMAIN tickets'[u], NEW j \in DOMAIN tickets'[u], i < j
        PROVE  rank2[u][tickets'[u][i].account] < rank2[u][tickets'[u][j].account]
    <3>0. ASSUME NEW v \in Sessions, NEW k \in DOMAIN tickets[v]
          PROVE  tickets[v][k].account \in Accounts
      <4>1. tickets[v][k] \in Held
        BY <1>1
      <4> QED BY <4>1 DEF Held
    <3>1. CASE u # s
      <4>1. tickets'[u] = tickets[u]
        BY <1>6, <3>1
      <4>2. rank[u][tickets[u][i].account] < rank[u][tickets[u][j].account]
        BY <2>1, <2>6, <4>1 DEF RankedBy
      <4>3. tickets[u][i].account \in Accounts /\ tickets[u][j].account \in Accounts
        BY <3>0, <4>1
      <4> QED BY <2>3, <3>1, <4>1, <4>2, <4>3
    <3>2. CASE u = s
      <4>1. ASSUME NEW k \in DOMAIN tickets[s]
            PROVE  /\ tickets'[u][k].account = tickets[s][k].account
                   /\ tickets[s][k].account \in Accounts
                   /\ rank2[u][tickets[s][k].account] = rank[s][tickets[s][k].account]
        <5>1. tickets[s][k].account \in Accounts /\ tickets[s][k].account # a
          BY <3>0 DEF TicketAccounts
        <5> QED BY <1>6, <2>3, <3>2, <5>1
      <4>2. i \in DOMAIN tickets[s]
        <5>1. i = m \/ i \in DOMAIN tickets[s]
          BY <1>6, <3>2
        <5>2. j = m \/ j \in DOMAIN tickets[s]
          BY <1>6, <3>2
        <5>3. i # m
          BY <1>6, <2>6, <5>2
        <5> QED BY <5>1, <5>3
      <4>3. CASE j = m
        <5>1. tickets'[u][j].account = a
          BY <1>4, <1>6, <3>2, <4>3
        <5> QED BY <2>2, <2>3, <3>2, <4>1, <4>2, <5>1
      <4>4. CASE j # m
        <5>1. j \in DOMAIN tickets[s]
          BY <1>6, <3>2, <4>4
        <5>2. rank[s][tickets[s][i].account] < rank[s][tickets[s][j].account]
          BY <2>1, <2>6, <4>2, <5>1 DEF RankedBy
        <5> QED BY <3>2, <4>1, <4>2, <5>1, <5>2
      <4> QED BY <4>3, <4>4
    <3> QED BY <3>1, <3>2
  <2>7. RankedBy(rank2, top + 1)'
    BY <2>2, <2>3, <2>4, <2>5, <2>6 DEF RankedBy
  <2> QED BY <2>7 DEF Ranked
<1>11. WaitsWithTicket'
  <2>1. \A u \in Sessions : pc'[u] = "waiting" => u # s /\ pc[u] = "waiting"
    BY <1>1
  <2> QED BY <1>6, <2>1 DEF QueueInv, WaitsWithTicket
<1>12. TicketsOwned'
  <2>0. /\ \A b \in Accounts : \A u \in Queued(b) : b \in TicketAccounts(u)
        /\ \A u \in waiting : marked[u]
        /\ \A u \in Sessions : pc[u] = "done" => tickets[u] = << >> /\ ~ marked[u]
    BY DEF QueueInv, TicketsOwned
  <2>1. ASSUME NEW u PROVE TicketAccounts(u) \subseteq TicketAccounts(u)'
    <3>1. CASE u = s
      BY <1>6, <3>1 DEF TicketAccounts
    <3>2. CASE u # s
      <4>1. tickets'[u] = tickets[u]
        BY <1>3, <1>1, <3>2
      <4> QED BY <4>1, AccountsSame
    <3> QED BY <3>1, <3>2
  <2>2. a \in TicketAccounts(s)'
    BY <1>4, <1>6 DEF TicketAccounts
  <2>3. ASSUME NEW b \in Accounts, NEW u \in Queued(b)' PROVE b \in TicketAccounts(u)'
    <3>1. CASE b # a
      <4>1. u \in Queued(b)
        BY <1>5, <3>1, QueuedSame
      <4> QED BY <2>0, <2>1, <4>1
    <3>2. CASE b = a /\ u # s
      <4>1. u \in Queued(a)
        BY <1>2, <1>4, <1>5, <3>2 DEF Queued
      <4> QED BY <2>0, <2>1, <3>2, <4>1
    <3> QED BY <2>2, <3>1, <3>2
  <2>4. \A u \in waiting' : marked'[u]
    <3>1. marked'[s] /\ \A u \in Sessions \ {s} : marked'[u] = marked[u]
      BY <1>1, <1>3
    <3>2. waiting' \subseteq Sessions /\ \A u \in waiting' : u = s \/ u \in waiting
      BY <1>1, <1>3, RecoveryAssumption
    <3> QED BY <2>0, <3>1, <3>2
  <2>5. ASSUME NEW u \in Sessions, pc'[u] = "done" PROVE tickets'[u] = << >> /\ ~ marked'[u]
    <3>1. u # s /\ pc[u] = "done"
      BY <1>1, <2>5
    <3>2. tickets'[u] = tickets[u] /\ marked'[u] = marked[u]
      BY <1>1, <1>3, <3>1
    <3> QED BY <2>0, <3>1, <3>2
  <2> QED BY <2>3, <2>4, <2>5 DEF TicketsOwned
<1> QED BY <1>7, <1>8, <1>9, <1>10, <1>11, <1>12 DEF QueueInv

\* cancel_all_waiters and unmark_downstream_waiting.
LEMMA QueueCancel ==
  ASSUME QueueInv, NEW s \in Sessions, CancelAll(s), now' = now, budget' = budget,
         NEW step \in Steps \ {"waiting"}, pc' = [pc EXCEPT ![s] = step]
  PROVE  QueueInv'
<1>0. QueueTypes
  BY DEF QueueInv
<1>1. /\ now \in Nat
      /\ queue \in [Accounts -> Seq(Ticket)] /\ tickets \in [Sessions -> Seq(Held)]
      /\ pc \in [Sessions -> Steps] /\ waiting \subseteq Limited /\ marked \in [Sessions -> BOOLEAN]
  BY <1>0 DEF QueueTypes
<1>2. /\ queue' = [a \in Accounts |-> IF a \in TicketAccounts(s) THEN Without(a, s) ELSE queue[a]]
      /\ tickets' = [tickets EXCEPT ![s] = << >>]
      /\ waiting' = (IF marked[s] THEN waiting \ {s} ELSE waiting)
      /\ marked' = [marked EXCEPT ![s] = FALSE]
  BY DEF CancelAll
<1>3. /\ \A b \in Accounts : \A u \in Queued(b) : b \in TicketAccounts(u)
      /\ \A u \in waiting : marked[u]
      /\ \A u \in Sessions : pc[u] = "done" => tickets[u] = << >> /\ ~ marked[u]
  BY DEF QueueInv, TicketsOwned
<1>4. ASSUME NEW a \in Accounts
      PROVE  queue'[a] \in Seq(Ticket) /\ Shrunk(queue'[a], queue[a]) /\ s \notin Queued(a)'
  <2>1. CASE a \in TicketAccounts(s)
    <3>1. queue'[a] = Without(a, s)
      BY <1>2, <2>1
    <3>2. /\ Without(a, s) \in Seq(Ticket) /\ Shrunk(Without(a, s), queue[a])
          /\ \A i \in DOMAIN Without(a, s) : Without(a, s)[i].who # s
      BY <1>0, WithoutShrinks
    <3>3. s \notin Queued(a)'
      BY <3>1, <3>2 DEF Queued
    <3> QED BY <3>1, <3>2, <3>3
  <2>2. CASE a \notin TicketAccounts(s)
    <3>1. queue'[a] = queue[a]
      BY <1>2, <2>2
    <3>2. queue[a] \in Seq(Ticket) /\ s \notin Queued(a)
      BY <1>1, <1>3, <2>2
    <3> QED BY <3>1, <3>2, SameShrunk, QueuedSame
  <2> QED BY <2>1, <2>2
<1>5. ASSUME NEW u \in Sessions
      PROVE  /\ tickets'[u] \in Seq(Held) /\ Thinned(tickets'[u], tickets[u])
             /\ u # s => tickets'[u] = tickets[u]
  <2>1. CASE u = s
    <3>1. tickets'[s] = << >>
      BY <1>1, <1>2
    <3>2. Embeds(<< >>, << >>, tickets[s])
      BY DEF Embeds
    <3>3. Thinned(<< >>, tickets[s])
      BY <3>2 DEF Thinned
    <3>4. << >> \in Seq(Held)
      OBVIOUS
    <3> QED BY <2>1, <3>1, <3>3, <3>4
  <2>2. CASE u # s
    <3>1. tickets'[u] = tickets[u] /\ tickets[u] \in Seq(Held)
      BY <1>1, <1>2, <2>2
    <3> QED BY <3>1, SameThinned
  <2> QED BY <2>1, <2>2
<1>6. QueueTypes'
  <2>1. queue' \in [Accounts -> Seq(Ticket)]
    BY <1>2, <1>4
  <2>2. tickets' \in [Sessions -> Seq(Held)]
    BY <1>1, <1>2, <1>5
  <2>3. pc' \in [Sessions -> Steps] /\ marked' \in [Sessions -> BOOLEAN] /\ waiting' \subseteq Limited
    BY <1>1, <1>2
  <2> QED BY <1>0, <2>1, <2>2, <2>3 DEF QueueTypes
<1>7. QueuesInTime' /\ TicketsInTime' /\ Ranked'
  <2>1. now <= now'
    BY <1>1
  <2> QED BY <1>4, <1>5, <1>6, <2>1, ShrinkingKeepsOrder
<1>8. WaitsWithTicket'
  <2>1. \A u \in Sessions : pc'[u] = "waiting" => u # s /\ pc[u] = "waiting"
    BY <1>1
  <2> QED BY <1>5, <2>1 DEF QueueInv, WaitsWithTicket
<1>9. TicketsOwned'
  <2>1. ASSUME NEW b \in Accounts, NEW u \in Queued(b)' PROVE b \in TicketAccounts(u)'
    <3>1. u # s /\ u \in Queued(b)
      BY <1>4, ShrunkQueued
    <3>2. tickets'[u] = tickets[u]
      BY <1>1, <1>2, <3>1
    <3>3. TicketAccounts(u)' = TicketAccounts(u)
      BY <3>2, AccountsSame
    <3> QED BY <1>3, <3>1, <3>3
  <2>2. \A u \in waiting' : marked'[u]
    <3>1. \A u \in waiting' : u # s /\ u \in waiting
      BY <1>2, <1>3
    <3>2. waiting \subseteq Sessions /\ \A u \in Sessions \ {s} : marked'[u] = marked[u]
      BY <1>1, <1>2, RecoveryAssumption
    <3> QED BY <1>3, <3>1, <3>2
  <2>3. ASSUME NEW u \in Sessions, pc'[u] = "done" PROVE tickets'[u] = << >> /\ ~ marked'[u]
    <3>1. CASE u = s
      <4>1. tickets'[s] = << >> /\ marked'[s] = FALSE
        BY <1>1, <1>2
      <4> QED BY <3>1, <4>1
    <3>2. CASE u # s
      <4>1. tickets'[u] = tickets[u] /\ marked'[u] = marked[u] /\ pc[u] = "done"
        BY <1>1, <1>2, <2>3, <3>2
      <4> QED BY <1>3, <4>1
    <3> QED BY <3>1, <3>2
  <2> QED BY <2>1, <2>2, <2>3 DEF TicketsOwned
<1> QED BY <1>6, <1>7, <1>8, <1>9 DEF QueueInv

\* What does not touch the tickets of the sessions only lets queues shrink: the
\* clock (prune_account) and update_runtime_tuning.
LEMMA QueuePruned ==
  ASSUME QueueInv, UNCHANGED <<pc, tickets, marked, waiting>>,
         now' \in Nat, now <= now', budget' \in Budgets, queue' \in [Accounts -> Seq(Ticket)],
         \A a \in Accounts : Shrunk(queue'[a], queue[a])
  PROVE  QueueInv'
<1>1. QueueTypes'
  BY DEF QueueInv, QueueTypes
<1>2. \A s \in Sessions : Thinned(tickets'[s], tickets[s])
  <2>1. \A s \in Sessions : tickets'[s] = tickets[s] /\ tickets[s] \in Seq(Held)
    BY DEF QueueInv, QueueTypes
  <2> QED BY <2>1, SameThinned
<1>3. QueuesInTime' /\ TicketsInTime' /\ Ranked'
  BY <1>1, <1>2, ShrinkingKeepsOrder
<1>4. WaitsWithTicket'
  BY DEF QueueInv, WaitsWithTicket
<1>5. TicketsOwned'
  <2>1. ASSUME NEW b \in Accounts, NEW u \in Queued(b)' PROVE b \in TicketAccounts(u)'
    <3>1. u \in Queued(b)
      BY ShrunkQueued
    <3>2. TicketAccounts(u)' = TicketAccounts(u)
      BY AccountsSame
    <3> QED BY <3>1, <3>2 DEF QueueInv, TicketsOwned
  <2>2. /\ \A u \in waiting : marked[u]
        /\ \A u \in Sessions : pc[u] = "done" => tickets[u] = << >> /\ ~ marked[u]
    BY DEF QueueInv, TicketsOwned
  <2>3. pc' = pc /\ tickets' = tickets /\ marked' = marked /\ waiting' = waiting
    OBVIOUS
  <2> QED BY <2>1, <2>2, <2>3 DEF TicketsOwned
<1> QED BY <1>1, <1>3, <1>4, <1>5 DEF QueueInv

LEMMA QueueTick == QueueInv /\ Tick => QueueInv'
<1> SUFFICES ASSUME QueueInv, Tick PROVE QueueInv'
  OBVIOUS
<1>1. /\ now \in Nat /\ budget \in Budgets /\ queue \in [Accounts -> Seq(Ticket)]
  BY DEF QueueInv, QueueTypes
<1>2. /\ UNCHANGED <<pc, tickets, marked, waiting>> /\ budget' = budget /\ now' = now + 1
      /\ queue' = [a \in Accounts |->
           Retain(queue[a], {i \in DOMAIN queue[a] : now + 1 < queue[a][i].until})]
  BY DEF Tick, Prune, session
<1>3. ASSUME NEW a \in Accounts
      PROVE  queue'[a] \in Seq(Ticket) /\ Shrunk(queue'[a], queue[a])
  <2> DEFINE kept == {i \in DOMAIN queue[a] : now + 1 < queue[a][i].until}
  <2>1. queue'[a] = Retain(queue[a], kept) /\ queue[a] \in Seq(Ticket) /\ kept \in SUBSET DOMAIN queue[a]
    BY <1>1, <1>2
  <2> HIDE DEF kept
  <2> QED BY <2>1, RetainShrinks
<1>4. queue' \in [Accounts -> Seq(Ticket)]
  BY <1>2, <1>3
<1>5. now' \in Nat /\ now <= now'
  BY <1>1, <1>2
<1> QED BY <1>1, <1>2, <1>3, <1>4, <1>5, QueuePruned

LEMMA QueueTuning ==
  ASSUME QueueInv, NEW b \in Budgets, UpdateTuning(b) PROVE QueueInv'
<1>1. /\ now \in Nat /\ b \in Nat /\ queue \in [Accounts -> Seq(Ticket)]
  BY RecoveryAssumption DEF QueueInv, QueueTypes
<1>2. /\ UNCHANGED <<pc, tickets, marked, waiting>> /\ budget' = b /\ now' = now
      /\ queue' = [a \in Accounts |-> [i \in DOMAIN queue[a] |->
           [queue[a][i] EXCEPT !.until = IF @ > now + b THEN now + b ELSE @]]]
  BY DEF UpdateTuning, session
<1>3. ASSUME NEW a \in Accounts
      PROVE  queue'[a] \in Seq(Ticket) /\ Shrunk(queue'[a], queue[a])
  <2>1. /\ queue[a] \in Seq(Ticket) /\ Len(queue[a]) \in Nat /\ DOMAIN queue[a] = 1 .. Len(queue[a])
        /\ \A i \in DOMAIN queue[a] : queue[a][i] \in Ticket
    BY <1>1
  <2>2. queue'[a] = [i \in DOMAIN queue[a] |->
           [queue[a][i] EXCEPT !.until = IF @ > now + b THEN now + b ELSE @]]
    BY <1>2
  <2>3. ASSUME NEW i \in DOMAIN queue[a]
        PROVE  /\ queue'[a][i] \in Ticket
               /\ queue'[a][i].at = queue[a][i].at /\ queue'[a][i].who = queue[a][i].who
    <3>1. queue[a][i] \in Ticket
      BY <2>1
    <3>2. queue'[a][i] = [queue[a][i] EXCEPT !.until = IF @ > now + b THEN now + b ELSE @]
      BY <2>2
    <3> DEFINE u == IF queue[a][i].until > now + b THEN now + b ELSE queue[a][i].until
    <3>3. queue'[a][i] = [queue[a][i] EXCEPT !.until = u]
      BY <3>2
    <3>4. u \in Nat
      BY <1>1, <3>1 DEF Ticket
    <3> HIDE DEF u
    <3> QED BY <3>1, <3>3, <3>4 DEF Ticket
  <2>4. queue'[a] \in [1 .. Len(queue[a]) -> Ticket] /\ DOMAIN queue'[a] = DOMAIN queue[a]
    BY <2>1, <2>2, <2>3
  <2>5. queue'[a] \in Seq(Ticket)
    BY <2>1, <2>4
  <2> DEFINE f == [i \in DOMAIN queue[a] |-> i]
  <2>6. Embeds(f, queue'[a], queue[a]) /\ \A i \in DOMAIN queue[a] : f[i] = i
    BY <2>4 DEF Embeds
  <2> HIDE DEF f
  <2> QED BY <2>3, <2>4, <2>5, <2>6 DEF Shrunk
<1>4. queue' \in [Accounts -> Seq(Ticket)]
  BY <1>2, <1>3
<1>5. now' \in Nat /\ now <= now' /\ budget' \in Budgets
  BY <1>1, <1>2
<1> QED BY <1>2, <1>3, <1>4, <1>5, QueuePruned

\* The head of a queue that leaves it was there once.
LEMMA TailShrinks ==
  ASSUME NEW q \in Seq(Ticket), q # << >>
  PROVE  /\ Tail(q) \in Seq(Ticket) /\ Shrunk(Tail(q), q)
         /\ \A i \in DOMAIN Tail(q) : i + 1 \in DOMAIN q /\ 1 < i + 1 /\ Tail(q)[i] = q[i + 1]
<1>1. /\ Len(q) \in Nat /\ DOMAIN q = 1 .. Len(q) /\ Len(q) # 0
  OBVIOUS
<1>2. /\ Tail(q) \in Seq(Ticket) /\ DOMAIN Tail(q) = 1 .. Len(q) - 1
      /\ \A i \in 1 .. Len(q) - 1 : Tail(q)[i] = q[i + 1]
  BY <1>1
<1> DEFINE f == [i \in 1 .. Len(q) - 1 |-> i + 1]
<1>3. Embeds(f, Tail(q), q) /\ \A i \in DOMAIN Tail(q) : f[i] = i + 1
  BY <1>1, <1>2 DEF Embeds
<1>4. \A i \in DOMAIN Tail(q) : i + 1 \in DOMAIN q /\ 1 < i + 1
  BY <1>1, <1>2
<1> HIDE DEF f
<1> QED BY <1>2, <1>3, <1>4 DEF Shrunk

\* try_probe grants the head of the queue the probe.
LEMMA QueueGrant ==
  ASSUME QueueInv, NEW s \in Sessions, NEW a \in Accounts, GrantProbe(s, a)
  PROVE  QueueInv'
<1> DEFINE kept == {i \in DOMAIN tickets[s] : tickets[s][i].account # a}
<1>0. QueueTypes
  BY DEF QueueInv
<1>1. /\ now \in Nat
      /\ queue \in [Accounts -> Seq(Ticket)] /\ tickets \in [Sessions -> Seq(Held)]
      /\ pc \in [Sessions -> Steps] /\ waiting \subseteq Limited /\ marked \in [Sessions -> BOOLEAN]
  BY <1>0 DEF QueueTypes
<1>2. /\ queue[a] # << >> /\ Head(queue[a]).who = s
      /\ queue' = [queue EXCEPT ![a] = Tail(@)]
      /\ tickets' = [tickets EXCEPT ![s] = Retain(tickets[s], kept)]
      /\ waiting' = waiting \ {s}
      /\ marked' = [marked EXCEPT ![s] = FALSE]
      /\ pc' = [pc EXCEPT ![s] = "route"]
      /\ now' = now /\ budget' = budget
  BY DEF GrantProbe, Grantable, Goto
<1>3. /\ \A b \in Accounts : \A u \in Queued(b) : b \in TicketAccounts(u)
      /\ \A u \in waiting : marked[u]
      /\ \A u \in Sessions : pc[u] = "done" => tickets[u] = << >> /\ ~ marked[u]
  BY DEF QueueInv, TicketsOwned
<1>4. ASSUME NEW b \in Accounts
      PROVE  /\ queue'[b] \in Seq(Ticket) /\ Shrunk(queue'[b], queue[b])
             /\ b = a => s \notin Queued(b)'
  <2>1. CASE b = a
    <3>1. queue'[a] = Tail(queue[a]) /\ queue[a] \in Seq(Ticket)
      BY <1>1, <1>2
    <3>2. /\ Tail(queue[a]) \in Seq(Ticket) /\ Shrunk(Tail(queue[a]), queue[a])
          /\ \A i \in DOMAIN Tail(queue[a]) :
               i + 1 \in DOMAIN queue[a] /\ 1 < i + 1 /\ Tail(queue[a])[i] = queue[a][i + 1]
      BY <1>2, <3>1, TailShrinks
    <3>3. 1 \in DOMAIN queue[a] /\ queue[a][1].who = s
      BY <1>2, <3>1
    <3>4. PICK rank, top : RankedBy(rank, top)
      BY DEF QueueInv, Ranked
    <3>5. rank[s][a] \in Nat
      BY <3>4 DEF RankedBy
    <3>6. ASSUME NEW i \in DOMAIN Tail(queue[a]), Tail(queue[a])[i].who = s PROVE FALSE
      <4>1. rank[queue[a][1].who][a] < rank[queue[a][i + 1].who][a]
        BY <3>2, <3>3, <3>4 DEF RankedBy
      <4>2. rank[s][a] < rank[s][a]
        BY <3>2, <3>3, <3>6, <4>1
      <4> QED BY <3>5, <4>2
    <3>7. s \notin Queued(a)'
      BY <3>1, <3>6 DEF Queued
    <3> QED BY <2>1, <3>1, <3>2, <3>7
  <2>2. CASE b # a
    <3>1. queue'[b] = queue[b] /\ queue[b] \in Seq(Ticket)
      BY <1>1, <1>2, <2>2
    <3> QED BY <2>2, <3>1, SameShrunk
  <2> QED BY <2>1, <2>2
<1>5. /\ tickets'[s] \in Seq(Held) /\ Thinned(tickets'[s], tickets[s])
      /\ \A n \in kept : \E i \in DOMAIN tickets'[s] : tickets'[s][i] = tickets[s][n]
  <2>1. tickets[s] \in Seq(Held) /\ kept \in SUBSET DOMAIN tickets[s]
    BY <1>1
  <2>2. tickets'[s] = Retain(tickets[s], kept)
    BY <1>1, <1>2
  <2> HIDE DEF kept
  <2> DEFINE K == Retain(tickets[s], kept)
  <2>3. /\ K \in Seq(Held)
        /\ \E f : /\ Embeds(f, K, tickets[s])
                  /\ \A i \in DOMAIN K : f[i] \in kept /\ K[i] = tickets[s][f[i]]
        /\ \A n \in kept : \E i \in DOMAIN K : K[i] = tickets[s][n]
    BY <2>1, RetainEmbeds
  <2> HIDE DEF K
  <2>4. Thinned(K, tickets[s])
    BY <2>3 DEF Thinned
  <2> QED BY <2>2, <2>3, <2>4 DEF K
<1>6. \A u \in Sessions \ {s} : tickets'[u] = tickets[u] /\ marked'[u] = marked[u]
  BY <1>1, <1>2
<1>7. QueueTypes'
  <2>1. queue' \in [Accounts -> Seq(Ticket)]
    BY <1>1, <1>2, <1>4
  <2>2. tickets' \in [Sessions -> Seq(Held)]
    <3>1. \A u \in Sessions : tickets'[u] \in Seq(Held)
      BY <1>1, <1>5, <1>6
    <3> QED BY <1>1, <1>2, <3>1
  <2>3. pc' \in [Sessions -> Steps] /\ marked' \in [Sessions -> BOOLEAN] /\ waiting' \subseteq Limited
    BY <1>1, <1>2 DEF Steps
  <2> QED BY <1>0, <1>2, <2>1, <2>2, <2>3 DEF QueueTypes
<1>8. QueuesInTime' /\ TicketsInTime' /\ Ranked'
  <2>1. now <= now'
    BY <1>1, <1>2
  <2>2. \A u \in Sessions : Thinned(tickets'[u], tickets[u])
    <3>1. \A u \in Sessions \ {s} : tickets'[u] = tickets[u] /\ tickets[u] \in Seq(Held)
      BY <1>1, <1>6
    <3> QED BY <1>5, <3>1, SameThinned
  <2> QED BY <1>4, <1>7, <2>1, <2>2, ShrinkingKeepsOrder
<1>9. WaitsWithTicket'
  <2>1. \A u \in Sessions : pc'[u] = "waiting" => u # s /\ pc[u] = "waiting"
    BY <1>1, <1>2
  <2> QED BY <1>6, <2>1 DEF QueueInv, WaitsWithTicket
<1>10. TicketsOwned'
  <2>1. ASSUME NEW b \in Accounts, NEW u \in Queued(b)' PROVE b \in TicketAccounts(u)'
    <3>1. u \in Queued(b) /\ (u = s => b # a)
      BY <1>4, ShrunkQueued
    <3>2. b \in TicketAccounts(u)
      BY <1>3, <3>1
    <3>3. CASE u = s
      <4>1. PICK n \in DOMAIN tickets[s] : tickets[s][n].account = b
        BY <3>2, <3>3 DEF TicketAccounts
      <4>2. n \in kept
        BY <3>1, <3>3, <4>1
      <4>3. PICK i \in DOMAIN tickets'[s] : tickets'[s][i] = tickets[s][n]
        BY <1>5, <4>2
      <4> QED BY <3>3, <4>1, <4>3 DEF TicketAccounts
    <3>4. CASE u # s
      <4>1. tickets'[u] = tickets[u]
        BY <1>1, <1>2, <3>4
      <4> QED BY <3>2, <4>1, AccountsSame
    <3> QED BY <3>3, <3>4
  <2>2. \A u \in waiting' : marked'[u]
    <3>1. \A u \in waiting' : u # s /\ u \in waiting /\ u \in Sessions
      BY <1>1, <1>2, RecoveryAssumption
    <3> QED BY <1>3, <1>6, <3>1
  <2>3. ASSUME NEW u \in Sessions, pc'[u] = "done" PROVE tickets'[u] = << >> /\ ~ marked'[u]
    <3>1. u # s /\ pc[u] = "done"
      BY <1>1, <1>2, <2>3
    <3>2. tickets'[u] = tickets[u] /\ marked'[u] = marked[u]
      BY <1>6, <3>1
    <3> QED BY <1>3, <3>1, <3>2
  <2> QED BY <2>1, <2>2, <2>3 DEF TicketsOwned
<1> QED BY <1>7, <1>8, <1>9, <1>10 DEF QueueInv

LEMMA QueueStep == ProbeInv /\ QueueInv /\ [Next]_vars => QueueInv'
<1> SUFFICES ASSUME ProbeInv, QueueInv, [Next]_vars PROVE QueueInv'
  OBVIOUS
<1> USE DEF registry, session, Steps
<1>1. ASSUME NEW s \in Sessions, Start(s) PROVE QueueInv'
  BY <1>1, QueueQuiet DEF Start, Goto
<1>2. ASSUME NEW s \in Sessions, NEW a \in Accounts, AdmitOrdinary(s, a) PROVE QueueInv'
  BY <1>2, QueueQuiet DEF AdmitOrdinary, Goto
<1>3. ASSUME NEW s \in Sessions, NEW a \in Accounts, Defer(s, a) PROVE QueueInv'
  BY <1>3, QueueRegister DEF Defer, Candidate
<1>4. ASSUME NEW s \in Sessions, AdmitProbe(s) PROVE QueueInv'
  BY <1>4, QueueQuiet DEF AdmitProbe, Goto
<1>5. ASSUME NEW s \in Sessions, Wait(s) PROVE QueueInv'
  BY <1>5, QueueQuiet DEF Wait, Goto
<1>6. ASSUME NEW s \in Sessions, Polling(s) PROVE QueueInv'
  <2>1. CASE GiveUp(s) \/ ProbeRefused(s) \/ RenewMissing(s)
    BY <2>1, QueueQuiet DEF GiveUp, ProbeRefused, RenewMissing, Goto
  <2>2. CASE \E a \in Accounts : GrantProbe(s, a)
    BY <2>2, QueueGrant
  <2> QED BY <1>6, <2>1, <2>2 DEF Polling
<1>7. ASSUME NEW s \in Sessions, RenewProbe(s) PROVE QueueInv'
  BY <1>7, QueueQuiet DEF RenewProbe
<1>8. ASSUME NEW s \in Sessions, Attempting(s) PROVE QueueInv'
  <2>1. UNCHANGED <<now, budget, queue, tickets, marked, waiting>>
    BY <1>8 DEF Attempting, Rejected, Failed, Accepted, LeaseLost
  <2>2. \E step \in {"cleanup", "requeue", "accepted"} : pc' = [pc EXCEPT ![s] = step]
    BY <1>8 DEF Attempting, Rejected, Failed, Accepted, LeaseLost, LeaveAttempt, Goto
  <2> QED BY <2>1, <2>2, QueueQuiet
<1>9. ASSUME NEW s \in Sessions, Requeue(s) PROVE QueueInv'
  <2>1. /\ UNCHANGED <<now, budget>> /\ pc' = [pc EXCEPT ![s] = "route"] /\ pc[s] = "requeue"
    BY <1>9 DEF Requeue, LeaveAttempt, Goto
  <2>2. trying[s] \in Accounts
    BY <2>1 DEF ProbeInv, LeasePlace
  <2>3. \/ trying[s] \notin TicketAccounts(s) /\ Register(s, trying[s])
        \/ UNCHANGED <<queue, tickets, marked, waiting>>
    BY <1>9 DEF Requeue
  <2> QED BY <2>1, <2>2, <2>3, QueueRegister, QueueQuiet
<1>10. ASSUME NEW s \in Sessions, LeaveQueues(s) PROVE QueueInv'
  <2>1. PICK step \in {"route", "cleanup"} : pc' = [pc EXCEPT ![s] = step]
    BY <1>10 DEF LeaveQueues, LeaveAttempt, Goto
  <2> QED BY <1>10, <2>1, QueueCancel DEF LeaveQueues
<1>11. ASSUME NEW s \in Sessions, Interrupt(s) PROVE QueueInv'
  <2>1. UNCHANGED <<now, budget, queue, tickets, marked, waiting>>
    BY <1>11 DEF Interrupt
  <2>2. \E step \in {"cleanup", "route"} : pc' = [pc EXCEPT ![s] = step]
    BY <1>11 DEF Interrupt, LeaveAttempt, Goto
  <2> QED BY <2>1, <2>2, QueueQuiet
<1>12. ASSUME NEW s \in Sessions, Leave(s) PROVE QueueInv'
  BY <1>12, QueueQuiet DEF Leave, LeaveAttempt, Goto
<1>13. ASSUME NEW s \in Sessions, Cleanup(s) PROVE QueueInv'
  BY <1>13, QueueCancel DEF Cleanup, Goto
<1>14. ASSUME NEW b \in Budgets, UpdateTuning(b) PROVE QueueInv'
  BY <1>14, QueueTuning
<1>15. CASE Tick
  BY <1>15, QueueTick
<1>16. CASE UNCHANGED vars
  <2>1. UNCHANGED <<now, budget, queue, tickets, marked, waiting, pc>>
    BY <1>16 DEF vars
  <2>2. /\ \A a \in Accounts : queue[a] \in Seq(Ticket)
        /\ now \in Nat /\ budget \in Budgets /\ queue \in [Accounts -> Seq(Ticket)]
    BY DEF QueueInv, QueueTypes
  <2>3. now <= now' /\ \A a \in Accounts : Shrunk(queue'[a], queue[a])
    BY <2>1, <2>2, SameShrunk
  <2> QED BY <2>1, <2>2, <2>3, QueuePruned
<1> QED
  BY <1>1, <1>2, <1>3, <1>4, <1>5, <1>6, <1>7, <1>8, <1>9, <1>10, <1>11, <1>12, <1>13, <1>14,
     <1>15, <1>16 DEF Next

\* The queues are in one order of registrations, and everyone in them knows it.
THEOREM QueueInvariant == Spec => []QueueInv
<1>1. ProbeInv /\ QueueInv /\ [Next]_vars => QueueInv'
  BY QueueStep
<1> QED
  BY ProbeInvariant, QueueStart, <1>1, PTL DEF Spec

\* A session polls the first ticket it took.
LEMMA SelectedFirst ==
  ASSUME QueueInv, NEW s \in Sessions, tickets[s] # << >>
  PROVE  1 \in DOMAIN tickets[s] /\ Selected(s) = tickets[s][1].account
<1>1. /\ tickets[s] \in Seq(Held) /\ InTime(tickets[s], now)
  BY DEF QueueInv, QueueTypes, TicketsInTime
<1>2. /\ 1 \in DOMAIN tickets[s] /\ \A i \in DOMAIN tickets[s] : i \in Nat /\ 1 <= i
      /\ \A i \in DOMAIN tickets[s] : tickets[s][i] \in Held
  BY <1>1
<1>3. \A i \in DOMAIN tickets[s] : tickets[s][i].at \in Nat
  BY <1>2 DEF Held
<1> DEFINE Best(i) == \A j \in DOMAIN tickets[s] :
                         \/ tickets[s][i].at < tickets[s][j].at
                         \/ tickets[s][i].at = tickets[s][j].at /\ i <= j
<1>4. Best(1)
  <2> SUFFICES ASSUME NEW j \in DOMAIN tickets[s], j # 1
               PROVE  tickets[s][1].at <= tickets[s][j].at
    BY <1>2, <1>3
  <2>1. 1 < j
    BY <1>2
  <2> QED BY <1>1, <1>2, <2>1 DEF InTime
<1>5. \A i \in DOMAIN tickets[s] : Best(i) => i = 1
  <2> SUFFICES ASSUME NEW i \in DOMAIN tickets[s], Best(i) PROVE i = 1
    OBVIOUS
  <2>1. \/ tickets[s][i].at < tickets[s][1].at
        \/ tickets[s][i].at = tickets[s][1].at /\ i <= 1
    BY <1>2
  <2>2. \/ tickets[s][1].at < tickets[s][i].at
        \/ tickets[s][1].at = tickets[s][i].at /\ 1 <= i
    BY <1>4
  <2> QED BY <1>2, <1>3, <2>1, <2>2
<1>6. Selected(s) = tickets[s][CHOOSE i \in DOMAIN tickets[s] : Best(i)].account
  BY DEF Selected
<1> HIDE DEF Best
<1>7. (CHOOSE i \in DOMAIN tickets[s] : Best(i)) = 1
  BY <1>2, <1>4, <1>5
<1> QED BY <1>2, <1>6, <1>7

\* The queues are sound, for any number of sessions and accounts and any order of
\* their calls: the registrations are in one order, which queues and tickets
\* agree with, so in any circle somebody would wait for an earlier registration
\* than the earliest.
THEOREM QueuesSoundTheorem == Spec => []QueuesSound
<1>1. QueueInv => NoCircularWait
  <2> SUFFICES ASSUME QueueInv, NEW C \in SUBSET {s \in Sessions : pc[s] = "waiting"}, C # {},
                      \A s \in C : \E u \in C : Ahead(u, s)
               PROVE  FALSE
    BY DEF NoCircularWait
  <2>1. PICK rank, top : RankedBy(rank, top)
    BY DEF QueueInv, Ranked
  <2> DEFINE Polled(s) == rank[s][tickets[s][1].account]
  <2>2. ASSUME NEW s \in C
        PROVE  /\ s \in Sessions /\ tickets[s] # << >> /\ 1 \in DOMAIN tickets[s]
               /\ Selected(s) = tickets[s][1].account /\ Selected(s) \in Accounts
               /\ Polled(s) \in Nat
    <3>1. s \in Sessions /\ tickets[s] # << >> /\ tickets[s] \in Seq(Held)
      BY DEF QueueInv, WaitsWithTicket, QueueTypes
    <3>2. 1 \in DOMAIN tickets[s] /\ Selected(s) = tickets[s][1].account
      BY <3>1, SelectedFirst
    <3>3. tickets[s][1] \in Held
      BY <3>1, <3>2
    <3>4. tickets[s][1].account \in Accounts
      BY <3>3 DEF Held
    <3> QED BY <2>1, <3>1, <3>2, <3>4 DEF RankedBy
  <2>3. PICK s \in C : \A u \in C : Polled(s) <= Polled(u)
    <3> DEFINE S == {Polled(u) : u \in C}
    <3>1. S \in SUBSET Nat /\ S # {}
      BY <2>2
    <3>2. PICK n \in S : \A j \in S : n <= j
      BY <3>1, LeastNatural
    <3> QED BY <3>2
  <2>4. PICK u \in C : Ahead(u, s)
    OBVIOUS
  <2> DEFINE a == Selected(s)
  <2>5. PICK i \in DOMAIN queue[a] : \E j \in DOMAIN queue[a] :
            i < j /\ queue[a][i].who = u /\ queue[a][j].who = s
    BY <2>4 DEF Ahead
  <2>6. a \in Accounts /\ a = tickets[s][1].account
    BY <2>2
  <2> HIDE DEF a
  <2>7. rank[u][a] < rank[s][a]
    BY <2>1, <2>5, <2>6 DEF RankedBy
  <2>8. PICK k \in DOMAIN tickets[u] : tickets[u][k].account = a
    <3>1. u \in Queued(a)
      BY <2>5 DEF Queued
    <3>2. a \in TicketAccounts(u)
      BY <2>6, <3>1 DEF QueueInv, TicketsOwned
    <3> QED BY <3>2 DEF TicketAccounts
  <2>9. Polled(u) <= rank[u][a]
    <3>1. u \in Sessions /\ tickets[u] \in Seq(Held) /\ 1 \in DOMAIN tickets[u] /\ Polled(u) \in Nat
      BY <2>2 DEF QueueInv, QueueTypes
    <3>2. k = 1 \/ 1 < k
      BY <3>1
    <3>3. CASE k = 1
      BY <2>8, <3>1, <3>3
    <3>4. CASE 1 < k
      <4>1. rank[u][tickets[u][1].account] < rank[u][tickets[u][k].account]
        BY <2>1, <3>1, <3>4 DEF RankedBy
      <4>2. rank[u][a] \in Nat
        BY <2>1, <2>6, <3>1 DEF RankedBy
      <4> QED BY <2>8, <3>1, <4>1, <4>2
    <3> QED BY <3>2, <3>3, <3>4
  <2>10. Polled(s) = rank[s][a] /\ Polled(s) \in Nat /\ Polled(u) \in Nat /\ rank[u][a] \in Nat
    <3>1. u \in Sessions /\ Polled(s) \in Nat /\ Polled(u) \in Nat
      BY <2>2
    <3>2. rank[u][a] \in Nat
      BY <2>1, <2>6, <3>1 DEF RankedBy
    <3> QED BY <2>6, <3>1, <3>2
  <2>11. Polled(s) <= Polled(u)
    BY <2>3
  <2> HIDE DEF Polled
  <2> QED BY <2>7, <2>9, <2>10, <2>11
<1>2. QueueInv => TicketsOwned
  BY DEF QueueInv
<1>3. QueueInv => QueuesSound
  BY <1>1, <1>2 DEF QueuesSound
<1> QED
  BY QueueInvariant, <1>3, PTL

\* Only try_probe puts a probe where none is.
LEMMA ProbeAppears ==
  ASSUME ProbeInv, Next, NEW a \in Accounts, probe[a] = None, probe'[a] # None
  PROVE  \E s \in Sessions : GrantProbe(s, a)
<1>0. probe \in [Accounts -> Probe \cup {None}]
  BY DEF ProbeInv, ProbeTypes
<1> USE DEF registry, session
<1>1. ASSUME NEW s \in Sessions, Start(s) PROVE FALSE
  BY <1>1 DEF Start
<1>2. ASSUME NEW s \in Sessions, NEW b \in Accounts, AdmitOrdinary(s, b) \/ Defer(s, b) PROVE FALSE
  BY <1>2 DEF AdmitOrdinary, Defer
<1>3. ASSUME NEW s \in Sessions, AdmitProbe(s) \/ Wait(s) \/ Requeue(s) \/ LeaveQueues(s) \/ Leave(s)
      PROVE  FALSE
  BY <1>3 DEF AdmitProbe, Wait, Requeue, LeaveQueues, Leave
<1>4. ASSUME NEW s \in Sessions, Polling(s) PROVE GrantProbe(s, a)
  <2>1. CASE GiveUp(s) \/ ProbeRefused(s) \/ RenewMissing(s)
    BY <2>1 DEF GiveUp, ProbeRefused, RenewMissing
  <2>2. ASSUME NEW b \in Accounts, GrantProbe(s, b) PROVE b = a
    BY <1>0, <2>2 DEF GrantProbe
  <2> QED BY <1>4, <2>1, <2>2 DEF Polling
<1>5. ASSUME NEW s \in Sessions, RenewProbe(s) PROVE FALSE
  BY <1>0, <1>5 DEF RenewProbe, OwnsProbe
<1>6. ASSUME NEW s \in Sessions, Attempting(s) PROVE FALSE
  <2>1. CASE LeaseLost(s)
    BY <2>1 DEF LeaseLost
  <2>2. CASE Rejected(s) \/ Failed(s) \/ Accepted(s)
    <3>1. probe' = probe \/ probe' = [probe EXCEPT ![trying[s]] = None]
      BY <2>2 DEF Rejected, Failed, Accepted
    <3> QED BY <1>0, <3>1
  <2> QED BY <1>6, <2>1, <2>2 DEF Attempting
<1>7. ASSUME NEW s \in Sessions, Interrupt(s) PROVE FALSE
  <2>1. probe' = probe \/ probe' = [probe EXCEPT ![lease[s].account] = None]
    BY <1>7 DEF Interrupt
  <2> QED BY <1>0, <2>1
<1>8. ASSUME NEW s \in Sessions, Cleanup(s) PROVE FALSE
  <2>1. probe' = probe \/ probe' = [probe EXCEPT ![lease[s].account] = None]
    BY <1>8 DEF Cleanup, ReleaseProbe
  <2> QED BY <1>0, <2>1
<1>9. ASSUME NEW b \in Budgets, UpdateTuning(b) PROVE FALSE
  BY <1>9 DEF UpdateTuning
<1>10. ASSUME Tick PROVE FALSE
  BY <1>10 DEF Tick, Prune
<1> QED
  BY <1>1, <1>2, <1>3, <1>4, <1>5, <1>6, <1>7, <1>8, <1>9, <1>10 DEF Next

\* Probes are granted in the order of registration, for any number of sessions:
\* the head of the queue is its earliest ticket, and its session has no other one
\* there.
THEOREM OldestFirstTheorem == Spec => OldestFirst
<1>1. ProbeInv /\ QueueInv /\ [Next]_vars
      => [\A a \in Accounts : (probe'[a] # None /\ probe[a] = None) =>
            \A i, j \in DOMAIN queue[a] :
              queue[a][i].who = probe'[a].who => queue[a][i].at <= queue[a][j].at]_vars
  <2> SUFFICES ASSUME ProbeInv, QueueInv, Next, NEW a \in Accounts, probe'[a] # None, probe[a] = None,
                      NEW i \in DOMAIN queue[a], NEW j \in DOMAIN queue[a],
                      queue[a][i].who = probe'[a].who
               PROVE  queue[a][i].at <= queue[a][j].at
    OBVIOUS
  <2>1. PICK s \in Sessions : GrantProbe(s, a)
    BY ProbeAppears
  <2>2. probe \in [Accounts -> Probe \cup {None}] /\ queue[a] \in Seq(Ticket)
    BY DEF ProbeInv, ProbeTypes, QueueInv, QueueTypes
  <2>3. probe'[a].who = s /\ queue[a] # << >> /\ Head(queue[a]).who = s
    BY <2>1, <2>2 DEF GrantProbe, Grantable
  <2>4. /\ 1 \in DOMAIN queue[a] /\ queue[a][1].who = s /\ queue[a][1] \in Ticket
        /\ i \in Nat /\ 1 <= i /\ j \in Nat /\ 1 <= j
    BY <2>2, <2>3
  <2>5. i = 1
    <3>1. PICK rank, top : RankedBy(rank, top)
      BY DEF QueueInv, Ranked
    <3>2. rank[s][a] \in Nat
      BY <3>1 DEF RankedBy
    <3>3. 1 < i => rank[s][a] < rank[s][a]
      BY <2>3, <2>4, <3>1 DEF RankedBy
    <3> QED BY <2>4, <3>2, <3>3
  <2>6. CASE j = 1
    BY <2>4, <2>5, <2>6 DEF Ticket
  <2>7. CASE 1 < j
    BY <2>4, <2>5, <2>7 DEF QueueInv, QueuesInTime, InTime
  <2> QED BY <2>4, <2>6, <2>7
<1> QED
  BY ProbeInvariant, QueueInvariant, <1>1, PTL DEF Spec, OldestFirst

-----------------------------------------------------------------------------
(***************************************************************************)
(* The cooldown                                                            *)
(***************************************************************************)

\* An account cools at least as long as a standing Retry-After says.
CoolInv ==
  /\ now \in Nat /\ cooldown \in [Accounts -> Nat] /\ explicit \in [Accounts -> Nat]
  /\ \A a \in Accounts : explicit[a] <= cooldown[a]

coolVars == <<now, cooldown, explicit, saturated>>

\* A step keeps an account cooling, until the deadline passes or a probe is accepted.
CoolsOn ==
  \A a \in Accounts : (saturated'[a] /\ explicit[a] > now') => cooldown'[a] >= explicit[a]

LEMMA CoolStutter ==
  ASSUME CoolInv, UNCHANGED <<now, cooldown, explicit>> PROVE CoolInv' /\ CoolsOn
BY DEF CoolInv, CoolsOn

LEMMA CoolRejected ==
  ASSUME CoolInv, NEW a, NEW retry \in Nat, NEW delay \in Nat, NEW gen, now' = now,
         ApplyRejection(a, retry, delay, gen)
  PROVE  CoolInv' /\ CoolsOn
<1> DEFINE later == IF retry > explicit[a] THEN retry ELSE explicit[a]
           until == IF later > now + delay THEN later ELSE now + delay
<1>1. explicit' = [explicit EXCEPT ![a] = later] /\ cooldown' = [cooldown EXCEPT ![a] = until]
  BY DEF ApplyRejection
<1>2. CASE a \in Accounts
  <2>1. /\ explicit[a] \in Nat /\ later \in Nat /\ until \in Nat
        /\ explicit[a] <= later /\ later <= until
    BY <1>2 DEF CoolInv
  <2> HIDE DEF later, until
  <2> QED BY <1>1, <1>2, <2>1 DEF CoolInv, CoolsOn
<1>3. CASE a \notin Accounts
  <2> HIDE DEF later, until
  <2>1. explicit' = explicit /\ cooldown' = cooldown
    BY <1>1, <1>3 DEF CoolInv
  <2> QED BY <2>1, CoolStutter
<1> QED BY <1>2, <1>3

LEMMA CoolAccepted ==
  ASSUME CoolInv, NEW a, now' = now, saturated' = [saturated EXCEPT ![a] = FALSE],
         cooldown' = [cooldown EXCEPT ![a] = Never], explicit' = [explicit EXCEPT ![a] = Never],
         saturated \in [Accounts -> BOOLEAN]
  PROVE  CoolInv' /\ CoolsOn
<1>1. ASSUME NEW b \in Accounts
      PROVE  \/ b = a /\ explicit'[b] = 0 /\ cooldown'[b] = 0 /\ saturated'[b] = FALSE
             \/ b # a /\ explicit'[b] = explicit[b] /\ cooldown'[b] = cooldown[b]
  BY DEF CoolInv, Never
<1>2. CoolInv'
  <2>1. explicit' \in [Accounts -> Nat] /\ cooldown' \in [Accounts -> Nat]
    BY DEF CoolInv, Never
  <2>2. ASSUME NEW b \in Accounts PROVE explicit'[b] <= cooldown'[b]
    <3>1. explicit[b] <= cooldown[b] /\ explicit[b] \in Nat /\ cooldown[b] \in Nat
      BY DEF CoolInv
    <3>2. CASE b = a
      <4>1. explicit'[b] = 0 /\ cooldown'[b] = 0
        BY <1>1, <3>2
      <4> QED BY <4>1
    <3>3. CASE b # a
      <4>1. explicit'[b] = explicit[b] /\ cooldown'[b] = cooldown[b]
        BY <1>1, <3>3
      <4> QED BY <3>1, <4>1
    <3> QED BY <3>2, <3>3
  <2> QED BY <2>1, <2>2 DEF CoolInv
<1>3. CoolsOn
  <2> SUFFICES ASSUME NEW b \in Accounts, saturated'[b] PROVE cooldown'[b] >= explicit[b]
    BY DEF CoolsOn
  <2>1. saturated'[b] # FALSE
    OBVIOUS
  <2>2. cooldown'[b] = cooldown[b]
    BY <1>1, <2>1
  <2> QED BY <2>2 DEF CoolInv
<1> QED BY <1>2, <1>3

LEMMA CoolTick == ASSUME CoolInv, Tick PROVE CoolInv' /\ CoolsOn
<1>1. /\ now' = now + 1 /\ now \in Nat
      /\ explicit' = [a \in Accounts |-> Passed(now + 1, explicit[a])]
      /\ cooldown' = [a \in Accounts |-> Passed(now + 1, cooldown[a])]
  BY DEF Tick, Prune, CoolInv
<1>2. ASSUME NEW a \in Accounts
      PROVE  /\ explicit'[a] \in Nat /\ cooldown'[a] \in Nat /\ explicit'[a] <= cooldown'[a]
             /\ explicit[a] > now' => cooldown'[a] >= explicit[a]
  <2>1. explicit[a] \in Nat /\ cooldown[a] \in Nat /\ explicit[a] <= cooldown[a]
    BY DEF CoolInv
  <2> QED BY <1>1, <2>1 DEF Passed, Never
<1> QED BY <1>1, <1>2 DEF CoolInv, CoolsOn

LEMMA CoolStart == Init => CoolInv /\ saturated \in [Accounts -> BOOLEAN]
BY DEF Init, CoolInv, Never

LEMMA CoolStep ==
  ASSUME CoolInv, saturated \in [Accounts -> BOOLEAN], [Next]_vars
  PROVE  CoolInv' /\ CoolsOn /\ saturated' \in [Accounts -> BOOLEAN]
<1> USE DEF registry, session
<1>1. ASSUME NEW s \in Sessions, Rejected(s)
      PROVE  CoolInv' /\ CoolsOn /\ saturated' \in [Accounts -> BOOLEAN]
  <2>1. PICK retry \in Retries, delay \in Delays : \E gen : ApplyRejection(trying[s], retry, delay, gen)
    BY <1>1 DEF Rejected
  <2>2. retry \in Nat /\ delay \in Nat
    BY RecoveryAssumption DEF Retries, CoolInv, Never
  <2>3. now' = now
    BY <1>1 DEF Rejected
  <2>4. saturated' = [saturated EXCEPT ![trying[s]] = TRUE]
    BY <2>1 DEF ApplyRejection
  <2> QED BY <2>1, <2>2, <2>3, <2>4, CoolRejected
<1>2. ASSUME NEW s \in Sessions, Accepted(s)
      PROVE  CoolInv' /\ CoolsOn /\ saturated' \in [Accounts -> BOOLEAN]
  <2>1. \/ UNCHANGED <<now, cooldown, explicit, saturated>>
        \/ /\ now' = now /\ saturated' = [saturated EXCEPT ![trying[s]] = FALSE]
           /\ cooldown' = [cooldown EXCEPT ![trying[s]] = Never]
           /\ explicit' = [explicit EXCEPT ![trying[s]] = Never]
    BY <1>2 DEF Accepted
  <2> QED BY <2>1, CoolStutter, CoolAccepted
<1>3. CASE Tick
  <2>1. saturated' = saturated
    BY <1>3 DEF Tick
  <2> QED BY <1>3, <2>1, CoolTick
<1>4. ASSUME NEW s \in Sessions,
             \/ Start(s) \/ AdmitProbe(s) \/ Wait(s) \/ Polling(s) \/ RenewProbe(s) \/ Failed(s)
             \/ LeaseLost(s) \/ Requeue(s) \/ LeaveQueues(s) \/ Interrupt(s) \/ Leave(s) \/ Cleanup(s)
             \/ \E a \in Accounts : AdmitOrdinary(s, a) \/ Defer(s, a)
      PROVE  UNCHANGED coolVars
  BY <1>4 DEF Start, AdmitProbe, Wait, Polling, GiveUp, ProbeRefused, RenewMissing, GrantProbe,
              RenewProbe, Failed, LeaseLost, Requeue, LeaveQueues, Interrupt, Leave, Cleanup,
              AdmitOrdinary, Defer, coolVars
<1>5. ASSUME NEW b \in Budgets, UpdateTuning(b) PROVE UNCHANGED coolVars
  BY <1>5 DEF UpdateTuning, coolVars
<1>6. ASSUME UNCHANGED vars PROVE UNCHANGED coolVars
  BY <1>6 DEF vars, coolVars
<1>7. ASSUME UNCHANGED coolVars
      PROVE  CoolInv' /\ CoolsOn /\ saturated' \in [Accounts -> BOOLEAN]
  BY <1>7, CoolStutter DEF coolVars
<1> QED
  BY <1>1, <1>2, <1>3, <1>4, <1>5, <1>6, <1>7 DEF Next, Attempting

\* A Retry-After that stands is kept, for any number of sessions and accounts: a
\* rejection takes the later deadline, and only an accepted probe forgets it.
THEOREM RetryAfterTheorem == Spec => RetryAfterKept
<1> DEFINE I == CoolInv /\ saturated \in [Accounts -> BOOLEAN]
<1>1. Init => I
  BY CoolStart
<1>2. I /\ [Next]_vars => I'
  BY CoolStep
<1>3. I /\ [Next]_vars
      => [\A a \in Accounts :
            (saturated'[a] /\ explicit[a] > now') => cooldown'[a] >= explicit[a]]_vars
  BY CoolStep DEF CoolsOn
<1> QED
  BY <1>1, <1>2, <1>3, PTL DEF Spec, RetryAfterKept

-----------------------------------------------------------------------------
(***************************************************************************)
(* The types                                                               *)
(***************************************************************************)

\* The types that no argument above needs.
RestTypes ==
  /\ now \in Nat /\ budget \in Budgets /\ updates \in Nat
  /\ deadline \in [Sessions -> Nat]
  /\ rounds \in [Sessions -> Nat]
  /\ told \in [Accounts -> Nat]

LEMMA RestStep ==
  ASSUME RestTypes, [Next]_vars
  PROVE  RestTypes'
<1>0. now \in Nat /\ budget \in Nat
  BY RecoveryAssumption DEF RestTypes
<1> USE DEF registry, session
<1>1. ASSUME NEW s \in Sessions, Start(s) PROVE RestTypes'
  BY <1>0, <1>1 DEF Start, RestTypes
<1>2. ASSUME NEW s \in Sessions, NEW a \in Accounts, GrantProbe(s, a) PROVE RestTypes'
  BY <1>2 DEF GrantProbe, RestTypes
<1>3. ASSUME NEW s \in Sessions, Cleanup(s) PROVE RestTypes'
  BY <1>3 DEF Cleanup, RestTypes, Never
<1>4. ASSUME NEW b \in Budgets, UpdateTuning(b) PROVE RestTypes'
  BY <1>4 DEF UpdateTuning, RestTypes
<1>5. CASE Tick
  <2>1. \A a \in Accounts : Passed(now + 1, told[a]) \in Nat
    BY DEF RestTypes, Passed, Never
  <2>2. /\ now' = now + 1 /\ UNCHANGED <<budget, updates, deadline, rounds>>
        /\ told' = [a \in Accounts |-> Passed(now + 1, told[a])]
    BY <1>5 DEF Tick
  <2> QED BY <2>1, <2>2 DEF RestTypes
<1>6. ASSUME NEW s \in Sessions, Rejected(s) PROVE RestTypes'
  <2>1. PICK retry \in Retries, delay \in Delays : \E gen : ApplyRejection(trying[s], retry, delay, gen)
    BY <1>6 DEF Rejected
  <2>2. retry \in Nat
    BY <1>0, RecoveryAssumption DEF Retries, Never
  <2>3. told' \in [Accounts -> Nat]
    BY <2>1, <2>2 DEF ApplyRejection, RestTypes
  <2>4. UNCHANGED <<now, budget, updates, deadline, rounds>>
    BY <1>6 DEF Rejected
  <2> QED BY <2>3, <2>4 DEF RestTypes
<1>7. ASSUME NEW s \in Sessions,
             \/ AdmitProbe(s) \/ Wait(s) \/ GiveUp(s) \/ ProbeRefused(s) \/ RenewMissing(s)
             \/ RenewProbe(s) \/ Failed(s) \/ Accepted(s) \/ LeaseLost(s) \/ Requeue(s)
             \/ LeaveQueues(s) \/ Interrupt(s) \/ Leave(s)
             \/ \E a \in Accounts : AdmitOrdinary(s, a) \/ Defer(s, a)
      PROVE  UNCHANGED <<now, budget, updates, deadline, rounds, told>>
  BY <1>7 DEF AdmitProbe, Wait, GiveUp, ProbeRefused, RenewMissing, RenewProbe, Failed, Accepted,
              LeaseLost, Requeue, LeaveQueues, Interrupt, Leave, AdmitOrdinary, Defer
<1>8. ASSUME UNCHANGED vars PROVE UNCHANGED <<now, budget, updates, deadline, rounds, told>>
  BY <1>8 DEF vars
<1>9. ASSUME UNCHANGED <<now, budget, updates, deadline, rounds, told>> PROVE RestTypes'
  BY <1>9 DEF RestTypes
<1> QED
  BY <1>1, <1>2, <1>3, <1>4, <1>5, <1>6, <1>7, <1>8, <1>9 DEF Next, Attempting, Polling

\* The state keeps its type, for every value of the constants.
THEOREM TypeCorrect == Spec => []TypeOK
<1> DEFINE I == RestTypes /\ CoolInv /\ saturated \in [Accounts -> BOOLEAN]
<1>1. Init => I
  BY CoolStart, RecoveryAssumption DEF Init, RestTypes, Never
<1>2. I /\ [Next]_vars => I'
  BY CoolStep, RestStep
<1>3. I /\ ProbeInv /\ QueueInv => TypeOK
  BY DEF RestTypes, CoolInv, ProbeInv, ProbeTypes, QueueInv, QueueTypes, TypeOK, Ticket, Held
<1> QED
  BY <1>1, <1>2, <1>3, ProbeInvariant, QueueInvariant, PTL DEF Spec
=============================================================================
