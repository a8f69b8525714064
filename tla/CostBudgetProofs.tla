-------------------------- MODULE CostBudgetProofs --------------------------
(***************************************************************************)
(* Proofs about CostBudget, for every set of requests and keys, every set  *)
(* of limits and costs and every window length.                            *)
(*                                                                         *)
(* The argument is about sets of events, not about sums.  The window holds *)
(* no event twice and only charged ones (ChargedOnce), and when every key  *)
(* of the account is cost billed it still holds every charged event of the *)
(* last day (Covered): eviction only drops events older than a day, and    *)
(* the clock does not run back.  So the set that reserve_downstream_request *)
(* sums over is exactly the set of requests charged in the last day.       *)
(***************************************************************************)
EXTENDS CostBudget, FiniteSetTheorems, WellFoundedInduction, TLAPS

\* A request charged in the last day is in the window, if every key of the
\* account is cost billed: eviction by record and reserve loses none of them.
Covered ==
  Priced = Keys =>
    \A r \in Requests : (status[r] = "charged" /\ at[r] + DayLen > now) => r \in Events

IInv == TypeOK /\ ChargedOnce /\ Covered

-----------------------------------------------------------------------------
(* Where a sequence of the window's events starts.                         *)

LEMMA LessThanRelation ==
    \E R : IsWellFoundedOn(R, Nat) /\ \A t, u \in Nat : <<u, t>> \in R <=> u < t
<1> DEFINE R == OpToRel(<, Nat)
<1>1. IsWellFoundedOn(R, Nat)
  BY NatLessThanWellFounded
<1>2. \A t, u \in Nat : <<u, t>> \in R <=> u < t
  BY DEF OpToRel
<1> HIDE DEF R
<1> QED BY <1>1, <1>2

LEMMA LeastElement ==
    ASSUME NEW S \in SUBSET Nat, S # {}
    PROVE  \E t \in S : \A u \in S : t <= u
<1>1. PICK R : IsWellFoundedOn(R, Nat) /\ \A t, u \in Nat : <<u, t>> \in R <=> u < t
  BY LessThanRelation
<1>2. \E t \in S : \A u \in S : ~(<<u, t>> \in R)
  BY <1>1, WFMin
<1>3. PICK t \in S : \A u \in S : ~(<<u, t>> \in R)
  BY <1>2
<1>4. \A u \in S : ~(u < t)
  <2> TAKE u \in S
  <2>1. u \in Nat /\ t \in Nat
    OBVIOUS
  <2>2. <<u, t>> \in R <=> u < t
    BY <1>1, <2>1, Zenon
  <2> QED BY <1>3, <2>2, Zenon
<1> QED BY <1>4

LEMMA MinExists ==
  ASSUME NEW S \in SUBSET Nat, S # {}
  PROVE  Min(S) \in S /\ \A y \in S : Min(S) <= y
<1>1. \E x \in S : \A y \in S : x =< y
  BY LeastElement
<1> QED BY <1>1 DEF Min

(* Eviction returns a suffix that keeps every event that is young enough.   *)
LEMMA EvictFacts ==
  ASSUME TypeOK, NEW start \in Nat
  PROVE  /\ Evict(start) \in Seq(Requests)
         /\ \E k \in Nat :
              /\ Len(Evict(start)) + k = Len(window)
              /\ \A i \in 1..Len(Evict(start)) : Evict(start)[i] = window[i + k]
              /\ \A i \in 1..Len(window) : i <= k => at[window[i]] < start
<1> DEFINE young == {i \in DOMAIN window : at[window[i]] >= start}
           Dropped(w, k) ==
             /\ Len(w) + k = Len(window)
             /\ \A i \in 1..Len(w) : w[i] = window[i + k]
             /\ \A i \in 1..Len(window) : i <= k => at[window[i]] < start
<1> SUFFICES Evict(start) \in Seq(Requests) /\ \E k \in Nat : Dropped(Evict(start), k)
  OBVIOUS
<1>1. /\ window \in Seq(Requests) /\ Len(window) \in Nat
      /\ DOMAIN window = 1..Len(window)
      /\ \A i \in 1..Len(window) : window[i] \in Requests /\ at[window[i]] \in Nat
  BY DEF TypeOK
<1>2. CASE young = {}
  <2>1. Evict(start) = << >>
    BY <1>2 DEF Evict
  <2>2. \A i \in 1..Len(window) : at[window[i]] < start
    BY <1>1, <1>2
  <2>3. Dropped(<< >>, Len(window))
    BY <2>2, <1>1
  <2> HIDE DEF Dropped
  <2> QED BY <2>1, <2>3, <1>1
<1>3. CASE young # {}
  <2> DEFINE m == Min(young)
  <2>1. m \in young /\ \A y \in young : m <= y
    <3>1. young \in SUBSET Nat
      BY <1>1
    <3> HIDE DEF young
    <3> QED BY <3>1, <1>3, MinExists
  <2>2. Evict(start) = SubSeq(window, m, Len(window))
    BY <1>3 DEF Evict
  <2>3. m \in 1..Len(window)
    BY <2>1, <1>1
  <2> HIDE DEF m
  <2>4. /\ SubSeq(window, m, Len(window)) \in Seq(Requests)
        /\ Len(SubSeq(window, m, Len(window))) = Len(window) - m + 1
        /\ \A i \in 1..(Len(window) - m + 1) :
             SubSeq(window, m, Len(window))[i] = window[i + m - 1]
    BY <2>3, <1>1
  <2>5. \A i \in 1..Len(window) : i <= m - 1 => at[window[i]] < start
    BY <2>1, <2>3, <1>1
  <2>6. m - 1 \in Nat
    BY <2>3
  <2>7. Dropped(SubSeq(window, m, Len(window)), m - 1)
    BY <2>3, <2>4, <2>5, <1>1
  <2> HIDE DEF Dropped
  <2> QED BY <2>2, <2>4, <2>6, <2>7
<1> QED BY <1>2, <1>3

LEMMA EvictElements ==
  ASSUME TypeOK, ChargedOnce, NEW start \in Nat
  PROVE  /\ Elements(Evict(start)) \subseteq Events
         /\ \A i, j \in DOMAIN Evict(start) : i # j => Evict(start)[i] # Evict(start)[j]
         /\ \A r \in Events : at[r] >= start => r \in Elements(Evict(start))
<1> DEFINE w == Evict(start)
<1>1. w \in Seq(Requests) /\ Len(w) \in Nat /\ DOMAIN w = 1..Len(w)
  BY EvictFacts
<1>2. PICK k \in Nat :
        /\ Len(w) + k = Len(window)
        /\ \A i \in 1..Len(w) : w[i] = window[i + k]
        /\ \A i \in 1..Len(window) : i <= k => at[window[i]] < start
  BY EvictFacts
<1>3. /\ Len(window) \in Nat /\ DOMAIN window = 1..Len(window)
      /\ \A i \in 1..Len(window) : at[window[i]] \in Nat
  BY DEF TypeOK
<1> HIDE DEF w
<1>4. \A i \in 1..Len(w) : i + k \in 1..Len(window)
  BY <1>1, <1>2, <1>3
<1>5. Elements(w) \subseteq Events
  BY <1>1, <1>2, <1>3, <1>4 DEF Elements, Events
<1>6. \A i, j \in DOMAIN w : i # j => w[i] # w[j]
  <2> SUFFICES ASSUME NEW i \in 1..Len(w), NEW j \in 1..Len(w), i # j PROVE w[i] # w[j]
    BY <1>1
  <2>1. i + k \in DOMAIN window /\ j + k \in DOMAIN window /\ i + k # j + k
    BY <1>1, <1>3, <1>4
  <2>2. window[i + k] # window[j + k]
    BY <2>1 DEF ChargedOnce
  <2> QED BY <2>2, <1>2
<1>7. ASSUME NEW r \in Events, at[r] >= start
      PROVE  r \in Elements(w)
  <2>1. PICK i \in 1..Len(window) : r = window[i]
    BY <1>3 DEF Events, Elements
  <2>2. ~ (i <= k)
    BY <2>1, <1>2, <1>3, <1>7
  <2>3. i - k \in 1..Len(w) /\ (i - k) + k = i
    BY <2>2, <1>1, <1>2, <1>3
  <2>4. w[i - k] = r
    BY <2>1, <2>3, <1>2
  <2> QED BY <2>3, <2>4, <1>1 DEF Elements
<1>8. \A r \in Events : at[r] >= start => r \in Elements(w)
  BY <1>7
<1> QED BY <1>5, <1>6, <1>8, Zenon DEF w

LEMMA Facts ==
  /\ DayLen \in Nat /\ DayLen >= 1 /\ ShortLen \in Nat /\ ShortLen >= 1 /\ ShortLen <= DayLen
  /\ Limits \subseteq Nat /\ Costs \subseteq Nat /\ KeyOf \in [Requests -> Keys]
BY BudgetAssumption DEF BudgetAssumption

(* The start of a window.                                                   *)
LEMMA WindowStartFacts ==
  ASSUME TypeOK, NEW r \in Requests, NEW len \in Nat, len >= 1
  PROVE  /\ WindowStart(len) \in Nat
         /\ at[r] >= WindowStart(len) <=> at[r] + len > now
BY DEF WindowStart, TypeOK

-----------------------------------------------------------------------------

LEMMA InitIInv == Init => IInv
BY Facts DEF Init, IInv, TypeOK, ChargedOnce, Covered, Statuses, Events, Elements, With

(* Reserving: the window loses only events older than the retention.        *)
LEMMA AdmitWindow ==
  ASSUME IInv, NEW r \in Requests, Admit(r)
  PROVE  /\ window' \in Seq(Requests)
         /\ Events' \subseteq Events
         /\ \A i, j \in DOMAIN window' : i # j => window'[i] # window'[j]
         /\ Priced = Keys => \A q \in Events : at[q] + DayLen > now => q \in Events'
<1>1. CASE ~ (limit > 0)
  <2>1. window' = window
    BY <1>1 DEF Admit
  <2> QED BY <2>1 DEF IInv, TypeOK, ChargedOnce, Events, Elements
<1>2. CASE limit > 0
  <2> DEFINE start == WindowStart(Retention(r))
  <2>1. window' = Evict(start)
    BY <1>2 DEF Admit
  <2>2. Retention(r) \in Nat /\ Retention(r) >= 1
    BY Facts DEF Retention
  <2>3. start \in Nat
    BY <2>2, WindowStartFacts DEF IInv
  <2>4. ASSUME Priced = Keys, NEW q \in Events, at[q] + DayLen > now
        PROVE  q \in Events'
    <3>1. Retention(r) = DayLen
      BY <2>4, Facts DEF Retention, IsPriced
    <3>2. q \in Requests
      BY DEF IInv, TypeOK, Events, Elements
    <3>3. at[q] >= start
      BY <2>4, <3>1, <3>2, Facts, WindowStartFacts DEF IInv
    <3>4. q \in Elements(Evict(start))
      BY <2>3, <3>3, EvictElements DEF IInv
    <3> QED BY <3>4, <2>1 DEF Events, Elements
  <2>5. Evict(start) \in Seq(Requests)
    BY <2>3, EvictFacts DEF IInv
  <2>6. /\ Elements(Evict(start)) \subseteq Events
        /\ \A i, j \in DOMAIN Evict(start) : i # j => Evict(start)[i] # Evict(start)[j]
    BY <2>3, EvictElements DEF IInv
  <2> HIDE DEF start
  <2>7. Events' = Elements(Evict(start))
    BY <2>1 DEF Events, Elements
  <2> QED BY <2>1, <2>4, <2>5, <2>6, <2>7
<1> QED BY <1>1, <1>2

LEMMA AdmitIInv == ASSUME IInv, NEW r \in Requests, Admit(r) PROVE IInv'
<1>1. /\ status[r] = "new"
      /\ \/ status' = [status EXCEPT ![r] = "refused"]
         \/ status' = [status EXCEPT ![r] = "admitted"]
      /\ UNCHANGED <<now, limit, at, cents, stored, changes, restarts>>
  BY DEF Admit
<1>2. /\ status' \in [Requests -> Statuses]
      /\ \A q \in Requests : status'[q] = "charged" <=> status[q] = "charged"
  BY <1>1 DEF IInv, TypeOK, Statuses
<1>3. TypeOK'
  BY <1>1, <1>2, AdmitWindow DEF IInv, TypeOK
<1>4. ChargedOnce'
  BY <1>2, AdmitWindow DEF IInv, ChargedOnce, With
<1>5. Covered'
  BY <1>1, <1>2, AdmitWindow DEF IInv, Covered
<1> QED BY <1>3, <1>4, <1>5 DEF IInv

LEMMA FinishIInv == ASSUME IInv, NEW r \in Requests, Finish(r) PROVE IInv'
<1>1. /\ status[r] = "admitted"
      /\ \/ status' = [status EXCEPT ![r] = "stamped"]
         \/ status' = [status EXCEPT ![r] = "failed"]
      /\ at' = [at EXCEPT ![r] = now]
      /\ UNCHANGED <<now, limit, window, stored, changes, restarts>>
  BY DEF Finish
<1>2. cents' \in [Requests -> Nat]
  BY Facts DEF IInv, TypeOK, Finish
<1>3. /\ status' \in [Requests -> Statuses]
      /\ at' \in [Requests -> Nat]
      /\ \A q \in Requests : status'[q] = "charged" <=> status[q] = "charged"
      /\ \A q \in Requests : status'[q] = "charged" => at'[q] = at[q]
  BY <1>1 DEF IInv, TypeOK, Statuses
<1>4. TypeOK'
  BY <1>1, <1>2, <1>3 DEF IInv, TypeOK
<1>5. Events' = Events
  BY <1>1 DEF Events, Elements
<1>6. ChargedOnce'
  BY <1>1, <1>3, <1>5 DEF IInv, ChargedOnce, With
<1>7. Covered'
  BY <1>1, <1>3, <1>5 DEF IInv, Covered
<1> QED BY <1>4, <1>6, <1>7 DEF IInv

LEMMA RecordIInv == ASSUME IInv, NEW r \in Requests, Record(r) PROVE IInv'
<1>1. CASE IsPriced(r) /\ limit > 0
  <2>1. /\ status[r] = "stamped"
        /\ window' = Append(window, r)
        /\ status' = [status EXCEPT ![r] = "charged"]
        /\ UNCHANGED <<now, limit, at, cents, stored, changes, restarts>>
    BY <1>1 DEF Record
  <2>2. TypeOK'
    BY <2>1 DEF IInv, TypeOK, Statuses
  <2>3. r \notin Events
    BY <2>1 DEF IInv, ChargedOnce, With
  <2>4. /\ Len(window) \in Nat /\ DOMAIN window = 1..Len(window)
        /\ DOMAIN window' = 1..(Len(window) + 1)
        /\ \A i \in 1..Len(window) : window'[i] = window[i]
        /\ window'[Len(window) + 1] = r
    BY <2>1 DEF IInv, TypeOK
  <2>5. Events' = Events \cup {r}
    BY <2>4 DEF Events, Elements
  <2>6. \A i, j \in DOMAIN window' : i # j => window'[i] # window'[j]
    <3>1. \A i \in 1..Len(window) : window[i] # r
      BY <2>3, <2>4 DEF Events, Elements
    <3> QED BY <3>1, <2>4 DEF IInv, ChargedOnce
  <2>7. \A q \in Requests : status'[q] = "charged" <=> status[q] = "charged" \/ q = r
    BY <2>1 DEF IInv, TypeOK
  <2>8. ChargedOnce'
    BY <2>5, <2>6, <2>7 DEF IInv, ChargedOnce, With
  <2>9. Covered'
    BY <2>1, <2>5, <2>7 DEF IInv, Covered
  <2> QED BY <2>2, <2>8, <2>9 DEF IInv
<1>2. CASE ~ (IsPriced(r) /\ limit > 0)
  <2>1. /\ status[r] = "stamped"
        /\ status' = [status EXCEPT ![r] = "free"]
        /\ UNCHANGED <<now, limit, at, cents, window, stored, changes, restarts>>
    BY <1>2 DEF Record
  <2>2. TypeOK'
    BY <2>1 DEF IInv, TypeOK, Statuses
  <2>3. \A q \in Requests : status'[q] = "charged" <=> status[q] = "charged"
    BY <2>1 DEF IInv, TypeOK
  <2>4. Events' = Events
    BY <2>1 DEF Events, Elements
  <2>5. ChargedOnce'
    BY <2>1, <2>3, <2>4 DEF IInv, ChargedOnce, With
  <2>6. Covered'
    BY <2>1, <2>3, <2>4 DEF IInv, Covered
  <2> QED BY <2>2, <2>5, <2>6 DEF IInv
<1> QED BY <1>1, <1>2

LEMMA RestartIInv == ASSUME IInv, Restart PROVE IInv'
<1>1. window' \in Replays(Replayed)
  BY DEF Restart
<1>2. Replayed \subseteq Requests
  BY DEF Replayed, IInv, TypeOK
<1>3. Cardinality(Replayed) \in Nat
  <2>1. IsFiniteSet(Replayed)
    BY <1>2, FS_Subset, BudgetAssumption DEF BudgetAssumption
  <2> QED BY <2>1, FS_CardinalityType
<1>4. /\ window' \in [1..Cardinality(Replayed) -> Replayed]
      /\ \A i, j \in DOMAIN window' : i < j => window'[i] # window'[j]
      /\ Replayed \subseteq {window'[i] : i \in DOMAIN window'}
  BY <1>1 DEF Replays
<1>5. window' \in Seq(Requests) /\ DOMAIN window' = 1..Cardinality(Replayed)
  BY <1>2, <1>3, <1>4
<1>6. Events' = Replayed
  BY <1>4, <1>5 DEF Events, Elements
<1>7. \A i, j \in DOMAIN window' : i # j => window'[i] # window'[j]
  BY <1>3, <1>4, <1>5
<1>8. /\ status' \in [Requests -> Statuses]
      /\ \A r \in Requests : status'[r] = "charged" <=> r \in Replayed
  <2>1. \A r \in Requests : Replayed \subseteq stored /\ status[r] \in Statuses
    BY DEF Replayed, IInv, TypeOK
  <2>2. /\ status' = [r \in Requests |-> status'[r]]
        /\ \A r \in Requests : status'[r] =
             CASE r \in Replayed -> "charged"
               [] r \in stored \ Replayed -> "free"
               [] r \notin stored /\ status[r] \in {"admitted", "stamped", "charged", "free"} -> "lost"
               [] OTHER -> status[r]
    BY DEF Restart
  <2>3. ASSUME NEW r \in Requests
        PROVE  status'[r] \in Statuses /\ (status'[r] = "charged" <=> r \in Replayed)
    <3>1. CASE r \in Replayed
      BY <3>1, <2>1, <2>2 DEF Statuses
    <3>2. CASE r \in stored \ Replayed
      BY <3>2, <2>1, <2>2 DEF Statuses
    <3>3. CASE r \notin stored
      BY <3>3, <2>1, <2>2 DEF Statuses
    <3> QED BY <3>1, <3>2, <3>3
  <2> QED BY <2>2, <2>3
<1>9. TypeOK'
  BY <1>5, <1>8 DEF Restart, IInv, TypeOK
<1>10. ChargedOnce'
  BY <1>2, <1>6, <1>7, <1>8 DEF ChargedOnce, With
<1>11. Covered'
  BY <1>6, <1>8 DEF Covered
<1> QED BY <1>9, <1>10, <1>11 DEF IInv

(* Steps that touch neither the window nor any status.                      *)
LEMMA QuietIInv ==
  ASSUME IInv, TypeOK', UNCHANGED <<status, at, window>>, now' >= now
  PROVE  IInv'
<1>1. Events' = Events
  BY DEF Events, Elements
<1>2. ChargedOnce'
  BY <1>1 DEF IInv, ChargedOnce, With
<1>3. Covered'
  BY <1>1, Facts DEF IInv, Covered, TypeOK
<1> QED BY <1>2, <1>3 DEF IInv

LEMMA NextIInv == IInv /\ [Next]_vars => IInv'
<1> SUFFICES ASSUME IInv, [Next]_vars PROVE IInv'
  OBVIOUS
<1>1. ASSUME NEW r \in Requests, Admit(r) PROVE IInv'
  BY <1>1, AdmitIInv
<1>2. ASSUME NEW r \in Requests, Finish(r) PROVE IInv'
  BY <1>2, FinishIInv
<1>3. ASSUME NEW r \in Requests, Record(r) PROVE IInv'
  BY <1>3, RecordIInv
<1>4. ASSUME NEW r \in Requests, Flush(r) PROVE IInv'
  <2>1. TypeOK' /\ UNCHANGED <<status, at, window>> /\ now' >= now
    BY <1>4 DEF Flush, IInv, TypeOK, With
  <2> QED BY <2>1, QuietIInv
<1>5. ASSUME NEW l \in Limits, SetLimit(l) PROVE IInv'
  <2>1. TypeOK' /\ UNCHANGED <<status, at, window>> /\ now' >= now
    BY <1>5 DEF SetLimit, IInv, TypeOK
  <2> QED BY <2>1, QuietIInv
<1>6. CASE Restart
  BY <1>6, RestartIInv
<1>7. CASE Tick
  <2>1. TypeOK' /\ UNCHANGED <<status, at, window>> /\ now' >= now
    BY <1>7 DEF Tick, IInv, TypeOK
  <2> QED BY <2>1, QuietIInv
<1>8. CASE UNCHANGED vars
  <2>1. TypeOK' /\ UNCHANGED <<status, at, window>> /\ now' >= now
    BY <1>8 DEF vars, IInv, TypeOK
  <2> QED BY <2>1, QuietIInv
<1> QED BY <1>1, <1>2, <1>3, <1>4, <1>5, <1>6, <1>7, <1>8 DEF Next

\* The inductive invariant holds in every reachable state.
THEOREM BudgetInvariant == Spec => []IInv
<1>1. Init => IInv
  BY InitIInv
<1>2. IInv /\ [Next]_vars => IInv'
  BY NextIInv
<1> QED BY <1>1, <1>2, PTL DEF Spec

\* No request is ever charged twice to the account, across restarts too.
THEOREM ChargedOnceTheorem == Spec => []ChargedOnce
<1>1. IInv => ChargedOnce
  BY DEF IInv
<1> QED BY <1>1, BudgetInvariant, PTL

(* What reserve_downstream_request compares with the limit is what the      *)
(* account spent in the last day.                                           *)
LEMMA AdmitSeesSpending ==
  ASSUME IInv, Priced = Keys, NEW r \in Requests, Admit(r)
  PROVE  DailyUsed(window') = SpentToday
<1> DEFINE A == {q \in Elements(window') : at[q] >= WindowStart(DayLen)}
           B == {q \in With({"charged"}) : at[q] + DayLen > now}
<1>1. Events' = Elements(window')
  BY DEF Events, Elements
<1>2. /\ Events' \subseteq Events
      /\ \A q \in Events : at[q] + DayLen > now => q \in Events'
  BY AdmitWindow
<1>3. Events \subseteq With({"charged"}) /\ With({"charged"}) \subseteq Requests
  BY DEF IInv, ChargedOnce, With
<1>4. \A q \in With({"charged"}) : at[q] + DayLen > now => q \in Events
  BY DEF IInv, Covered, With
<1>5. \A q \in Requests : at[q] >= WindowStart(DayLen) <=> at[q] + DayLen > now
  BY Facts, WindowStartFacts DEF IInv
<1>6. A = B
  BY <1>1, <1>2, <1>3, <1>4, <1>5
<1> QED BY <1>6 DEF DailyUsed, SpentToday

(* Only reserve_downstream_request decides about a new request.             *)
LEMMA OnlyAdmit ==
  ASSUME IInv, Next, NEW r \in Requests,
         status[r] = "new", status'[r] \in {"admitted", "refused"}
  PROVE  Admit(r)
<1>1. ASSUME NEW q \in Requests, Admit(q) PROVE Admit(r)
  <2>1. q = r
    BY <1>1 DEF Admit, IInv, TypeOK
  <2> QED BY <1>1, <2>1
<1>2. ASSUME NEW q \in Requests, Finish(q) \/ Record(q) PROVE FALSE
  BY <1>2 DEF Finish, Record, IInv, TypeOK
<1>3. ASSUME NEW q \in Requests, Flush(q) PROVE FALSE
  BY <1>3 DEF Flush
<1>4. \A l \in Limits : ~ SetLimit(l)
  BY DEF SetLimit
<1>5. ASSUME Restart PROVE FALSE
  <2>1. status'[r] \in {"charged", "free", "lost", "new"}
    BY <1>5 DEF Restart
  <2> QED BY <2>1
<1>6. ~ Tick
  BY DEF Tick
<1> QED BY <1>1, <1>2, <1>3, <1>4, <1>5, <1>6 DEF Next

\* The account's daily budget: if every key of the account is cost billed, a
\* request of a limited account is admitted only while the requests charged to
\* the account in the last day have not reached the limit.
THEOREM BudgetTheorem == ASSUME Priced = Keys PROVE Spec => BudgetEnforced
<1> DEFINE A == \A r \in Requests :
                   (status[r] = "new" /\ status'[r] = "admitted" /\ limit > 0)
                      => ~ (SpentToday >= limit)
<1>1. IInv /\ [Next]_vars => [A]_vars
  <2> SUFFICES ASSUME IInv, Next, NEW r \in Requests,
                      status[r] = "new", status'[r] = "admitted", limit > 0
               PROVE  ~ (SpentToday >= limit)
    OBVIOUS
  <2>1. Admit(r)
    BY OnlyAdmit
  <2>2. DailyUsed(window') = SpentToday
    BY <2>1, AdmitSeesSpending
  <2>3. ~ (DailyUsed(window') >= limit)
    BY <2>1 DEF Admit, IInv, TypeOK
  <2> QED BY <2>2, <2>3
<1>2. BudgetEnforced <=> [][A]_vars
  BY DEF BudgetEnforced
<1> QED BY <1>1, <1>2, BudgetInvariant, PTL DEF Spec

\* The other side of the same limit: if every key of the account is cost
\* billed, a request is refused only when the account spent its limit today.
THEOREM RefusalTheorem == ASSUME Priced = Keys PROVE Spec => RefusedOnlyWhenSpent
<1> DEFINE A == \A r \in Requests :
                   (status[r] = "new" /\ status'[r] = "refused") => SpentToday >= limit
<1>1. IInv /\ [Next]_vars => [A]_vars
  <2> SUFFICES ASSUME IInv, Next, NEW r \in Requests,
                      status[r] = "new", status'[r] = "refused"
               PROVE  SpentToday >= limit
    OBVIOUS
  <2>1. Admit(r)
    BY OnlyAdmit
  <2>2. DailyUsed(window') = SpentToday
    BY <2>1, AdmitSeesSpending
  <2>3. DailyUsed(window') >= limit
    BY <2>1 DEF Admit, IInv, TypeOK
  <2> QED BY <2>2, <2>3
<1>2. RefusedOnlyWhenSpent <=> [][A]_vars
  BY DEF RefusedOnlyWhenSpent
<1> QED BY <1>1, <1>2, BudgetInvariant, PTL DEF Spec

\* With every key cost billed, reserve_downstream_request admits below the
\* limit and refuses at it, and never the other way round.
THEOREM FairTheorem == ASSUME Priced = Keys PROVE Spec => BudgetFair
BY BudgetTheorem, RefusalTheorem DEF BudgetFair

=============================================================================
