------------------------ MODULE PrivilegeSync_proofs ------------------------
(***************************************************************************)
(* Proofs about the pool of handles that a reconcile of privileges uses,   *)
(* and about the reconcile itself, for any databases, grants and           *)
(* privileges and any number of incidents. The reconcile is proved in four *)
(* parts: what its statements are about and that none is missing; that the *)
(* pool hands a session's connection back as the request left it; that     *)
(* every step keeps what is known of the session and the statements; and   *)
(* the invariant of all steps.                                             *)
(***************************************************************************)
EXTENDS PrivilegeSync, FiniteSetTheorems, SequenceTheorems, TLAPS

PoolInv == PoolTypeOK /\ DropsPaid

\* the same handles are open
SameOpen ==
    /\ handles' \in Seq(Handles) /\ Len(handles') = Len(handles)
    /\ \A h \in 1 .. Len(handles) : handles'[h].open = handles[h].open

(* The sets of handles are finite; one handle more counts for one.         *)
LEMMA LooseFinite ==
    ASSUME PoolTypeOK
    PROVE  IsFiniteSet(Loose) /\ Cardinality(Loose) \in Nat
<1>1. DOMAIN handles = 1 .. Len(handles) /\ Len(handles) \in Nat
  BY DEF PoolTypeOK
<1>2. IsFiniteSet(1 .. Len(handles))
  BY <1>1, FS_Interval
<1>3. Loose \subseteq 1 .. Len(handles)
  BY <1>1 DEF Loose
<1>4. IsFiniteSet(Loose)
  BY <1>2, <1>3, FS_Subset
<1>5. QED BY <1>4, FS_CardinalityType

(* A set with one element more.                                            *)
LEMMA OneMore ==
    ASSUME NEW S, IsFiniteSet(S), NEW T, NEW x, T \subseteq S \cup {x}
    PROVE  Cardinality(T) <= Cardinality(S) + 1
<1>1. IsFiniteSet(S \cup {x}) /\ Cardinality(S \cup {x}) \in {Cardinality(S), Cardinality(S) + 1}
  BY FS_AddElement, FS_CardinalityType, Zenon
<1>2. IsFiniteSet(T) /\ Cardinality(T) <= Cardinality(S \cup {x})
  BY <1>1, FS_Subset
<1>3. Cardinality(S) \in Nat /\ Cardinality(T) \in Nat
  BY <1>2, FS_CardinalityType
<1>4. QED BY <1>1, <1>2, <1>3

(* A subset has no more elements.                                          *)
LEMMA NoMore ==
    ASSUME NEW S, IsFiniteSet(S), NEW T, T \subseteq S
    PROVE  Cardinality(T) <= Cardinality(S)
BY FS_Subset

(* Changing the idle connections of a handle, or its age.                  *)
LEMMA ChangeHandle ==
    ASSUME handles \in Seq(Handles), NEW h \in 1 .. Len(handles), NEW new \in Handles,
           new.open = handles[h].open, handles' = [handles EXCEPT ![h] = new]
    PROVE  SameOpen
<1>1. /\ handles' \in Seq(Handles) /\ Len(handles') = Len(handles)
      /\ \A j \in 1 .. Len(handles) : handles'[j] = IF j = h THEN new ELSE handles[j]
  BY ExceptSeq
<1>2. QED BY <1>1 DEF SameOpen

(* Connections that come and go open and close no handle.                  *)
LEMMA SetIdle ==
    ASSUME handles \in Seq(Handles), NEW h \in 1 .. Len(handles), NEW s \in Seq(Sessions),
           handles' = [handles EXCEPT ![h].idle = s]
    PROVE  SameOpen
<1> DEFINE new == [handles[h] EXCEPT !.idle = s]
<1>1. handles[h] \in Handles
  BY ElementOfSeq
<1>2. new \in Handles /\ new.open = handles[h].open
  BY <1>1 DEF Handles
<1>3. handles' = [handles EXCEPT ![h] = new]
  OBVIOUS
<1> HIDE DEF new
<1>4. QED BY <1>2, <1>3, ChangeHandle

(* A handle that grows old or is used stays open.                          *)
LEMMA SetStale ==
    ASSUME handles \in Seq(Handles), NEW h \in 1 .. Len(handles), NEW b \in BOOLEAN,
           handles' = [handles EXCEPT ![h].stale = b]
    PROVE  SameOpen
<1> DEFINE new == [handles[h] EXCEPT !.stale = b]
<1>1. handles[h] \in Handles
  BY ElementOfSeq
<1>2. new \in Handles /\ new.open = handles[h].open
  BY <1>1 DEF Handles
<1>3. handles' = [handles EXCEPT ![h] = new]
  OBVIOUS
<1> HIDE DEF new
<1>4. QED BY <1>2, <1>3, ChangeHandle

(* What is taken from a handle and given back.                             *)
LEMMA IdleTypes ==
    ASSUME handles \in Seq(Handles), NEW h \in 1 .. Len(handles)
    PROVE  /\ handles[h].idle \in Seq(Sessions)
           /\ Taken(h) \in Sessions /\ Left(h) \in Seq(Sessions)
           /\ \A s \in Sessions : \A idle \in Seq(Sessions) : GivenBack(idle, s) \in Seq(Sessions)
           /\ \A i \in DOMAIN handles[h].idle :
                 SubSeq(handles[h].idle, 1, i - 1)
                    \o SubSeq(handles[h].idle, i + 1, Len(handles[h].idle)) \in Seq(Sessions)
<1> DEFINE q == handles[h].idle
<1>1. handles[h] \in Handles
  BY ElementOfSeq
<1>2. q \in Seq(Sessions)
  BY <1>1 DEF Handles
<1>3. Len(q) \in Nat /\ DOMAIN q = 1 .. Len(q) /\ \A i \in 1 .. Len(q) : q[i] \in Sessions
  BY <1>2, LenProperties
<1> HIDE DEF q
<1>4. Taken(h) \in Sessions
  <2>1. CASE q = <<>>
    BY <2>1, PoolAssumption DEF Taken, q, DefaultDatabase
  <2>2. CASE q # <<>>
    <3>1. Len(q) \in 1 .. Len(q)
      BY <1>2, <1>3, <2>2, EmptySeq
    <3>2. QED BY <1>3, <2>2, <3>1 DEF Taken, q
  <2>3. QED BY <2>1, <2>2
<1>5. ASSUME NEW m \in Int, NEW n \in Int, 1 <= m, n <= Len(q)
      PROVE  SubSeq(q, m, n) \in Seq(Sessions)
  <2>1. \A i \in m .. n : q[i] \in Sessions
    BY <1>3, <1>5
  <2>2. QED BY <2>1, SubSeqProperties
<1>6. Left(h) \in Seq(Sessions)
  <2>1. SubSeq(q, 1, Len(q) - 1) \in Seq(Sessions)
    BY <1>3, <1>5
  <2>2. QED BY <2>1 DEF Left, q
<1>7. \A s \in Sessions : \A idle \in Seq(Sessions) : GivenBack(idle, s) \in Seq(Sessions)
  BY AppendProperties DEF GivenBack
<1>8. ASSUME NEW i \in 1 .. Len(q)
      PROVE  SubSeq(q, 1, i - 1) \o SubSeq(q, i + 1, Len(q)) \in Seq(Sessions)
  <2>1. SubSeq(q, 1, i - 1) \in Seq(Sessions) /\ SubSeq(q, i + 1, Len(q)) \in Seq(Sessions)
    BY <1>3, <1>5
  <2>2. QED BY <2>1, ConcatProperties
<1>9. QED BY <1>2, <1>3, <1>4, <1>6, <1>7, <1>8 DEF q

(* A request that is answered changes idle connections only.               *)
LEMMA AnsweredOpen ==
    ASSUME handles \in Seq(Handles), NEW h \in 1 .. Len(handles), NEW s \in Sessions,
           handles' = Answered(h, s)
    PROVE  SameOpen
<1>1. GivenBack(Left(h), s) \in Seq(Sessions)
  BY IdleTypes
<1>2. QED BY <1>1, SetIdle DEF Answered

-----------------------------------------------------------------------------
(* While the pool and the checker have the same handles, and the same ones *)
(* are open, nothing is dropped.                                           *)
LEMMA QuietStep ==
    ASSUME PoolInv, SameOpen, UNCHANGED <<pool, checker, failures>>,
           incidents' \in 0 .. MaxIncidents, get' \in Calls, get'.handle \in 0 .. Len(handles),
           get'.pc \in {"ping", "have"} => get'.handle # NoHandle,
           get'.pc = "open" => pool = NoHandle
    PROVE  PoolInv'
<1> USE DEF PoolInv
<1>1. /\ DOMAIN handles = 1 .. Len(handles) /\ DOMAIN handles' = 1 .. Len(handles)
      /\ \A h \in 1 .. Len(handles) : handles'[h].open = handles[h].open
      /\ handles' \in Seq(Handles) /\ Len(handles') = Len(handles)
  BY LenProperties DEF PoolTypeOK, SameOpen
<1>2. PoolTypeOK'
  BY <1>1 DEF PoolTypeOK
<1>3. Loose' = Loose
  BY <1>1 DEF Loose
<1>4. AboutToDrop' <=> AboutToDrop
  <2>1. checker.pc \in {"ping", "cleanup"} => checker.handle \in 1 .. Len(handles)
    BY DEF PoolTypeOK, NoHandle
  <2>2. QED BY <1>1, <2>1 DEF AboutToDrop
<1>5. QED BY <1>2, <1>3, <1>4 DEF DropsPaid

(* The incidents that are left.                                            *)
LEMMA SpendIncident ==
    ASSUME PoolInv, Incident \/ UNCHANGED incidents
    PROVE  incidents' \in 0 .. MaxIncidents
<1>1. incidents \in 0 .. MaxIncidents /\ MaxIncidents \in Nat
  BY PoolAssumption DEF PoolInv, PoolTypeOK
<1>2. \/ incidents' = incidents
      \/ incidents > 0 /\ incidents' = incidents - 1
  BY DEF Incident
<1>3. QED BY <1>1, <1>2

(* What PoolInv says of the handles that pool, get and checker refer to.   *)
LEMMA HandlesIn ==
    ASSUME PoolInv
    PROVE  /\ handles \in Seq(Handles) /\ Len(handles) \in Nat /\ DOMAIN handles = 1 .. Len(handles)
           /\ \A h \in 1 .. Len(handles) : handles[h] \in Handles
           /\ pool # NoHandle => pool \in 1 .. Len(handles) /\ handles[pool].open
           /\ get.pc \in {"ping", "have"} => get.handle \in 1 .. Len(handles)
           /\ checker.pc # "idle" => checker.handle \in 1 .. Len(handles)
           /\ failures \in Nat
<1>1. handles \in Seq(Handles)
  BY DEF PoolInv, PoolTypeOK
<1>2. Len(handles) \in Nat /\ DOMAIN handles = 1 .. Len(handles)
  BY <1>1, LenProperties
<1>3. \A h \in 1 .. Len(handles) : handles[h] \in Handles
  BY <1>1, ElementOfSeq
<1>4. QED BY <1>1, <1>2, <1>3 DEF PoolInv, PoolTypeOK, NoHandle

(* Get: the call that finds a handle or none.                              *)
LEMMA GetStep ==
    ASSUME PoolInv, Get
    PROVE  PoolInv'
<1>1. UNCHANGED <<pool, checker, failures, incidents>> /\ incidents' \in 0 .. MaxIncidents
  BY SpendIncident DEF Get
<1>2. CASE pool = NoHandle
  <2>1. get' = [pc |-> "open", handle |-> NoHandle] /\ handles' = handles
    BY <1>2 DEF Get
  <2>2. SameOpen
    BY <2>1, HandlesIn DEF SameOpen
  <2>3. /\ get'.pc = "open" /\ get'.handle = 0 /\ get' \in Calls
        /\ 0 \in 0 .. Len(handles)
    BY <2>1, HandlesIn DEF Calls, NoHandle
  <2>4. QED BY <1>1, <1>2, <2>2, <2>3, QuietStep
<1>3. CASE pool # NoHandle
  <2>1. get' = [pc |-> "ping", handle |-> pool] /\ handles' = [handles EXCEPT ![pool].stale = FALSE]
    BY <1>3 DEF Get
  <2>2. SameOpen
    BY <1>3, <2>1, HandlesIn, SetStale
  <2>3. get'.pc = "ping" /\ get'.handle = pool /\ get' \in Calls /\ pool \in 0 .. Len(handles)
    BY <1>3, <2>1, HandlesIn DEF Calls, NoHandle
  <2>4. QED BY <1>1, <1>3, <2>2, <2>3, QuietStep
<1>4. QED BY <1>2, <1>3

(* The ping of Get: a handle that does not answer is dropped, and counted. *)
LEMMA PingStep ==
    ASSUME PoolInv, Ping
    PROVE  PoolInv'
<1> DEFINE h == get.handle
<1>1. h \in 1 .. Len(handles) /\ get \in Calls
  BY HandlesIn DEF Ping, PoolInv, PoolTypeOK
<1>2. CASE /\ handles' = Answered(h, Taken(h)) /\ get' = [get EXCEPT !.pc = "have"]
           /\ UNCHANGED <<pool, failures, incidents, checker>>
  <2>1. SameOpen
    BY <1>1, <1>2, HandlesIn, IdleTypes, AnsweredOpen
  <2>2. get'.pc = "have" /\ get'.handle = h /\ get' \in Calls
    BY <1>1, <1>2 DEF Calls
  <2>3. incidents' \in 0 .. MaxIncidents
    BY <1>2, SpendIncident
  <2>4. QED BY <1>1, <1>2, <2>1, <2>2, <2>3, HandlesIn, QuietStep DEF NoHandle
<1>3. CASE /\ PingFails(h) /\ handles' = [handles EXCEPT ![h].idle = <<>>]
           /\ pool' = NoHandle /\ get' = [pc |-> "open", handle |-> NoHandle]
           /\ UNCHANGED checker
  <2>1. SameOpen
    BY <1>1, <1>3, HandlesIn, SetIdle, EmptySeq
  <2>2. incidents' \in 0 .. MaxIncidents /\ failures' = failures + 1
    BY <1>3, SpendIncident DEF PingFails, Fails
  <2>3. get'.pc = "open" /\ get'.handle = 0 /\ get' \in Calls
    BY <1>3 DEF Calls, NoHandle
  <2>4. /\ DOMAIN handles' = 1 .. Len(handles) /\ Len(handles') = Len(handles)
        /\ handles' \in Seq(Handles)
        /\ \A x \in 1 .. Len(handles) : handles'[x].open = handles[x].open
    BY <2>1, LenProperties DEF SameOpen
  <2>5. PoolTypeOK'
    BY <1>3, <2>2, <2>3, <2>4, HandlesIn DEF PoolInv, PoolTypeOK, NoHandle
  <2>6. CASE pool = checker.handle
    <3>1. Loose' \subseteq Loose
      BY <1>3, <2>4, <2>6, HandlesIn DEF Loose, NoHandle
    <3>2. Cardinality(Loose') <= Cardinality(Loose) /\ Cardinality(Loose) \in Nat
          /\ Cardinality(Loose') \in Nat
      BY <2>5, <3>1, LooseFinite, NoMore, FS_Subset, FS_CardinalityType DEF PoolInv
    <3>3. QED
      BY <2>2, <2>5, <2>6, <3>2, HandlesIn DEF PoolInv, DropsPaid
  <2>7. CASE pool # checker.handle
    <3>1. Loose' \subseteq Loose \cup {pool}
      BY <1>3, <2>4, HandlesIn DEF Loose, NoHandle
    <3>2. Cardinality(Loose') <= Cardinality(Loose) + 1 /\ Cardinality(Loose) \in Nat
          /\ Cardinality(Loose') \in Nat
      BY <3>1, LooseFinite, OneMore, FS_AddElement, FS_Subset, FS_CardinalityType DEF PoolInv
    <3>3. AboutToDrop' => AboutToDrop
      <4>1. checker.pc # "idle" => checker.handle \in 1 .. Len(handles)
        BY HandlesIn
      <4>2. QED BY <1>3, <2>4, <2>7, <4>1 DEF AboutToDrop
    <3>4. QED BY <2>2, <2>5, <3>2, <3>3, HandlesIn DEF PoolInv, DropsPaid
  <2>8. QED BY <2>6, <2>7
<1>4. QED BY <1>2, <1>3 DEF Ping
(* A new handle goes into the pool, which has none.                        *)
LEMMA OpenStep ==
    ASSUME PoolInv, Open
    PROVE  PoolInv'
<1> DEFINE new == [open |-> TRUE, stale |-> FALSE, idle |-> <<DefaultDatabase>>]
           n == Len(handles) + 1
<1>1. new \in Handles /\ new.open
  <2>1. <<DefaultDatabase>> \in Seq(Sessions)
    BY PoolAssumption DEF DefaultDatabase
  <2>2. QED BY <2>1, Zenon DEF Handles
<1>2. handles' = Append(handles, new) /\ pool' = Len(handles')
      /\ get' = [pc |-> "have", handle |-> Len(handles')]
      /\ UNCHANGED <<checker, failures, incidents>> /\ pool = NoHandle
  BY DEF Open, PoolInv, PoolTypeOK
<1> HIDE DEF new
<1>3. /\ handles' \in Seq(Handles) /\ Len(handles') = n
      /\ \A i \in 1 .. Len(handles) : handles'[i] = handles[i]
      /\ handles'[n] = new
  BY <1>1, <1>2, HandlesIn, AppendProperties
<1>4. DOMAIN handles' = 1 .. n /\ Len(handles) \in Nat /\ DOMAIN handles = 1 .. Len(handles)
  BY <1>3, HandlesIn, LenProperties
<1>5. /\ get'.pc = "have" /\ get'.handle = n /\ get' \in Calls /\ pool' = n
      /\ n \in 1 .. n /\ n # NoHandle
  BY <1>2, <1>3, <1>4 DEF Calls, NoHandle
<1> HIDE DEF n
<1>6. /\ checker.handle \in 0 .. Len(handles) /\ checker.handle # n
      /\ checker.pc # "idle" => checker.handle \in 1 .. Len(handles)
      /\ 0 .. Len(handles) \subseteq 0 .. n
  BY <1>4, HandlesIn DEF PoolInv, PoolTypeOK, n
<1>7. handles'[n].open
  BY <1>1, <1>3
<1>8. PoolTypeOK'
  BY <1>2, <1>3, <1>4, <1>5, <1>6, <1>7, HandlesIn DEF PoolInv, PoolTypeOK
<1>9. Loose' \subseteq Loose
  <2>1. SUFFICES ASSUME NEW h \in 1 .. n, handles'[h].open, h \notin {pool', checker'.handle}
                 PROVE  h \in Loose
    BY <1>4 DEF Loose
  <2>2. h \in 1 .. Len(handles)
    BY <1>4, <1>5, <2>1 DEF n
  <2>3. h # NoHandle
    BY <1>4, <2>2 DEF NoHandle
  <2>4. QED BY <1>2, <1>3, <1>4, <2>1, <2>2, <2>3 DEF Loose
<1>10. Cardinality(Loose') <= Cardinality(Loose) /\ Cardinality(Loose) \in Nat
       /\ Cardinality(Loose') \in Nat
  BY <1>9, LooseFinite, NoMore, FS_Subset, FS_CardinalityType DEF PoolInv
<1>11. AboutToDrop' => AboutToDrop
  <2>1. checker.pc # "idle" => pool # checker.handle /\ handles'[checker.handle] = handles[checker.handle]
    BY <1>2, <1>3, <1>4, <1>6 DEF NoHandle
  <2>2. QED BY <1>2, <2>1 DEF AboutToDrop
<1>12. QED BY <1>2, <1>8, <1>10, <1>11, HandlesIn DEF PoolInv, DropsPaid

(* The new handle does not answer.                                         *)
LEMMA OpenFailsStep ==
    ASSUME PoolInv, OpenFails
    PROVE  PoolInv'
<1>1. UNCHANGED <<pool, handles, checker, failures>> /\ get' = NoCall
      /\ incidents' \in 0 .. MaxIncidents
  BY SpendIncident DEF OpenFails
<1>2. SameOpen
  BY <1>1, HandlesIn DEF SameOpen
<1>3. get'.pc = "none" /\ get'.handle = 0 /\ get' \in Calls /\ 0 \in 0 .. Len(handles)
  BY <1>1, HandlesIn DEF NoCall, Calls, NoHandle
<1>4. QED BY <1>1, <1>2, <1>3, QuietStep

(* Time passes.                                                            *)
LEMMA AgeStep ==
    ASSUME PoolInv, Age
    PROVE  PoolInv'
<1>1. UNCHANGED <<pool, get, checker, failures>> /\ incidents' \in 0 .. MaxIncidents
  BY SpendIncident DEF Age
<1>2. PICK h \in DOMAIN handles :
         \/ handles' = [handles EXCEPT ![h].stale = TRUE]
         \/ \E i \in DOMAIN handles[h].idle :
               handles' = [handles EXCEPT ![h].idle =
                              SubSeq(@, 1, i - 1) \o SubSeq(@, i + 1, Len(@))]
  BY DEF Age
<1>3. h \in 1 .. Len(handles) /\ handles \in Seq(Handles)
  BY <1>2, HandlesIn
<1>4. SameOpen
  <2>1. CASE handles' = [handles EXCEPT ![h].stale = TRUE]
    BY <1>3, <2>1, SetStale
  <2>2. ASSUME NEW i \in DOMAIN handles[h].idle,
               handles' = [handles EXCEPT ![h].idle =
                              SubSeq(@, 1, i - 1) \o SubSeq(@, i + 1, Len(@))]
        PROVE  SameOpen
    <3> DEFINE rest == SubSeq(handles[h].idle, 1, i - 1)
                          \o SubSeq(handles[h].idle, i + 1, Len(handles[h].idle))
    <3>1. rest \in Seq(Sessions)
      BY <1>3, IdleTypes
    <3>2. handles' = [handles EXCEPT ![h].idle = rest]
      BY <2>2
    <3> HIDE DEF rest
    <3>3. QED BY <1>3, <3>1, <3>2, SetIdle
  <2>3. QED BY <1>2, <2>1, <2>2
<1>5. QED BY <1>1, <1>4, QuietStep DEF PoolInv, PoolTypeOK

-----------------------------------------------------------------------------
(* The checker.  Its step leaves the calls of Get alone.                   *)

(* What a step of the checker has to keep, when the same handles are open. *)
LEMMA CheckerStepOpen ==
    ASSUME PoolInv, SameOpen, UNCHANGED get, pool' \in {pool, NoHandle},
           incidents' \in 0 .. MaxIncidents, failures' \in Nat,
           checker' \in Checkers, checker'.handle \in 0 .. Len(handles),
           checker'.pc = "idle" <=> checker'.handle = NoHandle,
           checker'.pc = "ping" => Len(checker'.taken) = 1,
           checker'.pc \in {"close", "closeStale"} => pool' # checker'.handle
    PROVE  PoolTypeOK' /\ DOMAIN handles' = 1 .. Len(handles)
<1>1. /\ DOMAIN handles' = 1 .. Len(handles)
      /\ \A h \in 1 .. Len(handles) : handles'[h].open = handles[h].open
      /\ handles' \in Seq(Handles) /\ Len(handles') = Len(handles)
  BY LenProperties DEF SameOpen
<1>2. QED BY <1>1, HandlesIn DEF PoolInv, PoolTypeOK
(* The pool's handle is looked at: it is not about to be dropped.          *)
LEMMA HealthCheckStep ==
    ASSUME PoolInv, HealthCheck
    PROVE  PoolInv'
<1> USE HandlesIn
<1>1. /\ pool \in 1 .. Len(handles) /\ handles' = [handles EXCEPT ![pool].idle = Left(pool)]
      /\ checker' = [pc |-> "ping", handle |-> pool, taken |-> <<Taken(pool)>>]
      /\ checker.handle = NoHandle /\ checker.pc = "idle"
      /\ UNCHANGED <<pool, get, failures>> /\ incidents' \in 0 .. MaxIncidents
  BY SpendIncident DEF HealthCheck, PoolInv, PoolTypeOK
<1>2. SameOpen
  BY <1>1, IdleTypes, SetIdle
<1>3. <<Taken(pool)>> \in Seq(Sessions) /\ Len(<<Taken(pool)>>) = 1
  BY <1>1, IdleTypes
<1>4. /\ checker' \in Checkers /\ checker'.pc = "ping" /\ checker'.handle = pool
      /\ Len(checker'.taken) = 1 /\ pool # NoHandle /\ pool \in 0 .. Len(handles)
  BY <1>1, <1>3 DEF Checkers, NoHandle
<1>5. PoolTypeOK' /\ DOMAIN handles' = 1 .. Len(handles)
  BY <1>1, <1>2, <1>4, CheckerStepOpen
<1>6. Loose' \subseteq Loose
  BY <1>1, <1>2, <1>4, <1>5 DEF Loose, SameOpen, NoHandle
<1>7. Cardinality(Loose') <= Cardinality(Loose) /\ Cardinality(Loose) \in Nat
      /\ Cardinality(Loose') \in Nat
  BY <1>6, LooseFinite, NoMore, FS_Subset, FS_CardinalityType DEF PoolInv
<1>8. ~AboutToDrop'
  BY <1>1, <1>4 DEF AboutToDrop
<1>9. QED BY <1>1, <1>5, <1>7, <1>8 DEF PoolInv, DropsPaid

(* The checker's ping: a failure is counted before anything is dropped.    *)
LEMMA CheckPingStep ==
    ASSUME PoolInv, CheckPing
    PROVE  PoolInv'
<1> USE HandlesIn
<1> DEFINE h == checker.handle
<1>1. /\ h \in 1 .. Len(handles) /\ checker \in Checkers /\ checker.pc = "ping"
      /\ Len(checker.taken) = 1 /\ UNCHANGED <<pool, get>> /\ h # NoHandle
  BY DEF CheckPing, PoolInv, PoolTypeOK, NoHandle
<1>2. CASE /\ handles' = [handles EXCEPT ![h].idle = GivenBack(@, checker.taken[1])]
           /\ checker' = [checker EXCEPT !.pc = "cleanup", !.taken = <<>>]
           /\ UNCHANGED <<failures, incidents>>
  <2>1. checker.taken \in Seq(Sessions)
    BY <1>1 DEF Checkers
  <2>2. checker.taken[1] \in Sessions
    BY <1>1, <2>1, ElementOfSeq
  <2>3. GivenBack(handles[h].idle, checker.taken[1]) \in Seq(Sessions)
    BY <1>1, <2>2, IdleTypes
  <2>4. SameOpen
    BY <1>1, <1>2, <2>3, SetIdle
  <2>5. checker' \in Checkers /\ checker'.pc = "cleanup" /\ checker'.handle = h
    <3>1. <<>> \in Seq(Sessions)
      BY EmptySeq
    <3>2. QED BY <1>1, <1>2, <3>1 DEF Checkers
  <2>6. incidents' \in 0 .. MaxIncidents
    BY <1>2, SpendIncident
  <2>7. PoolTypeOK' /\ DOMAIN handles' = 1 .. Len(handles)
    <3>1. checker'.handle \in 0 .. Len(handles) /\ checker'.handle # NoHandle
      BY <1>1, <2>5
    <3>2. QED BY <1>1, <1>2, <2>4, <2>5, <2>6, <3>1, CheckerStepOpen
  <2>8. Loose' = Loose
    BY <1>1, <2>4, <2>5, <2>7 DEF Loose, SameOpen
  <2>9. AboutToDrop' => AboutToDrop
    BY <1>1, <2>4, <2>5 DEF AboutToDrop, SameOpen
  <2>10. Cardinality(Loose) \in Nat
    BY LooseFinite DEF PoolInv
  <2>11. QED BY <1>2, <2>7, <2>8, <2>9, <2>10 DEF PoolInv, DropsPaid
<1>3. CASE /\ PingFails(h) /\ checker' = [checker EXCEPT !.pc = "remove", !.taken = <<>>]
           /\ UNCHANGED handles
  <2>1. SameOpen
    BY <1>3 DEF SameOpen
  <2>2. checker' \in Checkers /\ checker'.pc = "remove" /\ checker'.handle = h
    <3>1. <<>> \in Seq(Sessions)
      BY EmptySeq
    <3>2. QED BY <1>1, <1>3, <3>1 DEF Checkers
  <2>3. incidents' \in 0 .. MaxIncidents /\ failures' = failures + 1
    BY <1>3, SpendIncident DEF PingFails, Fails
  <2>4. PoolTypeOK' /\ DOMAIN handles' = 1 .. Len(handles)
    <3>1. checker'.handle \in 0 .. Len(handles) /\ checker'.handle # NoHandle /\ failures' \in Nat
      BY <1>1, <2>2, <2>3
    <3>2. QED BY <1>1, <2>1, <2>2, <2>3, <3>1, CheckerStepOpen
  <2>5. Loose' = Loose
    BY <1>1, <1>3, <2>2 DEF Loose
  <2>6. Cardinality(Loose) \in Nat
    BY LooseFinite DEF PoolInv
  <2>7. QED BY <2>3, <2>4, <2>5, <2>6 DEF PoolInv, DropsPaid
<1>4. QED BY <1>2, <1>3 DEF CheckPing

(* Whatever the pool has is removed: if that is another handle, the drop   *)
(* has been paid for.                                                      *)
LEMMA RemoveStep ==
    ASSUME PoolInv, Remove
    PROVE  PoolInv'
<1> USE HandlesIn
<1>1. /\ checker.pc \in {"remove", "removeStale"} /\ checker \in Checkers
      /\ checker.handle \in 1 .. Len(handles) /\ pool' = NoHandle
      /\ UNCHANGED <<handles, get, failures, incidents>> /\ incidents' \in 0 .. MaxIncidents
  BY SpendIncident DEF Remove, PoolInv, PoolTypeOK
<1>2. checker' = [checker EXCEPT !.pc = IF checker.pc = "remove" THEN "close" ELSE "closeStale"]
  BY DEF Remove
<1>3. /\ checker' \in Checkers /\ checker'.pc \in {"close", "closeStale"}
      /\ checker'.handle = checker.handle
  BY <1>1, <1>2 DEF Checkers
<1>4. SameOpen
  BY <1>1 DEF SameOpen
<1>5. PoolTypeOK' /\ DOMAIN handles' = 1 .. Len(handles)
  BY <1>1, <1>3, <1>4, CheckerStepOpen DEF NoHandle
<1>6. ~AboutToDrop'
  BY <1>3 DEF AboutToDrop
<1>7. /\ IsFiniteSet(Loose) /\ Cardinality(Loose) \in Nat
      /\ IsFiniteSet(Loose') /\ Cardinality(Loose') \in Nat
  <2>1. Loose' \subseteq 1 .. Len(handles)
    BY <1>5 DEF Loose
  <2>2. IsFiniteSet(Loose')
    <3>1. IsFiniteSet(1 .. Len(handles))
      BY FS_Interval
    <3>2. QED BY <2>1, <3>1, FS_Subset
  <2>3. QED BY <2>2, LooseFinite, FS_CardinalityType DEF PoolInv
<1>8. CASE pool = checker.handle
  <2>1. Loose' \subseteq Loose
    BY <1>1, <1>3, <1>8 DEF Loose, NoHandle
  <2>2. Cardinality(Loose') <= Cardinality(Loose)
    BY <1>7, <2>1, NoMore
  <2>3. QED BY <1>1, <1>5, <1>6, <1>7, <2>2 DEF PoolInv, DropsPaid
<1>9. CASE pool # checker.handle
  <2>1. Loose' \subseteq Loose \cup {pool}
    BY <1>1, <1>3 DEF Loose
  <2>2. Cardinality(Loose') <= Cardinality(Loose) + 1
    BY <1>7, <2>1, OneMore
  <2>3. AboutToDrop
    BY <1>1, <1>9 DEF AboutToDrop
  <2>4. QED BY <1>1, <1>5, <1>6, <1>7, <2>2, <2>3 DEF PoolInv, DropsPaid
<1>10. QED BY <1>8, <1>9
(* The handle that was looked at is closed; it has left the pool before.   *)
LEMMA CloseStep ==
    ASSUME PoolInv, Close
    PROVE  PoolInv'
<1> USE HandlesIn
<1> DEFINE h == checker.handle
           new == [handles[h] EXCEPT !.open = FALSE, !.idle = <<>>]
<1>1. /\ checker.pc \in {"close", "closeStale"} /\ checker \in Checkers
      /\ h \in 1 .. Len(handles) /\ h # pool /\ h # NoHandle
      /\ handles' = ClosedHandle(h)
      /\ UNCHANGED <<pool, get, failures, incidents>>
  BY DEF Close, PoolInv, PoolTypeOK, NoHandle
<1>2. incidents' \in 0 .. MaxIncidents
  BY <1>1, SpendIncident
<1>3. new \in Handles /\ ~new.open
  <2>1. <<>> \in Seq(Sessions)
    BY EmptySeq
  <2>2. QED BY <1>1, <2>1 DEF Handles
<1>4. handles' = [handles EXCEPT ![h] = new]
  BY <1>1 DEF ClosedHandle
<1> HIDE DEF new
<1>5. /\ handles' \in Seq(Handles) /\ Len(handles') = Len(handles)
      /\ \A j \in 1 .. Len(handles) : handles'[j] = IF j = h THEN new ELSE handles[j]
  BY <1>1, <1>3, <1>4, ExceptSeq
<1>6. DOMAIN handles' = 1 .. Len(handles)
  BY <1>5, LenProperties
<1>7. /\ checker' \in Checkers
      /\ \/ checker'.pc = "cleanup" /\ checker'.handle = h
         \/ checker'.pc = "idle" /\ checker'.handle = NoHandle
  <2>1. CASE checker.pc = "close"
    <3>1. checker' = [checker EXCEPT !.pc = "cleanup"]
      BY <2>1 DEF Close
    <3>2. QED BY <1>1, <3>1 DEF Checkers
  <2>2. CASE checker.pc = "closeStale"
    <3>1. checker' = Idle
      BY <2>2 DEF Close
    <3>2. <<>> \in Seq(Sessions)
      BY EmptySeq
    <3>3. QED BY <3>1, <3>2 DEF Checkers, Idle, NoHandle
  <2>3. QED BY <1>1, <2>1, <2>2
<1>8. /\ pool' \in {NoHandle} \cup {j \in DOMAIN handles' : handles'[j].open}
      /\ checker'.handle \in 0 .. Len(handles)
      /\ checker'.pc = "idle" <=> checker'.handle = NoHandle
      /\ checker'.pc \notin {"ping", "close", "closeStale"}
  BY <1>1, <1>5, <1>6, <1>7 DEF NoHandle
<1>9. PoolTypeOK'
  BY <1>1, <1>2, <1>5, <1>7, <1>8 DEF PoolInv, PoolTypeOK
<1>10. Loose' \subseteq Loose
  BY <1>1, <1>3, <1>5, <1>6 DEF Loose
<1>11. ~AboutToDrop'
  BY <1>1, <1>3, <1>5, <1>7 DEF AboutToDrop
<1>12. /\ Cardinality(Loose') <= Cardinality(Loose) /\ Cardinality(Loose) \in Nat
       /\ Cardinality(Loose') \in Nat
  BY <1>10, LooseFinite, NoMore, FS_Subset, FS_CardinalityType DEF PoolInv
<1>13. QED BY <1>1, <1>9, <1>11, <1>12 DEF PoolInv, DropsPaid

(* The checker goes on to a stale handle, or is done: it drops the handle  *)
(* that it has looked at.                                                  *)
LEMMA CleanupStep ==
    ASSUME PoolInv, cleanupStaleConnections
    PROVE  PoolInv'
<1> USE HandlesIn
<1>1. /\ checker.pc = "cleanup" /\ checker.handle \in 1 .. Len(handles)
      /\ UNCHANGED <<pool, handles, get, failures, incidents>>
  BY DEF cleanupStaleConnections
<1>2. incidents' \in 0 .. MaxIncidents
  BY <1>1, SpendIncident
<1>3. SameOpen
  BY <1>1 DEF SameOpen
<1>4. <<>> \in Seq(Sessions)
  BY EmptySeq
<1>5. /\ checker' \in Checkers
      /\ \/ checker'.pc = "removeStale" /\ checker'.handle = pool /\ pool # NoHandle
         \/ checker'.pc = "idle" /\ checker'.handle = NoHandle
  <2>1. CASE pool # NoHandle /\ handles[pool].stale
    <3>1. checker' = [pc |-> "removeStale", handle |-> pool, taken |-> <<>>]
      BY <2>1 DEF cleanupStaleConnections
    <3>2. QED BY <1>4, <2>1, <3>1 DEF Checkers
  <2>2. CASE ~(pool # NoHandle /\ handles[pool].stale)
    <3>1. checker' = Idle
      BY <2>2 DEF cleanupStaleConnections
    <3>2. QED BY <1>4, <3>1 DEF Checkers, Idle, NoHandle
  <2>3. QED BY <2>1, <2>2
<1>6. /\ checker'.handle \in 0 .. Len(handles)
      /\ checker'.pc = "idle" <=> checker'.handle = NoHandle
      /\ checker'.pc \notin {"ping", "close", "closeStale"}
  BY <1>5 DEF NoHandle
<1>7. PoolTypeOK' /\ DOMAIN handles' = 1 .. Len(handles)
  BY <1>1, <1>2, <1>3, <1>5, <1>6, CheckerStepOpen
<1>8. ~AboutToDrop'
  BY <1>1, <1>5 DEF AboutToDrop
<1>9. /\ IsFiniteSet(Loose) /\ Cardinality(Loose) \in Nat
  BY LooseFinite DEF PoolInv
<1>10. IsFiniteSet(Loose') /\ Cardinality(Loose') \in Nat
  <2>1. Loose' \subseteq Loose \cup {checker.handle}
    BY <1>1, <1>7 DEF Loose
  <2>2. IsFiniteSet(Loose \cup {checker.handle})
    BY <1>9, FS_AddElement
  <2>3. IsFiniteSet(Loose')
    BY <2>1, <2>2, FS_Subset
  <2>4. QED BY <2>3, FS_CardinalityType
<1>11. CASE pool # checker.handle /\ handles[checker.handle].open
  <2>1. Loose' \subseteq Loose \cup {checker.handle}
    BY <1>1, <1>7 DEF Loose
  <2>2. Cardinality(Loose') <= Cardinality(Loose) + 1
    BY <1>9, <2>1, OneMore
  <2>3. AboutToDrop
    BY <1>1, <1>11 DEF AboutToDrop
  <2>4. QED BY <1>1, <1>7, <1>8, <1>9, <1>10, <2>2, <2>3 DEF PoolInv, DropsPaid
<1>12. CASE ~(pool # checker.handle /\ handles[checker.handle].open)
  <2>1. Loose' \subseteq Loose
    BY <1>1, <1>7, <1>12 DEF Loose
  <2>2. Cardinality(Loose') <= Cardinality(Loose)
    BY <1>9, <2>1, NoMore
  <2>3. QED BY <1>1, <1>7, <1>8, <1>9, <1>10, <2>2 DEF PoolInv, DropsPaid
<1>13. QED BY <1>11, <1>12

(* At the start nothing is lost.                                           *)
LEMMA PoolInitially == PoolInit => PoolInv
<1> SUFFICES ASSUME PoolInit PROVE PoolInv
  OBVIOUS
<1>1. PICK db \in Sessions :
         handles \in {<<>>, <<[open |-> TRUE, stale |-> TRUE, idle |-> <<db>>]>>}
  BY PoolAssumption DEF PoolInit
<1> DEFINE first == [open |-> TRUE, stale |-> TRUE, idle |-> <<db>>]
<1>2. first \in Handles /\ first.open
  <2>1. <<db>> \in Seq(Sessions)
    OBVIOUS
  <2>2. QED BY <2>1, Zenon DEF Handles
<1> HIDE DEF first
<1>3. <<>> \in Seq(Sessions) /\ <<>> \in Seq(Handles)
  BY EmptySeq
<1>4. /\ pool = Len(handles) /\ get = NoCall /\ checker = Idle
      /\ failures = 0 /\ incidents = MaxIncidents /\ MaxIncidents \in 0 .. MaxIncidents
  BY PoolAssumption DEF PoolInit
<1>5. /\ get \in Calls /\ get.pc = "none" /\ get.handle = 0
      /\ checker \in Checkers /\ checker.pc = "idle" /\ checker.handle = 0
  BY <1>3, <1>4 DEF Calls, NoCall, Checkers, Idle, NoHandle
<1>6. /\ handles \in Seq(Handles) /\ Len(handles) \in Nat /\ DOMAIN handles = 1 .. Len(handles)
      /\ \/ Len(handles) = 0
         \/ Len(handles) = 1 /\ handles[1].open
  <2>1. CASE handles = <<>>
    BY <1>3, <2>1
  <2>2. CASE handles = <<first>>
    BY <1>2, <2>2
  <2>3. QED BY <1>1, <2>1, <2>2 DEF first
<1>7. PoolTypeOK
  BY <1>4, <1>5, <1>6 DEF PoolTypeOK, NoHandle
<1>8. Loose = {}
  BY <1>4, <1>6 DEF Loose
<1>9. ~AboutToDrop
  BY <1>5 DEF AboutToDrop
<1>10. Cardinality(Loose) = 0
  BY <1>8, FS_EmptySet
<1>11. QED BY <1>4, <1>7, <1>9, <1>10 DEF PoolInv, DropsPaid
-----------------------------------------------------------------------------
(* The reconcile: its requests change idle connections only, and when it   *)
(* is over it gives its handle up.                                         *)

(* The program counter between two reconciles.                             *)
LEMMA NoWorkerPc == NoWorker.pc = "idle"
BY DEF NoWorker

(* A statement on the handle that Get returned leaves the pool, the        *)
(* checker and the open handles alone.                                     *)
LEMMA RequestStep ==
    ASSUME PoolInv, get.pc = "have", UNCHANGED <<pool, checker, failures>>,
           \/ \E db \in Sessions : Answer(db)
           \/ Error
           \/ UNCHANGED <<handles, incidents>>,
           get' \in {get, NoCall}
    PROVE  PoolInv'
<1> USE HandlesIn
<1>1. SameOpen
  <2>1. CASE \E db \in Sessions : Answer(db)
    BY <2>1, AnsweredOpen DEF Answer, H
  <2>2. CASE handles' = handles
    BY <2>2 DEF SameOpen
  <2>3. QED BY <2>1, <2>2 DEF Error
<1>2. incidents' \in 0 .. MaxIncidents
  BY SpendIncident DEF Answer, Error, Fails
<1>3. /\ get' \in Calls /\ get'.handle \in 0 .. Len(handles)
      /\ get'.pc \in {"ping", "have"} => get'.handle # NoHandle
      /\ get'.pc # "open"
  <2>1. CASE get' = get
    BY <2>1 DEF PoolInv, PoolTypeOK
  <2>2. CASE get' = NoCall
    BY <2>2 DEF NoCall, Calls, NoHandle
  <2>3. QED BY <2>1, <2>2
<1>4. QED BY <1>1, <1>2, <1>3, QuietStep

(* The session that a request is sent in.                                  *)
LEMMA SessionTypes ==
    ASSUME PoolInv, get.pc = "have"
    PROVE  /\ Session \in Sessions
           /\ \A d : CanSwitch(d) => d \in Sessions
BY HandlesIn, IdleTypes, SessionsAssumption DEF Session, H, CanSwitch

(* What is kept of a reconcile when fields other than original change.     *)
LEMMA WorkerGoesOn ==
    ASSUME WorkerTypeOK, Working, get' = get,
           DOMAIN worker' = DOMAIN worker,
           worker'.pc \in {"schemas", "fetch", "execute", "apply"} => worker'.original \in Sessions
    PROVE  WorkerTypeOK'
BY DEF WorkerTypeOK, Working

(* A reconcile that is over gives up its handle.                           *)
LEMMA WorkerReturns ==
    ASSUME Return
    PROVE  WorkerTypeOK' /\ get' = NoCall
BY NoWorkerPc DEF Return, WorkerTypeOK, Working

(* Going on to the execution keeps the database to go back to.             *)
LEMMA CollectedKeeps ==
    ASSUME NEW w, DOMAIN w = WorkerFields
    PROVE  DOMAIN Collected(w) = WorkerFields /\ Collected(w).original = w.original
BY DEF Collected, WorkerFields

(* A reconcile begins with the handle that Get returned.                   *)
LEMMA BeginStep ==
    ASSUME PoolInv, WorkerTypeOK, Begin
    PROVE  PoolInv' /\ WorkerTypeOK'
<1>1. UNCHANGED <<pool, handles, get, checker, failures, incidents>> /\ get.pc = "have"
  BY DEF Begin, poolVars
<1>2. PoolInv'
  BY <1>1, RequestStep
<1>3. DOMAIN worker' = WorkerFields /\ worker'.pc = "snapshot"
  BY DEF Begin, WorkerFields
<1>4. QED BY <1>1, <1>2, <1>3 DEF WorkerTypeOK, Working

(* FetchUserPrivilegeSnapshot, answered or not.                            *)
LEMMA FetchSnapshotStep ==
    ASSUME PoolInv, WorkerTypeOK, FetchSnapshot
    PROVE  PoolInv' /\ WorkerTypeOK'
<1>1. /\ Working /\ DOMAIN worker = WorkerFields /\ get.pc = "have"
      /\ UNCHANGED <<pool, checker, failures>>
  BY NoWorkerPc DEF FetchSnapshot, Working, WorkerTypeOK, Rest
<1>2. CASE /\ Answer(Session) /\ UNCHANGED get
           /\ worker' = [worker EXCEPT !.pc = "current",
                                       !.snapshot = [d \in Databases |-> acl[<<"database", d>>]]]
  <2>1. DOMAIN worker' = WorkerFields /\ worker'.pc = "current"
    BY <1>1, <1>2 DEF WorkerFields
  <2>2. QED BY <1>1, <1>2, <2>1, RequestStep, SessionTypes, WorkerGoesOn
<1>3. CASE Error /\ Return
  BY <1>1, <1>3, RequestStep, WorkerReturns
<1>4. QED BY <1>2, <1>3 DEF FetchSnapshot

(* getCurrentDatabase: the original database is that of the session or the *)
(* default.                                                                *)
LEMMA getCurrentDatabaseStep ==
    ASSUME PoolInv, WorkerTypeOK, getCurrentDatabase
    PROVE  PoolInv' /\ WorkerTypeOK'
<1>1. /\ Working /\ DOMAIN worker = WorkerFields /\ get.pc = "have"
      /\ UNCHANGED <<pool, checker, failures, get>>
  BY NoWorkerPc DEF getCurrentDatabase, Working, WorkerTypeOK, Rest
<1>2. PICK known \in BOOLEAN :
          LET db == IF known THEN Session ELSE DefaultDatabase IN
          /\ IF known THEN Answer(Session) ELSE Error
          /\ worker' = [worker EXCEPT
                !.pc = "schemas", !.current = db, !.original = db, !.lost = @ \/ ~known,
                !.todo = Databases \cup {e[2] : e \in DOMAIN worker.spec},
                !.stmts = AddStatements(@, db, DatabaseStatements(worker.spec, worker.snapshot))]
  BY DEF getCurrentDatabase
<1>3. DOMAIN worker' = WorkerFields /\ worker'.original \in {Session, DefaultDatabase}
  BY <1>1, <1>2 DEF WorkerFields
<1>4. Session \in Sessions /\ DefaultDatabase \in Sessions
  BY <1>1, SessionTypes, PoolAssumption DEF DefaultDatabase
<1>5. (\E db \in Sessions : Answer(db)) \/ Error
  BY <1>2, <1>4
<1>6. QED BY <1>1, <1>3, <1>4, <1>5, RequestStep, WorkerGoesOn
(* SET DATABASE while the schemas are collected.                           *)
LEMMA SwitchForSchemasStep ==
    ASSUME PoolInv, WorkerTypeOK, SwitchForSchemas
    PROVE  PoolInv' /\ WorkerTypeOK'
<1>1. /\ Working /\ DOMAIN worker = WorkerFields /\ get.pc = "have"
      /\ UNCHANGED <<pool, checker, failures, get>> /\ worker.original \in Sessions
  BY NoWorkerPc DEF SwitchForSchemas, Working, WorkerTypeOK, Rest
<1>2. PICK d \in worker.todo :
         \/ /\ CanSwitch(d) /\ Answer(d)
            /\ worker' = [worker EXCEPT !.current = d, !.pc = "fetch"]
         \/ /\ IF CanSwitch(d) THEN Error ELSE Answer(Session)
            /\ worker' = Collected(Skipped(d))
  BY DEF SwitchForSchemas
<1>3. (\E db \in Sessions : Answer(db)) \/ Error
  BY <1>1, <1>2, SessionTypes
<1>4. DOMAIN worker' = WorkerFields /\ worker'.original = worker.original
  <2>1. CASE worker' = [worker EXCEPT !.current = d, !.pc = "fetch"]
    BY <1>1, <2>1 DEF WorkerFields
  <2>2. CASE worker' = Collected(Skipped(d))
    <3>1. DOMAIN Skipped(d) = WorkerFields /\ Skipped(d).original = worker.original
      BY <1>1 DEF Skipped, WorkerFields
    <3>2. QED BY <2>2, <3>1, CollectedKeeps
  <2>3. QED BY <1>2, <2>1, <2>2
<1>5. QED BY <1>1, <1>3, <1>4, RequestStep, WorkerGoesOn

(* FetchSchemaPrivileges, or the end of the reconcile.                     *)
LEMMA FetchSchemasStep ==
    ASSUME PoolInv, WorkerTypeOK, FetchSchemas
    PROVE  PoolInv' /\ WorkerTypeOK'
<1>1. /\ Working /\ DOMAIN worker = WorkerFields /\ get.pc = "have"
      /\ UNCHANGED <<pool, checker, failures>> /\ worker.original \in Sessions
  BY NoWorkerPc DEF FetchSchemas, Working, WorkerTypeOK, Rest
<1> DEFINE d == worker.current
           w == [worker EXCEPT
                    !.pc = "schemas", !.todo = @ \ {d},
                    !.stmts = AddStatements(@, d, SchemaStatements(worker.spec, d, Session))]
<1>2. CASE Answer(Session) /\ worker' = Collected(w) /\ UNCHANGED get
  <2>1. DOMAIN w = WorkerFields /\ w.original = worker.original
    BY <1>1 DEF WorkerFields
  <2>2. DOMAIN worker' = WorkerFields /\ worker'.original = worker.original
    BY <1>2, <2>1, CollectedKeeps
  <2>3. QED BY <1>1, <1>2, <2>2, RequestStep, SessionTypes, WorkerGoesOn
<1>3. CASE Error /\ Return
  BY <1>1, <1>3, RequestStep, WorkerReturns
<1>4. QED BY <1>2, <1>3 DEF FetchSchemas

(* SET DATABASE while the statements are executed.                         *)
LEMMA SwitchForExecutionStep ==
    ASSUME PoolInv, WorkerTypeOK, SwitchForExecution
    PROVE  PoolInv' /\ WorkerTypeOK'
<1>1. /\ Working /\ DOMAIN worker = WorkerFields /\ get.pc = "have"
      /\ UNCHANGED <<pool, checker, failures, get>> /\ worker.original \in Sessions
  BY NoWorkerPc DEF SwitchForExecution, Working, WorkerTypeOK, Rest
<1>2. PICK d \in worker.todo :
         \/ /\ CanSwitch(d) /\ Answer(d)
            /\ worker' = [worker EXCEPT !.current = d, !.pc = "apply"]
         \/ /\ IF CanSwitch(d) THEN Error ELSE Answer(Session)
            /\ worker' = GivenUp(d)
  BY DEF SwitchForExecution
<1>3. (\E db \in Sessions : Answer(db)) \/ Error
  BY <1>1, <1>2, SessionTypes
<1>4. DOMAIN worker' = WorkerFields /\ worker'.original = worker.original
  BY <1>1, <1>2 DEF WorkerFields, GivenUp
<1>5. QED BY <1>1, <1>3, <1>4, RequestStep, WorkerGoesOn

(* One GRANT or REVOKE, executed or not.                                   *)
LEMMA ExecuteStatementStep ==
    ASSUME PoolInv, WorkerTypeOK, ExecuteStatement
    PROVE  PoolInv' /\ WorkerTypeOK'
<1>1. /\ Working /\ DOMAIN worker = WorkerFields /\ get.pc = "have"
      /\ UNCHANGED <<pool, checker, failures, get>> /\ worker.original \in Sessions
  BY NoWorkerPc DEF ExecuteStatement, Working, WorkerTypeOK, Rest
<1> DEFINE d == worker.current
           Ended(left, failed) ==
               worker' = [worker EXCEPT !.stmts[d] = left, !.failed = @ \/ failed,
                                        !.pc = IF left = {} THEN "execute" ELSE "apply",
                                        !.todo = IF left = {} THEN @ \ {d} ELSE @]
<1>2. Answer(Session) \/ Error
  BY DEF ExecuteStatement
<1>3. PICK stmt \in Ready(worker.stmts[d]) :
         \/ Ended(worker.stmts[d] \ {stmt}, stmt.op = "grant" /\ ~Found(stmt, Session))
         \/ Ended(worker.stmts[d] \ {stmt}, TRUE)
  BY DEF ExecuteStatement
<1>4. DOMAIN worker' = WorkerFields /\ worker'.original = worker.original
  BY <1>1, <1>3 DEF WorkerFields
<1>5. QED BY <1>1, <1>2, <1>4, RequestStep, SessionTypes, WorkerGoesOn

(* SET DATABASE to the original one.                                       *)
LEMMA SwitchBackStep ==
    ASSUME PoolInv, WorkerTypeOK, SwitchBack
    PROVE  PoolInv' /\ WorkerTypeOK'
<1>1. /\ Working /\ DOMAIN worker = WorkerFields /\ get.pc = "have"
      /\ UNCHANGED <<pool, checker, failures, get>> /\ worker.original \in Sessions
  BY NoWorkerPc DEF SwitchBack, Working, WorkerTypeOK, Rest
<1>2. \/ \E db \in Sessions : Answer(db)
      \/ Error
      \/ UNCHANGED <<handles, incidents>>
  BY <1>1 DEF SwitchBack
<1>3. DOMAIN worker' = WorkerFields /\ worker'.original = worker.original
  BY <1>1 DEF SwitchBack, Goto, WorkerFields
<1>4. QED BY <1>1, <1>2, <1>3, RequestStep, WorkerGoesOn

(* Every step of a reconcile keeps the pool in order.                      *)
LEMMA SyncStep ==
    ASSUME PoolInv, WorkerTypeOK, Sync
    PROVE  PoolInv' /\ WorkerTypeOK'
<1>1. CASE End
  <2>1. /\ get.pc = "have" /\ UNCHANGED <<pool, checker, failures, handles, incidents>> /\ Return
    BY <1>1, NoWorkerPc DEF End, Working, WorkerTypeOK, Rest
  <2>2. QED BY <2>1, RequestStep, WorkerReturns
<1>2. QED BY <1>1, BeginStep, FetchSnapshotStep, getCurrentDatabaseStep, SwitchForSchemasStep,
             FetchSchemasStep, SwitchForExecutionStep, ExecuteStatementStep, SwitchBackStep
      DEF Sync

-----------------------------------------------------------------------------
(* The steps of the pool leave the reconcile alone; only Get, which is     *)
(* over when there is a reconcile, changes the call.                       *)
LEMMA PoolGetStep ==
    ASSUME PoolInv, WorkerTypeOK, PoolGet
    PROVE  PoolInv' /\ WorkerTypeOK'
<1>1. PoolInv'
  BY GetStep, PingStep, OpenStep, OpenFailsStep DEF PoolGet
<1>2. get.pc # "have" /\ UNCHANGED worker
  BY DEF PoolGet, Get, Ping, Open, OpenFails, NoCall, syncVars
<1>3. QED BY <1>1, <1>2 DEF WorkerTypeOK, Working

(* The checker and time, with or without a reconcile in flight.            *)
LEMMA PoolRestStep ==
    ASSUME PoolInv, WorkerTypeOK, PoolRest
    PROVE  PoolInv' /\ WorkerTypeOK'
<1>1. PoolInv'
  BY HealthCheckStep, CheckPingStep, RemoveStep, CloseStep, CleanupStep, AgeStep
     DEF PoolRest, Checker
<1>2. UNCHANGED get
  BY DEF PoolRest, Checker, HealthCheck, CheckPing, Remove, Close, cleanupStaleConnections, Age
<1>3. CASE worker' = worker
  BY <1>1, <1>2, <1>3 DEF WorkerTypeOK, Working
<1>4. CASE Working /\ worker' = [worker EXCEPT !.lost = TRUE]
  <2>1. DOMAIN worker = WorkerFields
    BY <1>4 DEF WorkerTypeOK
  <2>2. /\ DOMAIN worker' = DOMAIN worker /\ worker'.original = worker.original
        /\ worker'.pc = worker.pc
    BY <1>4, <2>1 DEF WorkerFields
  <2>3. QED BY <1>1, <1>2, <1>4, <2>2, WorkerGoesOn DEF WorkerTypeOK
<1>5. QED BY <1>3, <1>4 DEF PoolRest

(* Edits of the grants and of the privileges do not touch the pool.        *)
LEMMA OthersStep ==
    ASSUME PoolInv, WorkerTypeOK, EditGrants \/ OutsideChange
    PROVE  PoolInv' /\ WorkerTypeOK'
<1>1. UNCHANGED <<pool, handles, get, checker, failures>> /\ incidents' \in 0 .. MaxIncidents
  BY SpendIncident DEF EditGrants, OutsideChange
<1>2. SameOpen
  BY <1>1, HandlesIn DEF SameOpen
<1>3. PoolInv'
  BY <1>1, <1>2, QuietStep DEF PoolInv, PoolTypeOK
<1>4. CASE worker' = worker
  BY <1>1, <1>3, <1>4 DEF WorkerTypeOK, Working
<1>5. CASE Working /\ worker' = [worker EXCEPT !.touched = TRUE]
  <2>1. DOMAIN worker = WorkerFields
    BY <1>5 DEF WorkerTypeOK
  <2>2. /\ DOMAIN worker' = DOMAIN worker /\ worker'.original = worker.original
        /\ worker'.pc = worker.pc
    BY <1>5, <2>1 DEF WorkerFields
  <2>3. QED BY <1>1, <1>3, <1>5, <2>2, WorkerGoesOn DEF WorkerTypeOK
<1>6. QED BY <1>4, <1>5 DEF EditGrants, OutsideChange

(* PoolInv is inductive together with the type of the reconcile.           *)
LEMMA PoolStep == PoolInv /\ WorkerTypeOK /\ [Next]_vars => PoolInv' /\ WorkerTypeOK'
<1> SUFFICES ASSUME PoolInv, WorkerTypeOK, [Next]_vars PROVE PoolInv' /\ WorkerTypeOK'
  OBVIOUS
<1>1. CASE UNCHANGED vars
  BY <1>1 DEF vars, poolVars, syncVars, PoolInv, PoolTypeOK, DropsPaid, Loose, AboutToDrop,
              WorkerTypeOK, Working
<1>2. QED BY <1>1, PoolGetStep, PoolRestStep, SyncStep, OthersStep DEF Next

(* For any databases, grants and privileges and any number of incidents:   *)
(* the pool has open handles only, the checker never closes a handle that  *)
(* is in the pool, and each open handle that is lost, or is about to be,   *)
(* is paid for by a ping that has failed.                                  *)
THEOREM PoolInvariant == Spec => [](PoolTypeOK /\ DropsPaid)
<1>1. Init => PoolInv /\ WorkerTypeOK
  <2>1. Init => worker = NoWorker /\ PoolInv
    BY PoolInitially DEF Init
  <2>2. worker = NoWorker => WorkerTypeOK
    BY NoWorkerPc DEF WorkerTypeOK, Working
  <2>3. QED BY <2>1, <2>2
<1>2. QED BY <1>1, PoolStep, PTL DEF Spec, PoolInv

(* For any databases, grants and privileges and any number of incidents:   *)
(* no more handles leak than pings have failed, however the health checker *)
(* and Get interleave.                                                     *)
THEOREM LeaksAreBounded == Spec => []LeaksBounded
<1>1. PoolTypeOK /\ DropsPaid => LeaksBounded
  <2> SUFFICES ASSUME PoolTypeOK, DropsPaid PROVE LeaksBounded
    OBVIOUS
  <2>1. Leaked \subseteq Loose
    BY DEF Leaked, Loose
  <2>2. IsFiniteSet(Loose) /\ Cardinality(Loose) \in Nat
    BY LooseFinite
  <2>3. Cardinality(Leaked) <= Cardinality(Loose) /\ Cardinality(Leaked) \in Nat
    BY <2>1, <2>2, FS_Subset, FS_CardinalityType
  <2>4. QED BY <2>2, <2>3 DEF DropsPaid, LeaksBounded, PoolTypeOK
<1>2. QED BY <1>1, PoolInvariant, PTL

-----------------------------------------------------------------------------
(* What a statement is about.                                              *)

(* The three shapes of an entry, told apart by its kind.                   *)
LEMMA EntryShape ==
    ASSUME NEW e, Entry(e)
    PROVE  \/ e = <<"database", e[2]>> /\ Kind(e) = "database" /\ Len(e) = 2
           \/ e = <<"schema", e[2], e[3]>> /\ Kind(e) = "schema" /\ Len(e) = 3
           \/ /\ e = <<e[1], e[2], e[3], e[4]>> /\ Kind(e) = e[1] /\ Len(e) = 4
              /\ Kind(e) \notin {"database", "schema", "all"}
<1>1. CASE e = <<"database", e[2]>>
  BY <1>1 DEF Kind
<1>2. CASE e = <<"schema", e[2], e[3]>>
  BY <1>2 DEF Kind
<1>3. CASE e = <<e[1], e[2], e[3], e[4]>> /\ e[1] \notin {"database", "schema", "all"}
  <2>1. Len(e) = 4
    BY <1>3
  <2>2. QED BY <1>3, <2>1 DEF Kind
<1>4. QED BY <1>1, <1>2, <1>3 DEF Entry

(* Which entries are objects, and which of them can be reached.            *)
LEMMA EntryKinds ==
    ASSUME NEW e, Entry(e)
    PROVE  /\ Len(e) = 4 <=> Kind(e) \notin {"database", "schema"}
           /\ Kind(e) = "database" => e = <<"database", e[2]>>
           /\ Kind(e) = "schema" => e = <<"schema", e[2], e[3]>>
           /\ Kind(e) \notin {"database", "schema"} => e = <<Kind(e), e[2], e[3], e[4]>>
           /\ Reachable(e) => \/ Kind(e) \in {"database", "schema"}
                              \/ Kind(e) \in Managed /\ e[3] = SearchPath
           /\ Kind(e) # "all"
<1>1. CASE e = <<"database", e[2]>> /\ Kind(e) = "database" /\ Len(e) = 2
  BY <1>1
<1>2. CASE e = <<"schema", e[2], e[3]>> /\ Kind(e) = "schema" /\ Len(e) = 3
  BY <1>2
<1>3. CASE /\ e = <<e[1], e[2], e[3], e[4]>> /\ Kind(e) = e[1] /\ Len(e) = 4
           /\ Kind(e) \notin {"database", "schema", "all"}
  BY <1>3 DEF Reachable
<1>4. QED BY <1>1, <1>2, <1>3, EntryShape

(* The parts of an entry.                                                  *)
LEMMA Parts ==
    ASSUME NEW k, NEW d, NEW s, NEW n
    PROVE  /\ Kind(<<"database", d>>) = "database" /\ <<"database", d>>[2] = d
           /\ Kind(<<"schema", d, s>>) = "schema" /\ <<"schema", d, s>>[2] = d
           /\ <<"schema", d, s>>[3] = s
           /\ Kind(<<k, d, s, n>>) = k /\ <<k, d, s, n>>[2] = d
           /\ <<k, d, s, n>>[3] = s /\ <<k, d, s, n>>[4] = n /\ Len(<<k, d, s, n>>) = 4
BY DEF Kind

(* What the four forms of a statement are about.                           *)
LEMMA HitsForms ==
    ASSUME NEW x, NEW k, NEW db
    PROVE  /\ Hits(<<"database", x>>, db) = {<<"database", x>>}
           /\ Hits(<<"schema", x>>, db) = {<<"schema", db, x>>}
           /\ Hits(<<"all", k, x>>, db) =
                 {e \in Catalogue : Len(e) = 4 /\ e[1] = k /\ e[2] = db /\ e[3] = x}
           /\ k \in Managed => Hits(<<k, x>>, db) = {<<k, db, SearchPath, x>>}
<1>1. Hits(<<"database", x>>, db) = {<<"database", x>>}
  BY DEF Hits
<1>2. Hits(<<"schema", x>>, db) = {<<"schema", db, x>>}
  BY DEF Hits
<1>3. Hits(<<"all", k, x>>, db) =
                 {e \in Catalogue : Len(e) = 4 /\ e[1] = k /\ e[2] = db /\ e[3] = x}
  BY DEF Hits
<1>4. ASSUME k \in Managed PROVE Hits(<<k, x>>, db) = {<<k, db, SearchPath, x>>}
  BY <1>4 DEF Hits, Managed
<1>5. QED BY <1>1, <1>2, <1>3, <1>4

(* What the assumptions say of an entry of the catalogue.                  *)
LEMMA CatalogueEntry ==
    ASSUME NEW e \in Catalogue
    PROVE  /\ Entry(e) /\ e[2] \in Sessions /\ e[2] \in Databases
           /\ All \notin PrivilegesOf(Kind(e))
           /\ Kind(e) \notin {"database", "schema"} => e[4] # Wildcard
BY EntryKinds, CatalogueAssumption, SessionsAssumption

(* Every database has its entry in the catalogue.                          *)
LEMMA DatabaseEntries ==
    ASSUME NEW d \in Databases
    PROVE  <<"database", d>> \in Catalogue
<1>1. PICK e \in Catalogue : e[1] = "database" /\ e[2] = d
  BY DEF Databases
<1>2. e = <<"database", d>>
  BY <1>1, CatalogueEntry, EntryKinds DEF Kind
<1>3. QED BY <1>1, <1>2

(* And of an entry of the grants.                                          *)
LEMMA GrantEntry ==
    ASSUME NEW g \in Grants, NEW e \in DOMAIN g
    PROVE  /\ Entry(e) /\ g[e] \subseteq PrivilegesOf(Kind(e)) \cup {All}
           /\ Kind(e) \notin {"database", "schema"} => <<"schema", e[2], e[3]>> \in DOMAIN g
BY EntryKinds, GrantsAssumption

(* The privileges that ALL stands for.                                     *)
LEMMA ExpandSubset ==
    ASSUME NEW e, NEW A, NEW B, A \subseteq B, B \subseteq PrivilegesOf(Kind(e)) \cup {All}
    PROVE  /\ Expand(e, A) \subseteq Expand(e, B)
           /\ Expand(e, A) \subseteq PrivilegesOf(Kind(e))
           /\ Expand(e, {}) = {}
BY DEF Expand

(* The statements of a Diff.                                               *)
LEMMA DiffForms ==
    ASSUME NEW on, NEW actual, NEW desired, NEW s \in Diff(on, actual, desired)
    PROVE  /\ s.on = on /\ s.privs # {}
           /\ \/ s.op = "grant" /\ s.privs = desired \ actual
              \/ s.op = "revoke" /\ s.privs = actual \ desired
BY DEF Diff, Stmt

(* What is missing is granted, by one statement of the Diff.               *)
LEMMA DiffGrants ==
    ASSUME NEW on, NEW actual, NEW desired, desired \ actual # {}
    PROVE  \E s \in Diff(on, actual, desired) :
              s.on = on /\ s.op = "grant" /\ s.privs = desired \ actual
<1> DEFINE s == Stmt("grant", on, desired \ actual)
<1>1. s.on = on /\ s.op = "grant" /\ s.privs = desired \ actual
  BY DEF Stmt
<1>2. s \in Diff(on, actual, desired)
  BY <1>1 DEF Diff
<1>3. QED BY <1>1, <1>2

(* The parts of a statement.                                               *)
LEMMA StmtFields ==
    ASSUME NEW op, NEW on, NEW privs
    PROVE  /\ Stmt(op, on, privs).op = op /\ Stmt(op, on, privs).on = on
           /\ Stmt(op, on, privs).privs = privs
BY DEF Stmt

-----------------------------------------------------------------------------
(* Where the statements on schemas and on objects come from.               *)

ACLTypeOK ==
    DOMAIN acl = Catalogue /\ \A e \in Catalogue : acl[e] \subseteq PrivilegesOf(Kind(e))

\* the statement s is about the entry that is e in the grants and actual in
\* the database; on is how it is written
FromGrant(g, s, e, on, actual) == e \in DOMAIN g /\ s \in Diff(on, actual, g[e])

FromSchema(g, d, db, s, x) ==
    \/ FromGrant(g, s, <<"schema", d, x>>, <<"schema", x>>, ActualOf(<<"schema", db, x>>))
    \/ <<"schema", d, x>> \notin DOMAIN g /\ s = Stmt("revoke", <<"schema", x>>, {All})

FromObject(g, d, db, s, k, x, n) ==
    \/ FromGrant(g, s, <<k, d, x, n>>, On(k, x, n), ActualOf(<<k, db, x, n>>))
    \/ FromGrant(g, s, <<k, d, x, n>>, On(k, x, n), {})
    \/ /\ <<k, d, x, n>> \notin DOMAIN g /\ <<k, db, x, n>> \in Catalogue
       /\ s = Stmt("revoke", <<k, n>>, {All})

(* A statement on an object comes from a grant on it, or takes everything  *)
(* from an object that no grant names.                                     *)
LEMMA ObjectForms ==
    ASSUME ACLTypeOK, NEW g \in Grants, NEW d, NEW db, NEW x, NEW k \in Managed,
           NEW s \in reconcileObjectPrivileges(g, d, db, x, k)
    PROVE  \E n : FromObject(g, d, db, s, k, x, n)
<1> DEFINE actual == {e[4] : e \in {y \in DOMAIN acl : /\ Len(y) = 4
                                                        /\ y[1] = k /\ y[2] = db /\ y[3] = x
                                                        /\ acl[y] # {}}}
           desired == {e[4] : e \in {y \in DOMAIN g : /\ Len(y) = 4
                                                      /\ y[1] = k /\ y[2] = d /\ y[3] = x}}
<1>0. k \notin {"database", "schema"}
  BY DEF Managed
<1>1. ASSUME NEW n \in actual PROVE <<k, db, x, n>> \in Catalogue
  <2>1. PICK e \in Catalogue : e[1] = k /\ e[2] = db /\ e[3] = x /\ e[4] = n
    BY <1>1 DEF ACLTypeOK
  <2>2. e = <<k, db, x, n>>
    BY <1>0, <2>1, CatalogueEntry, EntryKinds DEF Kind
  <2>3. QED BY <2>1, <2>2
<1>2. ASSUME NEW n PROVE n \in desired <=> <<k, d, x, n>> \in DOMAIN g
  <2>1. ASSUME n \in desired PROVE <<k, d, x, n>> \in DOMAIN g
    <3>1. PICK e \in DOMAIN g : e[1] = k /\ e[2] = d /\ e[3] = x /\ e[4] = n
      BY <2>1
    <3>2. e = <<k, d, x, n>>
      BY <1>0, <3>1, GrantEntry, EntryKinds DEF Kind
    <3>3. QED BY <3>1, <3>2
  <2>2. ASSUME <<k, d, x, n>> \in DOMAIN g PROVE n \in desired
    <3>1. /\ <<k, d, x, n>>[1] = k /\ <<k, d, x, n>>[2] = d
          /\ <<k, d, x, n>>[3] = x /\ <<k, d, x, n>>[4] = n /\ Len(<<k, d, x, n>>) = 4
      BY Parts DEF Kind
    <3>2. QED BY <2>2, <3>1
  <2>3. QED BY <2>1, <2>2
<1>3. PICK n \in actual \cup desired :
         s \in IF n \in desired
               THEN Diff(On(k, x, n), ActualOf(<<k, db, x, n>>), g[<<k, d, x, n>>])
               ELSE {Stmt("revoke", <<k, n>>, {All})}
  BY DEF reconcileObjectPrivileges
<1> HIDE DEF actual, desired
<1>4. CASE n \in desired
  BY <1>2, <1>3, <1>4 DEF FromObject, FromGrant
<1>5. CASE n \notin desired
  BY <1>1, <1>2, <1>3, <1>5 DEF FromObject
<1>6. QED BY <1>4, <1>5

(* A statement for a schema is about the schema itself, or about an object *)
(* in it.                                                                  *)
LEMMA SchemaForms ==
    ASSUME ACLTypeOK, NEW g \in Grants, NEW d, NEW db, NEW s \in SchemaStatements(g, d, db)
    PROVE  \/ \E x : FromSchema(g, d, db, s, x)
           \/ \E k \in Managed : \E x, n : FromObject(g, d, db, s, k, x, n)
<1> DEFINE actual == {e[3] : e \in {y \in DOMAIN acl : /\ Kind(y) = "schema"
                                                       /\ y[2] = db /\ acl[y] # {}}}
           desired == {e[3] : e \in {y \in DOMAIN g : Kind(y) = "schema" /\ y[2] = d}}
           Fetched(x) == UNION {reconcileObjectPrivileges(g, d, db, x, k) : k \in Managed}
           Unseen(x) == UNION {Diff(On(e[1], x, e[4]), {}, g[e]) :
                                  e \in {y \in DOMAIN g : /\ Kind(y) \in Managed
                                                          /\ y[2] = d /\ y[3] = x}}
           Schema(x) == IF x \in desired
                        THEN Diff(<<"schema", x>>, ActualOf(<<"schema", db, x>>), g[<<"schema", d, x>>])
                        ELSE {Stmt("revoke", <<"schema", x>>, {All})}
<1>1. ASSUME NEW x PROVE x \in desired <=> <<"schema", d, x>> \in DOMAIN g
  <2>1. ASSUME x \in desired PROVE <<"schema", d, x>> \in DOMAIN g
    <3>1. PICK e \in DOMAIN g : Kind(e) = "schema" /\ e[2] = d /\ e[3] = x
      BY <2>1
    <3>2. e = <<"schema", d, x>>
      BY <3>1, GrantEntry, EntryKinds
    <3>3. QED BY <3>1, <3>2
  <2>2. ASSUME <<"schema", d, x>> \in DOMAIN g PROVE x \in desired
    <3>1. /\ Kind(<<"schema", d, x>>) = "schema" /\ <<"schema", d, x>>[2] = d
          /\ <<"schema", d, x>>[3] = x
      BY Parts
    <3>2. QED BY <2>2, <3>1
  <2>3. QED BY <2>1, <2>2
<1>2. PICK x : s \in (IF x \in actual THEN Fetched(x) ELSE Unseen(x)) \/ s \in Schema(x)
  BY DEF SchemaStatements
<1>3. CASE s \in Schema(x)
  <2> HIDE DEF desired
  <2>1. FromSchema(g, d, db, s, x)
    BY <1>1, <1>3 DEF FromSchema, FromGrant
  <2>2. QED BY <2>1
<1>4. CASE s \in Fetched(x)
  <2>1. PICK k \in Managed : s \in reconcileObjectPrivileges(g, d, db, x, k)
    BY <1>4
  <2>2. QED BY <2>1, ObjectForms
<1>5. CASE s \in Unseen(x)
  <2>1. PICK e \in DOMAIN g : /\ Kind(e) \in Managed /\ e[2] = d /\ e[3] = x
                              /\ s \in Diff(On(e[1], x, e[4]), {}, g[e])
    BY <1>5
  <2>2. Kind(e) \notin {"database", "schema"}
    BY <2>1 DEF Managed
  <2>3. e = <<Kind(e), d, x, e[4]>> /\ e[1] = Kind(e)
    BY <2>1, <2>2, GrantEntry, EntryKinds DEF Kind
  <2>4. FromObject(g, d, db, s, Kind(e), x, e[4])
    BY <2>1, <2>3 DEF FromObject, FromGrant
  <2>5. QED BY <2>1, <2>4
<1>6. QED BY <1>2, <1>3, <1>4, <1>5

-----------------------------------------------------------------------------
(* A statement that a Diff against a grant has produced, about an entry    *)
(* that is granted: what it gives is asked for, what it takes is not.      *)
LEMMA GrantIsRight ==
    ASSUME NEW g \in Grants, NEW e \in DOMAIN g, NEW on, NEW actual, All \notin actual,
           NEW s, FromGrant(g, s, e, on, actual)
    PROVE  /\ s.op \in {"grant", "revoke"} /\ s.on = on
           /\ s.op = "grant" => /\ s.privs \subseteq g[e]
                                /\ Expand(e, s.privs) \subseteq Asked(g, e)
           /\ s.op = "revoke" => /\ Expand(e, s.privs) \cap Named(g, e) = {}
                                 /\ actual # {}
<1>1. /\ s.on = on /\ s.privs # {}
      /\ \/ s.op = "grant" /\ s.privs = g[e] \ actual
         \/ s.op = "revoke" /\ s.privs = actual \ g[e]
  BY DiffForms DEF FromGrant
<1>2. g[e] \subseteq PrivilegesOf(Kind(e)) \cup {All}
  BY GrantEntry
<1>3. Named(g, e) = g[e]
  BY DEF Named
<1>4. CASE s.op = "grant" /\ s.privs = g[e] \ actual
  <2>1. s.privs \subseteq g[e]
    BY <1>4
  <2>2. Expand(e, s.privs) \subseteq Expand(e, Named(g, e))
    BY <1>2, <1>3, <2>1, ExpandSubset
  <2>3. QED BY <1>1, <1>4, <2>1, <2>2 DEF Asked
<1>5. CASE s.op = "revoke" /\ s.privs = actual \ g[e]
  <2>1. Expand(e, s.privs) = actual \ g[e]
    BY <1>5 DEF Expand
  <2>2. QED BY <1>1, <1>3, <1>5, <2>1
<1>6. QED BY <1>1, <1>4, <1>5

(* A statement that comes from a grant names what the grant names.         *)
LEMMA GrantOn ==
    ASSUME NEW g, NEW s, NEW e, NEW on, NEW actual, FromGrant(g, s, e, on, actual)
    PROVE  s.on = on /\ e \in DOMAIN g
BY DiffForms DEF FromGrant

(* No privilege of the catalogue is called ALL.                            *)
LEMMA ActualHasNoAll ==
    ASSUME ACLTypeOK, NEW e
    PROVE  /\ All \notin ActualOf(e)
           /\ e \notin Catalogue => ActualOf(e) = {}
BY CatalogueEntry DEF ACLTypeOK, ActualOf

(* How an object is written.                                               *)
LEMMA OnForms ==
    ASSUME NEW k, NEW x, NEW n
    PROVE  /\ n = Wildcard => On(k, x, n) = <<"all", k, x>>
           /\ n # Wildcard => On(k, x, n) = <<k, n>>
BY DEF On

(* A statement on a schema or on the objects of a kind hits entries of     *)
(* that kind, in whatever database it is executed.                         *)
LEMMA HitKinds ==
    ASSUME NEW s, NEW db, NEW e \in Hit(s, db)
    PROVE  /\ e \in Catalogue
           /\ \A x : s.on = <<"database", x>> => e = <<"database", x>> /\ Kind(e) = "database"
           /\ \A x : s.on = <<"schema", x>> => e = <<"schema", db, x>> /\ Kind(e) = "schema"
           /\ \A k \in Managed : \A n :
                 s.on = <<k, n>> => e = <<k, db, SearchPath, n>> /\ Kind(e) = k
           /\ \A k \in Managed : \A x :
                 s.on = <<"all", k, x>> => e = <<k, db, x, e[4]>> /\ Kind(e) = k
<1>1. e \in Catalogue /\ e \in Hits(s.on, db)
  BY DEF Hit
<1>2. ASSUME NEW x, s.on = <<"database", x>>
      PROVE  e = <<"database", x>> /\ Kind(e) = "database"
  <2>1. Hits(<<"database", x>>, db) = {<<"database", x>>}
    BY HitsForms
  <2>2. Hits(s.on, db) = Hits(<<"database", x>>, db)
    BY <1>2, Zenon
  <2>3. e = <<"database", x>>
    BY <1>1, <2>1, <2>2, Zenon
  <2>4. QED BY <2>3 DEF Kind
<1>3. ASSUME NEW x, s.on = <<"schema", x>>
      PROVE  e = <<"schema", db, x>> /\ Kind(e) = "schema"
  <2>1. Hits(<<"schema", x>>, db) = {<<"schema", db, x>>}
    BY HitsForms
  <2>2. Hits(s.on, db) = Hits(<<"schema", x>>, db)
    BY <1>3, Zenon
  <2>3. e = <<"schema", db, x>>
    BY <1>1, <2>1, <2>2, Zenon
  <2>4. QED BY <2>3 DEF Kind
<1>4. ASSUME NEW k \in Managed, NEW n, s.on = <<k, n>>
      PROVE  e = <<k, db, SearchPath, n>> /\ Kind(e) = k
  <2>1. Hits(<<k, n>>, db) = {<<k, db, SearchPath, n>>}
    BY HitsForms
  <2>2. Hits(s.on, db) = Hits(<<k, n>>, db)
    BY <1>4, Zenon
  <2>3. e = <<k, db, SearchPath, n>>
    BY <1>1, <2>1, <2>2, Zenon
  <2>4. QED BY <2>3 DEF Kind
<1>5. ASSUME NEW k \in Managed, NEW x, s.on = <<"all", k, x>>
      PROVE  e = <<k, db, x, e[4]>> /\ Kind(e) = k
  <2>0. Hits(<<"all", k, x>>, db) =
           {y \in Catalogue : Len(y) = 4 /\ y[1] = k /\ y[2] = db /\ y[3] = x}
    BY DEF Hits
  <2>3. Hits(s.on, db) = Hits(<<"all", k, x>>, db)
    BY <1>5, Zenon
  <2>5. e \in {y \in Catalogue : Len(y) = 4 /\ y[1] = k /\ y[2] = db /\ y[3] = x}
    BY <1>1, <2>0, <2>3, Zenon
  <2>1. e[1] = k /\ e[2] = db /\ e[3] = x
    BY <2>5
  <2>2. Kind(e) = k /\ k \notin {"database", "schema"}
    BY <2>1 DEF Kind, Managed
  <2>4. QED BY <1>1, <2>1, <2>2, CatalogueEntry, EntryKinds
<1>6. QED BY <1>1, <1>2, <1>3, <1>4, <1>5

(* Every statement of a grant gives privileges that there are.             *)
LEMMA GrantIsTyped ==
    ASSUME NEW g \in Grants, NEW y \in DOMAIN g, NEW on, NEW actual, All \notin actual,
           NEW s, FromGrant(g, s, y, on, actual),
           \A db \in Sessions : \A e \in Hit(s, db) : Kind(e) = Kind(y)
    PROVE  Typed(s)
<1>1. /\ s.op \in {"grant", "revoke"}
      /\ s.op = "grant" => s.privs \subseteq g[y]
  BY GrantIsRight
<1>2. g[y] \subseteq PrivilegesOf(Kind(y)) \cup {All}
  BY GrantEntry
<1>3. ASSUME s.op = "grant", NEW db \in Sessions, NEW e \in Hit(s, db)
      PROVE  Expand(e, s.privs) \subseteq PrivilegesOf(Kind(e))
  <2>1. Kind(e) = Kind(y)
    BY <1>3
  <2>2. QED BY <1>1, <1>2, <1>3, <2>1, ExpandSubset
<1>4. QED BY <1>1, <1>3 DEF Typed

(* A statement that takes is typed.                                        *)
LEMMA RevokeIsTyped ==
    ASSUME NEW on
    PROVE  Typed(Stmt("revoke", on, {All}))
BY StmtFields DEF Typed

(* The statements on schemas and objects give what there is, wherever they *)
(* are executed.                                                           *)
LEMMA SchemaStatementsTyped ==
    ASSUME ACLTypeOK, NEW g \in Grants, NEW d, NEW db, NEW s \in SchemaStatements(g, d, db)
    PROVE  Typed(s)
<1>1. ASSUME NEW x, FromSchema(g, d, db, s, x)
      PROVE  Typed(s)
  <2> DEFINE y == <<"schema", d, x>>
             a == ActualOf(<<"schema", db, x>>)
  <2>1. CASE FromGrant(g, s, y, <<"schema", x>>, a)
    <3>1. y \in DOMAIN g /\ Kind(y) = "schema" /\ All \notin a
      BY <2>1, Parts, ActualHasNoAll DEF FromGrant
    <3> HIDE DEF y, a
    <3>2. s.on = <<"schema", x>>
      BY <2>1, GrantOn, Zenon
    <3>3. \A c \in Sessions : \A e \in Hit(s, c) : Kind(e) = Kind(y)
      BY <3>1, <3>2, HitKinds
    <3>4. QED BY <2>1, <3>1, <3>3, GrantIsTyped
  <2>2. CASE s = Stmt("revoke", <<"schema", x>>, {All})
    BY <2>2, RevokeIsTyped
  <2>3. QED BY <1>1, <2>1, <2>2 DEF FromSchema
<1>2. ASSUME NEW k \in Managed, NEW x, NEW n, FromObject(g, d, db, s, k, x, n)
      PROVE  Typed(s)
  <2> DEFINE y == <<k, d, x, n>>
             on == On(k, x, n)
  <2>1. ASSUME NEW a, All \notin a, FromGrant(g, s, y, on, a)
        PROVE  Typed(s)
    <3>1. y \in DOMAIN g /\ Kind(y) = k
      <4>1. y \in DOMAIN g
        BY <2>1 DEF FromGrant
      <4>2. QED BY <4>1 DEF Kind
    <3> HIDE DEF y, on
    <3>2. s.on = on
      BY <2>1, GrantOn, Zenon
    <3>3. s.on = <<"all", k, x>> \/ s.on = <<k, n>>
      BY <3>2, OnForms, Zenon DEF on
    <3>4. \A c \in Sessions : \A e \in Hit(s, c) : Kind(e) = Kind(y)
      BY <3>1, <3>3, HitKinds
    <3>5. QED BY <2>1, <3>1, <3>4, GrantIsTyped
  <2>2. CASE s = Stmt("revoke", <<k, n>>, {All})
    BY <2>2, RevokeIsTyped
  <2>3. All \notin ActualOf(<<k, db, x, n>>) /\ All \notin {}
    BY ActualHasNoAll
  <2> HIDE DEF y, on
  <2>4. QED BY <1>2, <2>1, <2>2, <2>3 DEF FromObject, y, on
<1>3. QED BY <1>1, <1>2, SchemaForms

-----------------------------------------------------------------------------
(* In the database that they were collected for, the statements on schemas *)
(* and objects are right and stay within it.                               *)

StaysIn(s, d) == \A e \in Hit(s, d) : e[2] = d /\ Kind(e) # "database"

(* A statement on a schema is right in the database it was computed for,   *)
(* and stays in it.                                                        *)
LEMMA SchemaIsRight ==
    ASSUME ACLTypeOK, NEW g \in Grants, NEW d, NEW s, NEW x, FromSchema(g, d, d, s, x)
    PROVE  Right(g, s, d) /\ StaysIn(s, d)
<1> DEFINE y == <<"schema", d, x>>
           on == <<"schema", x>>
           a == ActualOf(y)
<1>1. FromGrant(g, s, y, on, a) \/ (y \notin DOMAIN g /\ s = Stmt("revoke", on, {All}))
  BY DEF FromSchema
<1>2. y[2] = d /\ Kind(y) = "schema"
  BY DEF Kind
<1>3. All \notin a
  BY ActualHasNoAll
<1>5. ASSUME s.on = on PROVE \A e \in Hit(s, d) : e = y
  BY <1>5, HitKinds
<1> HIDE DEF y, a, on
<1>4. s.on = on
  BY <1>1, GrantOn, StmtFields
<1>6. StaysIn(s, d)
  BY <1>2, <1>4, <1>5 DEF StaysIn
<1>7. CASE FromGrant(g, s, y, on, a)
  <2>1. y \in DOMAIN g
    BY <1>7, GrantOn
  <2>2. /\ s.op = "grant" => Expand(y, s.privs) \subseteq Asked(g, y)
        /\ s.op = "revoke" => Expand(y, s.privs) \cap Named(g, y) = {}
    BY <1>3, <1>7, <2>1, GrantIsRight
  <2>3. QED BY <1>4, <1>5, <1>6, <2>2 DEF Right
<1>8. CASE y \notin DOMAIN g /\ s = Stmt("revoke", on, {All})
  <2>1. s.op = "revoke" /\ Named(g, y) = {}
    BY <1>8, StmtFields DEF Named
  <2>2. QED BY <1>4, <1>5, <1>6, <2>1 DEF Right
<1>9. QED BY <1>1, <1>7, <1>8

(* An object that is written without its schema is the one that is meant.  *)
LEMMA NameMeans ==
    ASSUME Unambiguous, NEW g \in Grants, NEW k \in Managed, NEW d, NEW x, NEW n,
           <<k, d, x, n>> \in Catalogue \cup DOMAIN g, <<k, d, SearchPath, n>> \in Catalogue
    PROVE  x = SearchPath
<1> DEFINE y == <<k, d, x, n>>
<1>1. y \in Catalogue \cup UNION {DOMAIN f : f \in Grants}
  OBVIOUS
<1>2. Len(y) = 4 /\ y[1] = k /\ y[2] = d /\ y[3] = x /\ y[4] = n
  BY Parts DEF Kind
<1> HIDE DEF y
<1>3. y[3] # SearchPath => <<y[1], y[2], SearchPath, y[4]>> \notin Catalogue
  BY <1>1, <1>2 DEF Unambiguous
<1>4. QED BY <1>2, <1>3, Zenon

(* A statement on an object that is written by name.                       *)
LEMMA NamedObjectIsRight ==
    ASSUME ACLTypeOK, Unambiguous, NEW g \in Grants, NEW d, NEW s, NEW k \in Managed, NEW x, NEW n,
           FromObject(g, d, d, s, k, x, n), s.on = <<k, n>>, n # Wildcard
    PROVE  Right(g, s, d) /\ StaysIn(s, d)
<1> DEFINE y == <<k, d, x, n>>
           e == <<k, d, SearchPath, n>>
           on == On(k, x, n)
           name == <<k, n>>
<1>1. \A c \in Hit(s, d) : c = e /\ e \in Catalogue
  BY HitKinds
<1>2. e[2] = d /\ Kind(e) = k /\ k # "database"
  BY DEF Kind, Managed
<1>3. e \in Catalogue /\ y \in Catalogue \cup DOMAIN g => y = e
  BY NameMeans
<1>4. \/ \E a \in {ActualOf(y), {}} : FromGrant(g, s, y, on, a)
      \/ y \notin DOMAIN g /\ y \in Catalogue /\ s = Stmt("revoke", name, {All})
  BY DEF FromObject
<1> HIDE DEF y, e, on, name
<1>5. StaysIn(s, d)
  BY <1>1, <1>2 DEF StaysIn
<1>6. CASE e \notin Catalogue
  BY <1>1, <1>5, <1>6 DEF Right
<1>7. ASSUME e \in Catalogue, NEW a \in {ActualOf(y), {}}, FromGrant(g, s, y, on, a)
      PROVE  Right(g, s, d)
  <2>1. y \in DOMAIN g
    BY <1>7, GrantOn
  <2>2. y = e
    BY <1>3, <1>7, <2>1
  <2>3. All \notin a
    BY <1>7, ActualHasNoAll
  <2>4. /\ s.op = "grant" => Expand(y, s.privs) \subseteq Asked(g, y)
        /\ s.op = "revoke" => Expand(y, s.privs) \cap Named(g, y) = {}
    BY <1>7, <2>1, <2>3, GrantIsRight
  <2>5. QED BY <1>1, <2>2, <2>4 DEF Right
<1>8. CASE e \in Catalogue /\ y \notin DOMAIN g /\ y \in Catalogue /\ s = Stmt("revoke", name, {All})
  <2>1. y = e
    BY <1>3, <1>8
  <2>2. s.op = "revoke" /\ Named(g, e) = {}
    BY <1>8, <2>1, StmtFields DEF Named
  <2>3. ASSUME NEW c \in Hit(s, d)
        PROVE  /\ s.op = "grant" => Expand(c, s.privs) \subseteq Asked(g, c)
               /\ s.op = "revoke" => Expand(c, s.privs) \cap Named(g, c) = {}
    <3>1. c = e
      BY <1>1, <2>3
    <3>2. QED BY <2>2, <3>1
  <2>4. QED BY <1>5, <2>3 DEF Right
<1>9. QED BY <1>4, <1>5, <1>6, <1>7, <1>8

(* What a wildcard asks for on an object.                                  *)
LEMMA WildcardAsks ==
    ASSUME NEW g, NEW e, Len(e) = 4, NEW w \in DOMAIN g, w = <<e[1], e[2], e[3], Wildcard>>
    PROVE  Expand(e, g[w]) \subseteq Asked(g, e)
BY DEF Asked

(* A statement on all objects of a kind in a schema.                       *)
LEMMA WildcardIsRight ==
    ASSUME ACLTypeOK, NEW g \in Grants, NEW d, NEW s, NEW k \in Managed, NEW x, NEW a,
           a \in {ActualOf(<<k, d, x, Wildcard>>), {}},
           FromGrant(g, s, <<k, d, x, Wildcard>>, <<"all", k, x>>, a)
    PROVE  Right(g, s, d) /\ StaysIn(s, d) /\ s.op = "grant" /\ s.privs = g[<<k, d, x, Wildcard>>]
<1> DEFINE y == <<k, d, x, Wildcard>>
           on == <<"all", k, x>>
<1>0. Kind(y) = k /\ k \notin {"database", "schema"} /\ y[4] = Wildcard
  BY DEF Kind, Managed
<1>1. ASSUME s.on = on, NEW e \in Hit(s, d)
      PROVE  /\ e \in Catalogue /\ e[2] = d /\ Kind(e) = k /\ Len(e) = 4
             /\ y = <<e[1], e[2], e[3], Wildcard>>
  <2>1. e = <<k, d, x, e[4]>> /\ Kind(e) = k /\ e \in Catalogue
    BY <1>1, HitKinds
  <2>2. e[1] = k /\ e[2] = d /\ e[3] = x
    BY <2>1
  <2>3. Len(e) = 4
    BY <1>0, <2>1, CatalogueEntry, EntryKinds
  <2>4. QED BY <2>1, <2>2, <2>3
<1>2. a \in {ActualOf(y), {}} /\ FromGrant(g, s, y, on, a)
  OBVIOUS
<1> HIDE DEF y, on
<1>3. y \notin Catalogue
  BY <1>0, CatalogueEntry
<1>4. a = {}
  BY <1>2, <1>3, ActualHasNoAll
<1>5. s.on = on /\ y \in DOMAIN g
  BY <1>2, GrantOn
<1>6. s.op = "grant" /\ s.privs = g[y]
  <2>1. s \in Diff(on, a, g[y])
    BY <1>2 DEF FromGrant
  <2>2. /\ s.privs # {}
        /\ \/ s.op = "grant" /\ s.privs = g[y] \ a
           \/ s.op = "revoke" /\ s.privs = a \ g[y]
    BY <2>1, DiffForms
  <2>3. g[y] \ a = g[y] /\ a \ g[y] = {}
    BY <1>4
  <2>4. QED BY <2>2, <2>3
<1>7. StaysIn(s, d)
  BY <1>0, <1>1, <1>5 DEF StaysIn
<1>8. Right(g, s, d)
  BY <1>1, <1>5, <1>6, WildcardAsks DEF Right
<1>9. QED BY <1>6, <1>7, <1>8 DEF y

(* So are all statements on the objects of a schema.                       *)
LEMMA ObjectIsRight ==
    ASSUME ACLTypeOK, Unambiguous, NEW g \in Grants, NEW d, NEW s, NEW k \in Managed, NEW x, NEW n,
           FromObject(g, d, d, s, k, x, n)
    PROVE  Right(g, s, d) /\ StaysIn(s, d)
<1>1. CASE n # Wildcard
  <2>1. s.on = <<k, n>>
    BY <1>1, GrantOn, StmtFields, OnForms DEF FromObject
  <2>2. QED BY <1>1, <2>1, NamedObjectIsRight
<1>2. CASE n = Wildcard
  <2>1. <<k, d, x, Wildcard>> \notin Catalogue
    <3> DEFINE y == <<k, d, x, Wildcard>>
    <3>1. Kind(y) = k /\ k \notin {"database", "schema"} /\ y[4] = Wildcard
      BY DEF Kind, Managed
    <3> HIDE DEF y
    <3>2. y \notin Catalogue
      BY <3>1, CatalogueEntry
    <3>3. QED BY <3>2 DEF y
  <2>2. \E a \in {ActualOf(<<k, d, x, Wildcard>>), {}} :
           FromGrant(g, s, <<k, d, x, Wildcard>>, On(k, x, Wildcard), a)
    BY <1>2, <2>1 DEF FromObject
  <2>3. On(k, x, Wildcard) = <<"all", k, x>>
    BY OnForms
  <2>4. QED BY <2>2, <2>3, WildcardIsRight
<1>3. QED BY <1>1, <1>2

(* So are all the statements on schemas and objects, whose privileges were *)
(* fetched in the database they are for.                                   *)
LEMMA SchemaStatementsRight ==
    ASSUME ACLTypeOK, Unambiguous, NEW g \in Grants, NEW d, NEW s \in SchemaStatements(g, d, d)
    PROVE  Right(g, s, d) /\ StaysIn(s, d)
BY SchemaForms, SchemaIsRight, ObjectIsRight

-----------------------------------------------------------------------------
(* Nothing is forgotten: every grant is compared with what there is.       *)

(* A grant on an object is compared with the privileges on it.             *)
LEMMA ObjectCompared ==
    ASSUME NEW g \in Grants, NEW d, NEW db, NEW x, NEW k \in Managed, NEW n,
           <<k, d, x, n>> \in DOMAIN g
    PROVE  Diff(On(k, x, n), ActualOf(<<k, db, x, n>>), g[<<k, d, x, n>>])
              \subseteq reconcileObjectPrivileges(g, d, db, x, k)
<1> DEFINE actual == {e[4] : e \in {y \in DOMAIN acl : /\ Len(y) = 4
                                                        /\ y[1] = k /\ y[2] = db /\ y[3] = x
                                                        /\ acl[y] # {}}}
           desired == {e[4] : e \in {y \in DOMAIN g : /\ Len(y) = 4
                                                      /\ y[1] = k /\ y[2] = d /\ y[3] = x}}
           Of(m) == IF m \in desired
                    THEN Diff(On(k, x, m), ActualOf(<<k, db, x, m>>), g[<<k, d, x, m>>])
                    ELSE {Stmt("revoke", <<k, m>>, {All})}
<1>1. n \in desired
  <2> DEFINE y == <<k, d, x, n>>
  <2>1. y \in DOMAIN g /\ Len(y) = 4 /\ y[1] = k /\ y[2] = d /\ y[3] = x /\ y[4] = n
    BY Parts DEF Kind
  <2> HIDE DEF y
  <2>2. QED BY <2>1
<1>2. reconcileObjectPrivileges(g, d, db, x, k) = UNION {Of(m) : m \in actual \cup desired}
  BY DEF reconcileObjectPrivileges
<1> HIDE DEF actual, desired
<1>3. Of(n) = Diff(On(k, x, n), ActualOf(<<k, db, x, n>>), g[<<k, d, x, n>>])
  BY <1>1
<1> HIDE DEF Of
<1>4. Of(n) \subseteq UNION {Of(m) : m \in actual \cup desired}
  BY <1>1
<1>5. QED BY <1>2, <1>3, <1>4, Zenon

(* A grant on a schema is compared with the privileges on it, and the      *)
(* grants in it with those on their objects or with none.                  *)
LEMMA SchemaCompared ==
    ASSUME NEW g \in Grants, NEW d, NEW x, <<"schema", d, x>> \in DOMAIN g
    PROVE  /\ Diff(<<"schema", x>>, ActualOf(<<"schema", d, x>>), g[<<"schema", d, x>>])
                 \subseteq SchemaStatements(g, d, d)
           /\ \A k \in Managed : \A n :
                 <<k, d, x, n>> \in DOMAIN g =>
                     \E a \in {ActualOf(<<k, d, x, n>>), {}} :
                        Diff(On(k, x, n), a, g[<<k, d, x, n>>]) \subseteq SchemaStatements(g, d, d)
<1> DEFINE actual == {e[3] : e \in {y \in DOMAIN acl : /\ Kind(y) = "schema"
                                                       /\ y[2] = d /\ acl[y] # {}}}
           desired == {e[3] : e \in {y \in DOMAIN g : Kind(y) = "schema" /\ y[2] = d}}
           Fetched(z) == UNION {reconcileObjectPrivileges(g, d, d, z, k) : k \in Managed}
           Of(z, e) == Diff(On(e[1], z, e[4]), {}, g[e])
           Unseen(z) == UNION {Of(z, e) : e \in {y \in DOMAIN g : /\ Kind(y) \in Managed
                                                                  /\ y[2] = d /\ y[3] = z}}
           Objects(z) == IF z \in actual THEN Fetched(z) ELSE Unseen(z)
           Schema(z) == IF z \in desired
                        THEN Diff(<<"schema", z>>, ActualOf(<<"schema", d, z>>), g[<<"schema", d, z>>])
                        ELSE {Stmt("revoke", <<"schema", z>>, {All})}
<1>1. x \in desired
  <2> DEFINE y == <<"schema", d, x>>
  <2>1. y \in DOMAIN g /\ Kind(y) = "schema" /\ y[2] = d /\ y[3] = x
    BY Parts
  <2> HIDE DEF y
  <2>2. QED BY <2>1
<1>2. SchemaStatements(g, d, d) = UNION {Objects(z) \cup Schema(z) : z \in actual \cup desired}
  BY DEF SchemaStatements
<1>3. Schema(x) = Diff(<<"schema", x>>, ActualOf(<<"schema", d, x>>), g[<<"schema", d, x>>])
  BY <1>1
<1>4. ASSUME NEW k \in Managed, NEW n, <<k, d, x, n>> \in DOMAIN g
      PROVE  \E a \in {ActualOf(<<k, d, x, n>>), {}} :
                Diff(On(k, x, n), a, g[<<k, d, x, n>>]) \subseteq Objects(x)
  <2> DEFINE y == <<k, d, x, n>>
  <2>1. CASE x \in actual
    <3>1. Diff(On(k, x, n), ActualOf(y), g[y]) \subseteq reconcileObjectPrivileges(g, d, d, x, k)
      BY <1>4, ObjectCompared
    <3>2. reconcileObjectPrivileges(g, d, d, x, k) \subseteq Fetched(x)
      OBVIOUS
    <3> HIDE DEF Fetched, actual
    <3>3. QED BY <2>1, <3>1, <3>2
  <2>2. CASE x \notin actual
    <3>1. y \in DOMAIN g /\ Kind(y) = k /\ y[1] = k /\ y[2] = d /\ y[3] = x /\ y[4] = n
      BY <1>4, Parts DEF Kind
    <3>2. Of(x, y) = Diff(On(k, x, n), {}, g[y])
      BY <3>1
    <3> HIDE DEF Of, y
    <3>3. Of(x, y) \subseteq Unseen(x)
      BY <3>1
    <3> HIDE DEF Unseen, actual
    <3>4. QED BY <2>2, <3>2, <3>3 DEF y
  <2>3. QED BY <2>1, <2>2
<1> HIDE DEF actual, desired, Objects, Schema
<1>5. Objects(x) \cup Schema(x) \subseteq SchemaStatements(g, d, d)
  BY <1>1, <1>2
<1>6. QED BY <1>3, <1>4, <1>5

(* A privilege that a statement is needed for is granted by one; one that  *)
(* is there is not taken.                                                  *)
LEMMA ComparedIsProvided ==
    ASSUME ACLTypeOK, NEW g \in Grants, NEW d, NEW stmts, \A s \in stmts : Right(g, s, d),
           NEW e \in Catalogue, e \in DOMAIN g, NEW on, e \in Hits(on, d),
           NEW a \in SUBSET acl[e], Diff(on, a, g[e]) \subseteq stmts,
           NEW p \in Expand(e, g[e])
    PROVE  \/ Changes(stmts, "grant", e, p, d)
           \/ p \in acl[e] /\ ~Changes(stmts, "revoke", e, p, d)
<1>1. All \notin a
  BY CatalogueEntry DEF ACLTypeOK
<1>2. CASE p \in Expand(e, g[e] \ a)
  <2>1. g[e] \ a # {}
    BY <1>2 DEF Expand
  <2>2. PICK s \in Diff(on, a, g[e]) : s.on = on /\ s.op = "grant" /\ s.privs = g[e] \ a
    BY <2>1, DiffGrants
  <2>3. s \in stmts /\ e \in Hit(s, d) /\ p \in Expand(e, s.privs)
    BY <1>2, <2>2 DEF Hit
  <2>4. QED BY <2>2, <2>3 DEF Changes
<1>3. CASE p \notin Expand(e, g[e] \ a)
  <2>1. All \notin g[e] /\ p \in g[e] /\ p \in a
    BY <1>1, <1>3 DEF Expand
  <2>2. p \in Named(g, e) /\ p \in acl[e]
    BY <2>1 DEF Named
  <2>3. ~Changes(stmts, "revoke", e, p, d)
    BY <2>2 DEF Changes, Right
  <2>4. QED BY <2>2, <2>3
<1>4. QED BY <1>2, <1>3

(* What is asked for, by name or with a wildcard.                          *)
LEMMA AskedForms ==
    ASSUME NEW g, NEW e, NEW p \in Asked(g, e)
    PROVE  \/ e \in DOMAIN g /\ p \in Expand(e, g[e])
           \/ /\ Len(e) = 4 /\ <<e[1], e[2], e[3], Wildcard>> \in DOMAIN g
              /\ p \in Expand(e, g[<<e[1], e[2], e[3], Wildcard>>])
BY DEF Asked, Named, Expand

(* The statements on schemas and objects provide for every entry of the    *)
(* database that can be reached.                                           *)
LEMMA SchemaStatementsProvide ==
    ASSUME ACLTypeOK, NEW g \in Grants, NEW d, NEW stmts,
           \A s \in stmts : Right(g, s, d), SchemaStatements(g, d, d) \subseteq stmts,
           NEW e \in Catalogue, Reachable(e), Kind(e) # "database", e[2] = d
    PROVE  Provided(g, stmts, e, d)
<1> DEFINE Done(p) == \/ Changes(stmts, "grant", e, p, d)
                      \/ p \in acl[e] /\ ~Changes(stmts, "revoke", e, p, d)
<1>1. Entry(e) /\ ActualOf(e) = acl[e]
  BY CatalogueEntry DEF ActualOf, ACLTypeOK
<1>2. ASSUME Kind(e) = "schema", NEW p \in Asked(g, e)
      PROVE  Done(p)
  <2> DEFINE x == e[3]
             on == <<"schema", x>>
  <2>1. e = <<"schema", d, x>> /\ Len(e) # 4
    BY <1>1, <1>2, EntryKinds
  <2>2. e \in DOMAIN g /\ p \in Expand(e, g[e])
    BY <1>2, <2>1, AskedForms
  <2>3. Diff(on, ActualOf(e), g[e]) \subseteq SchemaStatements(g, d, d)
    BY <2>1, <2>2, SchemaCompared
  <2>4. e \in Hits(on, d)
    BY <2>1 DEF Hits
  <2> HIDE DEF x, on
  <2>5. Diff(on, acl[e], g[e]) \subseteq stmts
    BY <1>1, <2>3
  <2>6. QED BY <2>2, <2>4, <2>5, ComparedIsProvided
<1>3. ASSUME Kind(e) # "schema", NEW p \in Asked(g, e)
      PROVE  Done(p)
  <2> DEFINE k == Kind(e)
             n == e[4]
             x == SearchPath
             schema == <<"schema", d, x>>
             w == <<k, d, x, Wildcard>>
  <2>1. /\ k \in Managed /\ e = <<k, d, x, n>> /\ n # Wildcard /\ k = e[1] /\ e[3] = x
        /\ k \notin {"database", "schema"}
    BY <1>1, <1>3, EntryKinds, CatalogueEntry DEF Kind
  <2>2. Kind(w) = k /\ w[2] = d /\ w[3] = x /\ w[4] = Wildcard
    BY DEF Kind
  <2>3. schema \in DOMAIN g /\ (e \in DOMAIN g \/ w \in DOMAIN g)
    <3>1. e \in DOMAIN g \/ w \in DOMAIN g
      BY <1>3, <2>1, AskedForms
    <3> HIDE DEF w
    <3>2. schema \in DOMAIN g
      <4>1. CASE e \in DOMAIN g
        BY <2>1, <4>1, GrantEntry
      <4>2. CASE w \in DOMAIN g
        BY <2>1, <2>2, <4>2, GrantEntry
      <4>3. QED BY <3>1, <4>1, <4>2
    <3>3. QED BY <3>1, <3>2
  <2>4. CASE e \in DOMAIN g /\ p \in Expand(e, g[e])
    <3> DEFINE on == On(k, x, n)
    <3>1. PICK a \in {ActualOf(e), {}} : Diff(on, a, g[e]) \subseteq SchemaStatements(g, d, d)
      BY <2>1, <2>3, <2>4, SchemaCompared
    <3>2. on = <<k, n>>
      BY <2>1, OnForms
    <3>3. Hits(<<k, n>>, d) = {e}
      <4>1. k \in Managed => Hits(<<k, n>>, d) = {<<k, d, SearchPath, n>>}
        BY HitsForms, Zenon
      <4>2. QED BY <2>1, <4>1, Zenon
    <3> HIDE DEF on, k, n
    <3>4. e \in Hits(on, d)
      BY <3>2, <3>3
    <3>5. a \in SUBSET acl[e] /\ Diff(on, a, g[e]) \subseteq stmts
      BY <1>1, <3>1
    <3>6. QED BY <2>4, <3>4, <3>5, ComparedIsProvided
  <2>5. CASE w \in DOMAIN g /\ p \in Expand(e, g[w])
    <3> DEFINE on == On(k, x, Wildcard)
    <3>1. PICK a \in {ActualOf(w), {}} : Diff(on, a, g[w]) \subseteq SchemaStatements(g, d, d)
      BY <2>1, <2>3, <2>5, SchemaCompared
    <3>2. e \in Hits(on, d)
      <4>1. on = <<"all", k, x>>
        BY OnForms
      <4>2. Hits(<<"all", k, x>>, d) =
               {y \in Catalogue : Len(y) = 4 /\ y[1] = k /\ y[2] = d /\ y[3] = x}
        BY DEF Hits
      <4>3. Len(e) = 4 /\ e[1] = k /\ e[2] = d /\ e[3] = x
        BY <1>1, <2>1, EntryKinds
      <4>4. QED BY <4>1, <4>2, <4>3
    <3> HIDE DEF w, on, k
    <3>3. w \notin Catalogue
      BY <2>1, <2>2, CatalogueEntry
    <3>4. a = {}
      BY <3>1, <3>3, ActualHasNoAll
    <3>5. g[w] \ a = g[w] /\ g[w] \ a # {}
      BY <2>5, <3>4 DEF Expand
    <3>6. PICK s \in Diff(on, a, g[w]) : s.on = on /\ s.op = "grant" /\ s.privs = g[w] \ a
      <4>1. g[w] \ a # {}
        BY <3>5
      <4>2. QED BY <4>1, DiffGrants
    <3>7. s \in stmts /\ e \in Hit(s, d) /\ p \in Expand(e, s.privs)
      BY <2>5, <3>1, <3>2, <3>5, <3>6 DEF Hit
    <3>8. QED BY <3>6, <3>7 DEF Changes
  <2>6. QED BY <1>3, <2>1, <2>4, <2>5, AskedForms
<1>4. QED BY <1>2, <1>3 DEF Provided

-----------------------------------------------------------------------------
(* The statements on databases.                                            *)

SnapshotOK(snapshot) ==
    /\ DOMAIN snapshot = Databases
    /\ \A d \in Databases : snapshot[d] \subseteq PrivilegesOf("database")

ActualIn(snapshot, x) == IF x \in DOMAIN snapshot THEN snapshot[x] ELSE {}

FromDatabase(g, snapshot, s, x) ==
    \/ FromGrant(g, s, <<"database", x>>, <<"database", x>>, ActualIn(snapshot, x))
    \/ <<"database", x>> \notin DOMAIN g /\ s = Stmt("revoke", <<"database", x>>, {All})

(* A statement on a database comes from a grant on it, or takes everything *)
(* from a database that no grant names.                                    *)
LEMMA DatabaseForms ==
    ASSUME NEW g, NEW snapshot, NEW s \in DatabaseStatements(g, snapshot)
    PROVE  \E x : FromDatabase(g, snapshot, s, x)
BY DEF DatabaseStatements, FromDatabase, FromGrant, ActualIn

(* A grant on a database is compared with the snapshot.                    *)
LEMMA DatabaseCompared ==
    ASSUME NEW g, NEW snapshot, NEW d \in Databases, <<"database", d>> \in DOMAIN g
    PROVE  Diff(<<"database", d>>, ActualIn(snapshot, d), g[<<"database", d>>])
              \subseteq DatabaseStatements(g, snapshot)
BY DEF DatabaseStatements, ActualIn

(* They are typed and right, in any database, and about databases only.    *)
LEMMA DatabaseStatementsRight ==
    ASSUME NEW g \in Grants, NEW snapshot, SnapshotOK(snapshot),
           NEW s \in DatabaseStatements(g, snapshot)
    PROVE  /\ Typed(s)
           /\ \A db : Right(g, s, db) /\ \A e \in Hit(s, db) : Kind(e) = "database"
<1>1. PICK x : FromDatabase(g, snapshot, s, x)
  BY DatabaseForms
<1> DEFINE y == <<"database", x>>
           a == ActualIn(snapshot, x)
<1>2. FromGrant(g, s, y, y, a) \/ (y \notin DOMAIN g /\ s = Stmt("revoke", y, {All}))
  BY <1>1 DEF FromDatabase
<1>3. Kind(y) = "database"
  BY DEF Kind
<1>4. All \notin a
  <2>1. CASE x \in Databases
    <3>1. All \notin PrivilegesOf("database")
      BY <1>3, <2>1, DatabaseEntries, CatalogueEntry
    <3>2. QED BY <2>1, <3>1 DEF SnapshotOK, ActualIn
  <2>2. CASE x \notin Databases
    BY <2>2 DEF SnapshotOK, ActualIn
  <2>3. QED BY <2>1, <2>2
<1>5. ASSUME NEW db, s.on = y PROVE \A e \in Hit(s, db) : e = y
  BY <1>5, HitKinds
<1> HIDE DEF y, a
<1>6. s.on = y
  BY <1>2, GrantOn, StmtFields
<1>7. CASE FromGrant(g, s, y, y, a)
  <2>1. y \in DOMAIN g
    BY <1>7, GrantOn
  <2>2. /\ s.op = "grant" => Expand(y, s.privs) \subseteq Asked(g, y)
        /\ s.op = "revoke" => Expand(y, s.privs) \cap Named(g, y) = {}
    BY <1>4, <1>7, <2>1, GrantIsRight
  <2>3. \A db : \A e \in Hit(s, db) : Kind(e) = Kind(y)
    BY <1>5, <1>6
  <2>4. Typed(s)
    BY <1>4, <1>7, <2>1, <2>3, GrantIsTyped
  <2>5. QED BY <1>3, <1>5, <1>6, <2>2, <2>4 DEF Right
<1>8. CASE y \notin DOMAIN g /\ s = Stmt("revoke", y, {All})
  <2>1. Named(g, y) = {}
    BY <1>8 DEF Named
  <2>3. s.op = "revoke" /\ Typed(s)
    BY <1>8, StmtFields, RevokeIsTyped
  <2>2. QED BY <1>3, <1>5, <1>6, <2>1, <2>3 DEF Right
<1>9. QED BY <1>2, <1>7, <1>8

(* The statements on databases provide for every database that the         *)
(* snapshot shows as it is.                                                *)
LEMMA DatabaseStatementsProvide ==
    ASSUME ACLTypeOK, NEW g \in Grants, NEW snapshot, DOMAIN snapshot = Databases,
           NEW db, NEW stmts, \A s \in stmts : Right(g, s, db),
           DatabaseStatements(g, snapshot) \subseteq stmts,
           NEW e \in Catalogue, Kind(e) = "database", snapshot[e[2]] = acl[e]
    PROVE  Provided(g, stmts, e, db)
<1> DEFINE d == e[2]
<1>1. e = <<"database", d>> /\ Len(e) # 4 /\ d \in Databases
  BY CatalogueEntry, EntryKinds
<1>2. ASSUME NEW p \in Asked(g, e)
      PROVE  \/ Changes(stmts, "grant", e, p, db)
             \/ p \in acl[e] /\ ~Changes(stmts, "revoke", e, p, db)
  <2>1. e \in DOMAIN g /\ p \in Expand(e, g[e])
    BY <1>1, <1>2, AskedForms
  <2>2. Diff(e, ActualIn(snapshot, d), g[e]) \subseteq DatabaseStatements(g, snapshot)
    BY <1>1, <2>1, DatabaseCompared
  <2>3. ActualIn(snapshot, d) = acl[e]
    BY <1>1 DEF ActualIn
  <2>4. e \in Hits(e, db)
    <3>1. Hits(<<"database", d>>, db) = {<<"database", d>>}
      BY HitsForms, Zenon
    <3>2. QED BY <1>1, <3>1, Zenon
  <2> HIDE DEF d
  <2>5. Diff(e, acl[e], g[e]) \subseteq stmts
    BY <2>2, <2>3
  <2>6. QED BY <2>1, <2>4, <2>5, ComparedIsProvided
<1>3. QED BY <1>2 DEF Provided

-----------------------------------------------------------------------------
(* A handle keeps no more connections than it may.                         *)

IdleBounded == \A h \in DOMAIN handles : Len(handles[h].idle) <= MaxIdleConns

(* The idle connections of one handle change.                              *)
LEMMA BoundSetIdle ==
    ASSUME PoolInv, IdleBounded, NEW h \in 1 .. Len(handles), NEW q,
           Len(q) <= MaxIdleConns, handles' = [handles EXCEPT ![h].idle = q]
    PROVE  /\ IdleBounded' /\ handles'[h].idle = q
           /\ \A j \in 1 .. Len(handles) : j # h => handles'[j] = handles[j]
<1>1. /\ handles \in Seq(Handles) /\ DOMAIN handles = 1 .. Len(handles)
      /\ \A j \in 1 .. Len(handles) : handles[j] \in Handles
  BY HandlesIn
<1>2. DOMAIN handles' = DOMAIN handles /\ handles'[h] = [handles[h] EXCEPT !.idle = q]
      /\ \A j \in 1 .. Len(handles) : j # h => handles'[j] = handles[j]
  BY <1>1
<1>3. handles'[h].idle = q
  BY <1>1, <1>2 DEF Handles
<1>4. QED BY <1>1, <1>2, <1>3 DEF IdleBounded

(* A connection is taken and given back.                                   *)
LEMMA GivenBackBound ==
    ASSUME PoolInv, IdleBounded, NEW h \in 1 .. Len(handles), NEW s \in Sessions
    PROVE  /\ Left(h) \in Seq(Sessions) /\ Len(Left(h)) < MaxIdleConns
           /\ GivenBack(Left(h), s) = Append(Left(h), s)
           /\ Len(GivenBack(Left(h), s)) <= MaxIdleConns
           /\ GivenBack(Left(h), s) # <<>>
           /\ GivenBack(Left(h), s)[Len(GivenBack(Left(h), s))] = s
<1> DEFINE q == handles[h].idle
           l == Left(h)
<1>1. q \in Seq(Sessions) /\ l \in Seq(Sessions) /\ MaxIdleConns \in Nat \ {0}
  BY HandlesIn, IdleTypes, PoolAssumption
<1>2. Len(q) \in Nat /\ Len(q) <= MaxIdleConns
  BY <1>1, HandlesIn, LenProperties DEF IdleBounded
<1>3. Len(l) = IF 1 <= Len(q) - 1 THEN Len(q) - 1 ELSE 0
  <2>1. l = SubSeq(q, 1, Len(q) - 1)
    BY DEF Left
  <2>2. \A i \in 1 .. (Len(q) - 1) : q[i] \in Sessions
    BY <1>1, <1>2, ElementOfSeq
  <2> HIDE DEF q, l
  <2>3. QED BY <1>2, <2>1, <2>2, SubSeqProperties
<1> HIDE DEF q, l
<1>4. Len(l) \in Nat /\ Len(l) < MaxIdleConns
  BY <1>1, <1>2, <1>3
<1>5. GivenBack(l, s) = Append(l, s)
  BY <1>4 DEF GivenBack
<1>6. /\ Len(Append(l, s)) = Len(l) + 1 /\ Append(l, s)[Len(l) + 1] = s
      /\ Append(l, s) # <<>>
  BY <1>1, AppendProperties
<1>7. QED BY <1>1, <1>4, <1>5, <1>6 DEF l

(* A request leaves the session in the database that it went to.           *)
LEMMA AnsweredSession ==
    ASSUME PoolInv, IdleBounded, get.pc = "have", get' = get, NEW s \in Sessions, Answer(s)
    PROVE  IdleBounded' /\ Session' = s
<1> DEFINE q == GivenBack(Left(H), s)
<1>1. H \in 1 .. Len(handles) /\ handles' = [handles EXCEPT ![H].idle = q]
  BY HandlesIn DEF H, Answer, Answered
<1>2. Len(q) <= MaxIdleConns /\ q # <<>> /\ q[Len(q)] = s
  BY <1>1, GivenBackBound
<1> HIDE DEF q
<1>3. IdleBounded' /\ handles'[H].idle = q
  BY <1>1, <1>2, BoundSetIdle
<1>4. H' = H
  BY DEF H
<1>5. QED BY <1>2, <1>3, <1>4 DEF Session, Taken

(* The age of a handle says nothing of its connections.                    *)
LEMMA BoundSetStale ==
    ASSUME PoolInv, IdleBounded, NEW h \in 1 .. Len(handles), NEW b,
           handles' = [handles EXCEPT ![h].stale = b]
    PROVE  IdleBounded'
<1>1. /\ DOMAIN handles = 1 .. Len(handles)
      /\ \A j \in 1 .. Len(handles) : handles[j] \in Handles
  BY HandlesIn
<1>2. DOMAIN handles' = DOMAIN handles /\ handles'[h] = [handles[h] EXCEPT !.stale = b]
      /\ \A j \in 1 .. Len(handles) : j # h => handles'[j] = handles[j]
  BY <1>1
<1>3. handles'[h].idle = handles[h].idle
  BY <1>1, <1>2 DEF Handles
<1>4. QED BY <1>1, <1>2, <1>3 DEF IdleBounded

(* Nothing idle is no more than may be.                                    *)
LEMMA NoneIdle == Len(<<>>) <= MaxIdleConns
BY PoolAssumption

(* Steps of Get.                                                           *)
LEMMA BoundGet ==
    ASSUME PoolInv, IdleBounded, Get \/ Ping \/ Open \/ OpenFails
    PROVE  IdleBounded'
<1> USE HandlesIn
<1>1. CASE Get
  <2>1. CASE pool = NoHandle
    BY <1>1, <2>1 DEF Get, IdleBounded
  <2>2. CASE pool # NoHandle
    BY <1>1, <2>2, BoundSetStale DEF Get
  <2>3. QED BY <2>1, <2>2
<1>2. CASE Ping
  <2> DEFINE h == get.handle
  <2>1. h \in 1 .. Len(handles)
    BY <1>2 DEF Ping
  <2>2. CASE handles' = Answered(h, Taken(h))
    <3> DEFINE q == GivenBack(Left(h), Taken(h))
    <3>1. Len(q) <= MaxIdleConns
      BY <2>1, IdleTypes, GivenBackBound
    <3>2. handles' = [handles EXCEPT ![h].idle = q]
      BY <2>2 DEF Answered
    <3> HIDE DEF q, h
    <3>3. QED BY <2>1, <3>1, <3>2, BoundSetIdle
  <2>3. CASE handles' = [handles EXCEPT ![h].idle = <<>>]
    BY <2>1, <2>3, BoundSetIdle, NoneIdle
  <2>4. QED BY <1>2, <2>2, <2>3 DEF Ping
<1>3. CASE Open
  <2> DEFINE new == [open |-> TRUE, stale |-> FALSE, idle |-> <<DefaultDatabase>>]
  <2>1. handles' = Append(handles, new)
    BY <1>3 DEF Open
  <2>2. new \in Handles /\ Len(new.idle) = 1
    <3>1. <<DefaultDatabase>> \in Seq(Sessions) /\ Len(<<DefaultDatabase>>) = 1
      BY PoolAssumption DEF DefaultDatabase
    <3>2. new \in Handles
      BY <3>1, Zenon DEF Handles
    <3>3. QED BY <3>1, <3>2
  <2> HIDE DEF new
  <2>3. /\ handles' \in Seq(Handles) /\ Len(handles') = Len(handles) + 1
        /\ \A i \in 1 .. Len(handles) : handles'[i] = handles[i]
        /\ handles'[Len(handles) + 1] = new
    BY <2>1, <2>2, AppendProperties
  <2>4. DOMAIN handles' = 1 .. (Len(handles) + 1)
    BY <2>3, LenProperties
  <2>5. 1 <= MaxIdleConns
    BY PoolAssumption
  <2>6. ASSUME NEW h \in 1 .. (Len(handles) + 1)
        PROVE  Len(handles'[h].idle) <= MaxIdleConns
    <3>1. CASE h \in 1 .. Len(handles)
      BY <2>3, <3>1 DEF IdleBounded
    <3>2. CASE h = Len(handles) + 1
      BY <2>2, <2>3, <2>5, <3>2
    <3>3. QED BY <3>1, <3>2
  <2>7. QED BY <2>4, <2>6 DEF IdleBounded
<1>4. CASE OpenFails
  BY <1>4 DEF OpenFails, IdleBounded
<1>5. QED BY <1>1, <1>2, <1>3, <1>4

(* Steps of the checker, and of time.                                      *)
LEMMA BoundRest ==
    ASSUME PoolInv, IdleBounded, Checker \/ Age
    PROVE  IdleBounded'
<1> USE HandlesIn
<1>1. CASE HealthCheck
  <2>1. pool \in 1 .. Len(handles) /\ handles' = [handles EXCEPT ![pool].idle = Left(pool)]
    BY <1>1 DEF HealthCheck
  <2>2. Len(Left(pool)) < MaxIdleConns /\ Left(pool) \in Seq(Sessions)
    BY <2>1, GivenBackBound, PoolAssumption
  <2>3. Len(Left(pool)) <= MaxIdleConns
    BY <2>2, LenProperties, PoolAssumption
  <2>4. QED BY <2>1, <2>3, BoundSetIdle
<1>2. CASE CheckPing
  <2> DEFINE h == checker.handle
             t == checker.taken[1]
             q == GivenBack(handles[h].idle, t)
  <2>1. h \in 1 .. Len(handles)
    BY <1>2 DEF CheckPing
  <2>2. CASE handles' = [handles EXCEPT ![h].idle = GivenBack(@, t)]
    <3>1. t \in Sessions
      <4>1. checker.taken \in Seq(Sessions) /\ Len(checker.taken) = 1
        BY <1>2 DEF CheckPing, PoolInv, PoolTypeOK, Checkers
      <4>2. QED BY <4>1, ElementOfSeq
    <3>2. handles' = [handles EXCEPT ![h].idle = q]
      BY <2>2
    <3>3. Len(q) <= MaxIdleConns
      <4> DEFINE i == handles[h].idle
      <4>1. i \in Seq(Sessions) /\ Len(i) <= MaxIdleConns /\ Len(i) \in Nat
        BY <2>1, IdleTypes, LenProperties DEF IdleBounded
      <4>2. q = IF Len(i) < MaxIdleConns THEN Append(i, t) ELSE i
        BY DEF GivenBack
      <4> HIDE DEF i, q, t
      <4>3. Len(Append(i, t)) = Len(i) + 1
        BY <3>1, <4>1, AppendProperties
      <4>4. QED BY <4>1, <4>2, <4>3, PoolAssumption
    <3> HIDE DEF h, q
    <3>4. QED BY <2>1, <3>2, <3>3, BoundSetIdle
  <2>3. CASE handles' = handles
    BY <2>3 DEF IdleBounded
  <2>4. QED BY <1>2, <2>2, <2>3 DEF CheckPing
<1>3. CASE Remove \/ cleanupStaleConnections
  BY <1>3 DEF Remove, cleanupStaleConnections, IdleBounded
<1>4. CASE Close
  <2> DEFINE h == checker.handle
  <2>1. h \in 1 .. Len(handles)
    BY <1>4 DEF Close
  <2>2. handles' = [handles EXCEPT ![h].open = FALSE, ![h].idle = <<>>]
    BY <1>4 DEF Close, ClosedHandle
  <2>3. DOMAIN handles' = DOMAIN handles /\ handles'[h].idle = <<>>
        /\ \A j \in 1 .. Len(handles) : j # h => handles'[j] = handles[j]
    BY <2>1, <2>2 DEF Handles
  <2>4. QED BY <2>1, <2>3, NoneIdle DEF IdleBounded
<1>5. CASE Age
  <2>1. PICK h \in DOMAIN handles :
         \/ handles' = [handles EXCEPT ![h].stale = TRUE]
         \/ \E i \in DOMAIN handles[h].idle :
               handles' = [handles EXCEPT ![h].idle =
                              SubSeq(@, 1, i - 1) \o SubSeq(@, i + 1, Len(@))]
    BY <1>5 DEF Age
  <2>2. h \in 1 .. Len(handles)
    BY <2>1
  <2>3. CASE handles' = [handles EXCEPT ![h].stale = TRUE]
    BY <2>2, <2>3, BoundSetStale
  <2>4. ASSUME NEW i \in DOMAIN handles[h].idle,
               handles' = [handles EXCEPT ![h].idle =
                              SubSeq(@, 1, i - 1) \o SubSeq(@, i + 1, Len(@))]
        PROVE  IdleBounded'
    <3> DEFINE q == handles[h].idle
               a == SubSeq(q, 1, i - 1)
               b == SubSeq(q, i + 1, Len(q))
               r == a \o b
    <3>1. /\ q \in Seq(Sessions) /\ Len(q) \in Nat /\ i \in 1 .. Len(q) /\ Len(q) <= MaxIdleConns
          /\ \A j \in 1 .. Len(q) : q[j] \in Sessions
      BY <2>2, IdleTypes, LenProperties, ElementOfSeq DEF IdleBounded
    <3>2. handles' = [handles EXCEPT ![h].idle = r]
      BY <2>4
    <3> HIDE DEF q
    <3>3. a \in Seq(Sessions) /\ Len(a) = IF 1 <= i - 1 THEN i - 1 ELSE 0
      <4>1. \A j \in 1 .. (i - 1) : q[j] \in Sessions
        BY <3>1
      <4>2. QED BY <3>1, <4>1, SubSeqProperties
    <3>4. b \in Seq(Sessions) /\ Len(b) = IF i + 1 <= Len(q) THEN Len(q) - (i + 1) + 1 ELSE 0
      <4>1. \A j \in (i + 1) .. Len(q) : q[j] \in Sessions
        BY <3>1
      <4>2. QED BY <3>1, <4>1, SubSeqProperties
    <3> HIDE DEF a, b
    <3>5. Len(r) = Len(a) + Len(b)
      BY <3>3, <3>4, ConcatProperties
    <3> HIDE DEF r
    <3>6. Len(r) <= MaxIdleConns
      BY <3>1, <3>3, <3>4, <3>5, PoolAssumption
    <3>7. QED BY <2>2, <3>2, <3>6, BoundSetIdle
  <2>5. QED BY <2>1, <2>3, <2>4
<1>6. QED BY <1>1, <1>2, <1>3, <1>4, <1>5 DEF Checker

-----------------------------------------------------------------------------
(* The reconcile.                                                          *)

DataOK == spec \in Grants /\ ACLTypeOK
Known == ReconcileInv /\ SyncedMeansGranted

(* Between two reconciles there is nothing to say.                         *)
LEMMA IdleIsKnown ==
    ASSUME worker' = NoWorker
    PROVE  Known'
<1>1. worker'.pc = "idle" /\ ~Working'
  BY NoWorkerPc DEF Working
<1>2. ~Collecting' /\ ~Executing'
  BY <1>1 DEF Collecting, Executing
<1>3. QED
  BY <1>1, <1>2 DEF Known, ReconcileInv, SyncedMeansGranted, SnapshotInv, PlaceInv,
                    StatementsInv, ProvidedInv, TodoInv

(* Steps that change nothing that the reconcile knows of.                  *)
LEMMA SameIsKnown ==
    ASSUME Known, UNCHANGED <<worker, acl, handles, get>>
    PROVE  Known'
<1>1. UNCHANGED <<Collecting, Executing, Disturbed, Working, Session>>
  BY DEF Collecting, Executing, Disturbed, Working, Session, Taken, H
<1>2. SnapshotInv' /\ PlaceInv' /\ StatementsInv' /\ ProvidedInv' /\ TodoInv'
  <2>1. SnapshotInv /\ PlaceInv /\ StatementsInv /\ ProvidedInv /\ TodoInv
    BY DEF Known, ReconcileInv
  <2>2. SnapshotInv'
    BY <2>1 DEF SnapshotInv
  <2>3. PlaceInv'
    BY <1>1, <2>1 DEF PlaceInv
  <2>4. StatementsInv'
    BY <1>1, <2>1 DEF StatementsInv, Home
  <2>5. ProvidedInv'
    BY <1>1, <2>1 DEF ProvidedInv, Home, Provided
  <2>6. TodoInv'
    BY <1>1, <2>1 DEF TodoInv
  <2>7. QED BY <2>2, <2>3, <2>4, <2>5, <2>6
<1>3. SyncedMeansGranted'
  BY DEF Known, SyncedMeansGranted
<1>4. QED BY <1>1, <1>2, <1>3 DEF Known, ReconcileInv

(* A connection has come or gone: the reconcile has lost its place.        *)
LEMMA LostIsKnown ==
    ASSUME Known, WorkerTypeOK, Working, worker' = [worker EXCEPT !.lost = TRUE], UNCHANGED acl
    PROVE  Known'
<1>1. DOMAIN worker = WorkerFields
  BY DEF WorkerTypeOK
<1>2. /\ worker'.lost /\ worker'.pc = worker.pc /\ worker'.spec = worker.spec
      /\ worker'.snapshot = worker.snapshot /\ worker'.todo = worker.todo
      /\ worker'.current = worker.current /\ worker'.stmts = worker.stmts
      /\ worker'.failed = worker.failed /\ worker'.touched = worker.touched
  BY <1>1 DEF WorkerFields
<1>3. UNCHANGED <<Collecting, Executing>> /\ Disturbed'
  BY <1>2 DEF Collecting, Executing, Disturbed
<1>4. SnapshotInv /\ PlaceInv /\ StatementsInv /\ TodoInv /\ worker.spec \in Grants
  BY DEF Known, ReconcileInv
<1>5. SnapshotInv'
  BY <1>2, <1>4 DEF SnapshotInv
<1>6. PlaceInv'
  BY <1>2, <1>3, <1>4 DEF PlaceInv
<1>7. StatementsInv'
  BY <1>2, <1>3, <1>4 DEF StatementsInv
<1>8. ProvidedInv' /\ SyncedMeansGranted'
  BY <1>2, <1>3 DEF ProvidedInv, SyncedMeansGranted
<1>9. TodoInv'
  BY <1>2, <1>3, <1>4 DEF TodoInv
<1>10. QED BY <1>2, <1>4, <1>5, <1>6, <1>7, <1>8, <1>9 DEF Known, ReconcileInv

(* Somebody else has changed privileges.                                   *)
LEMMA TouchedIsKnown ==
    ASSUME Known, WorkerTypeOK, Working, worker' = [worker EXCEPT !.touched = TRUE],
           UNCHANGED <<handles, get>>
    PROVE  Known'
<1>1. DOMAIN worker = WorkerFields
  BY DEF WorkerTypeOK
<1>2. /\ worker'.touched /\ worker'.pc = worker.pc /\ worker'.spec = worker.spec
      /\ worker'.snapshot = worker.snapshot /\ worker'.todo = worker.todo
      /\ worker'.current = worker.current /\ worker'.stmts = worker.stmts
      /\ worker'.failed = worker.failed /\ worker'.lost = worker.lost
      /\ worker'.original = worker.original
  BY <1>1 DEF WorkerFields
<1>3. UNCHANGED <<Collecting, Executing, Session>> /\ Disturbed'
  BY <1>2 DEF Collecting, Executing, Disturbed, Session, Taken, H
<1>4. SnapshotInv /\ PlaceInv /\ StatementsInv /\ TodoInv /\ worker.spec \in Grants
  BY DEF Known, ReconcileInv
<1>5. SnapshotInv'
  BY <1>2, <1>4 DEF SnapshotInv
<1>6. PlaceInv'
  BY <1>2, <1>3, <1>4 DEF PlaceInv
<1>7. StatementsInv'
  BY <1>2, <1>3, <1>4 DEF StatementsInv, Home
<1>8. ProvidedInv' /\ SyncedMeansGranted'
  BY <1>2, <1>3 DEF ProvidedInv, SyncedMeansGranted
<1>9. TodoInv'
  BY <1>2, <1>3, <1>4 DEF TodoInv
<1>10. QED BY <1>2, <1>4, <1>5, <1>6, <1>7, <1>8, <1>9 DEF Known, ReconcileInv

(* A request that fails changes no session.                                *)
LEMMA SameSession ==
    ASSUME IdleBounded, UNCHANGED <<handles, get>>
    PROVE  IdleBounded' /\ Session' = Session
BY DEF IdleBounded, Session, Taken, H

(* A reconcile begins with no statements.                                  *)
LEMMA BeginKnows ==
    ASSUME DataOK, Begin
    PROVE  Known'
<1>1. /\ worker'.pc = "snapshot" /\ worker'.stmts = [d \in {} |-> {}]
      /\ worker'.spec = spec
  BY DEF Begin
<1>2. ~Collecting' /\ ~Executing' /\ spec \in Grants
  BY <1>1 DEF Collecting, Executing, DataOK
<1>3. QED
  BY <1>1, <1>2 DEF Known, ReconcileInv, SyncedMeansGranted, SnapshotInv, PlaceInv,
                    StatementsInv, ProvidedInv, TodoInv

(* The snapshot has the privileges on databases.                           *)
LEMMA FetchSnapshotKnows ==
    ASSUME DataOK, Known, WorkerTypeOK, FetchSnapshot
    PROVE  Known'
<1> DEFINE snapshot == [d \in Databases |-> acl[<<"database", d>>]]
<1>1. Working /\ DOMAIN worker = WorkerFields /\ UNCHANGED acl
  BY NoWorkerPc DEF FetchSnapshot, Working, WorkerTypeOK
<1>2. CASE worker' = [worker EXCEPT !.pc = "current", !.snapshot = snapshot]
  <2>1. /\ worker'.pc = "current" /\ worker'.stmts = worker.stmts
        /\ worker'.spec = worker.spec /\ worker'.snapshot = snapshot
    BY <1>1, <1>2 DEF WorkerFields
  <2>2. ~Collecting' /\ ~Executing'
    BY <2>1 DEF Collecting, Executing
  <2>3. worker.spec \in Grants /\ worker.stmts = [d \in {} |-> {}]
    BY <1>1 DEF Known, ReconcileInv, SnapshotInv, FetchSnapshot
  <2>4. ASSUME NEW d \in Databases
        PROVE  snapshot[d] = acl'[<<"database", d>>]
               /\ snapshot[d] \subseteq PrivilegesOf("database")
    <3> DEFINE e == <<"database", d>>
    <3>1. e \in Catalogue /\ Kind(e) = "database"
      BY DatabaseEntries DEF Kind
    <3>2. acl[e] \subseteq PrivilegesOf("database")
      BY <3>1 DEF DataOK, ACLTypeOK
    <3>3. QED BY <1>1, <3>2
  <2>5. DOMAIN snapshot = Databases
    OBVIOUS
  <2> HIDE DEF snapshot
  <2>6. SnapshotInv'
    BY <2>1, <2>3, <2>4, <2>5 DEF SnapshotInv
  <2>7. QED
    BY <2>1, <2>2, <2>3, <2>6 DEF Known, ReconcileInv, SyncedMeansGranted, PlaceInv,
                                  StatementsInv, ProvidedInv, TodoInv
<1>3. CASE worker' = NoWorker
  BY <1>3, IdleIsKnown
<1>4. QED BY <1>2, <1>3 DEF FetchSnapshot, Return

-----------------------------------------------------------------------------
(* Collecting statements.  In the lemmas, stmts and todo are those that a  *)
(* reconcile of the grants g, begun in the database o, has collected and   *)
(* has still to fetch.                                                     *)

HomeOf(e, o) == IF Kind(e) = "database" THEN o ELSE e[2]

AllTyped(stmts) == \A d \in DOMAIN stmts : \A s \in stmts[d] : Typed(s)

AllRight(stmts, todo, g, o) ==
    \A d \in DOMAIN stmts : \A s \in stmts[d] :
        /\ Right(g, s, d)
        /\ \A e \in Hit(s, d) : HomeOf(e, o) = d
        /\ d \in todo => \A e \in Hit(s, d) : Kind(e) = "database"

AllProvided(stmts, todo, g, o) ==
    \A e \in {x \in Catalogue : Reachable(x)} :
        Kind(e) = "database" \/ e[2] \notin todo =>
            /\ HomeOf(e, o) \in DOMAIN stmts
            /\ Provided(g, stmts[HomeOf(e, o)], e, HomeOf(e, o))

(* What is known of a reconcile that collects.                             *)
LEMMA CollectingKnows ==
    ASSUME Known, Collecting
    PROVE  /\ AllTyped(worker.stmts)
           /\ ~worker.lost => AllRight(worker.stmts, worker.todo, worker.spec, worker.original)
           /\ ~Disturbed => AllProvided(worker.stmts, worker.todo, worker.spec, worker.original)
           /\ worker.current \in Sessions
           /\ ~worker.lost => Session = worker.current
           /\ worker.pc = "fetch" => worker.current \in worker.todo
<1>1. StatementsInv /\ ProvidedInv /\ PlaceInv
  BY DEF Known, ReconcileInv
<1>2. AllTyped(worker.stmts)
  BY <1>1 DEF StatementsInv, AllTyped
<1>3. \A e : Home(e) = HomeOf(e, worker.original)
  BY DEF Home, HomeOf
<1>4. ~worker.lost => AllRight(worker.stmts, worker.todo, worker.spec, worker.original)
  BY <1>1, <1>3 DEF StatementsInv, AllRight
<1>5. ~Disturbed => AllProvided(worker.stmts, worker.todo, worker.spec, worker.original)
  BY <1>1, <1>3 DEF ProvidedInv, AllProvided
<1>6. QED BY <1>1, <1>2, <1>4, <1>5 DEF PlaceInv

(* A reconcile that is still collecting, or that has just collected all.   *)
LEMMA CollectedFields ==
    ASSUME NEW w, DOMAIN w = WorkerFields, w.pc = "schemas", NEW v \in {w, Collected(w)}
    PROVE  /\ v.stmts = w.stmts /\ v.spec = w.spec /\ v.current = w.current
           /\ v.original = w.original /\ v.lost = w.lost /\ v.skipped = w.skipped
           /\ v.touched = w.touched /\ v.failed = w.failed
           /\ \/ v.pc = "schemas" /\ v.todo = w.todo
              \/ /\ v.pc = "execute" /\ w.todo = {}
                 /\ v.todo = {d \in DOMAIN w.stmts : w.stmts[d] # {}}
<1>1. CASE v = w
  BY <1>1
<1>2. CASE w.todo = {} /\ v = [w EXCEPT !.pc = "execute",
                                        !.todo = {d \in DOMAIN w.stmts : w.stmts[d] # {}}]
  BY <1>2 DEF WorkerFields
<1>3. QED BY <1>1, <1>2 DEF Collected

(* What is known while statements are collected is known when they begin   *)
(* to be executed.                                                         *)
LEMMA CollectedIsKnown ==
    ASSUME NEW w, DOMAIN w = WorkerFields, w.pc = "schemas", worker' \in {w, Collected(w)},
           w.spec \in Grants, w.current \in Sessions, ~w.lost => Session' = w.current,
           UNCHANGED acl, AllTyped(w.stmts),
           ~w.lost => AllRight(w.stmts, w.todo, w.spec, w.original),
           w.lost \/ w.skipped \/ w.touched \/ w.failed
              \/ AllProvided(w.stmts, w.todo, w.spec, w.original)
    PROVE  Known'
<1>1. /\ worker'.stmts = w.stmts /\ worker'.spec = w.spec /\ worker'.current = w.current
      /\ worker'.original = w.original /\ worker'.lost = w.lost /\ worker'.skipped = w.skipped
      /\ worker'.touched = w.touched /\ worker'.failed = w.failed
      /\ \/ worker'.pc = "schemas" /\ worker'.todo = w.todo
         \/ /\ worker'.pc = "execute" /\ w.todo = {}
            /\ worker'.todo = {d \in DOMAIN w.stmts : w.stmts[d] # {}}
  BY CollectedFields
<1>2. /\ worker'.pc \in {"schemas", "execute"} /\ (Collecting' <=> worker'.pc = "schemas")
      /\ (Executing' <=> worker'.pc = "execute")
      /\ (Disturbed' <=> w.lost \/ w.skipped \/ w.touched \/ w.failed)
  BY <1>1 DEF Collecting, Executing, Disturbed
<1>3. \A e : Home(e)' = HomeOf(e, w.original)
  BY <1>1 DEF Home, HomeOf
<1>4. SnapshotInv' /\ SyncedMeansGranted'
  BY <1>2 DEF SnapshotInv, SyncedMeansGranted
<1>5. PlaceInv'
  BY <1>1, <1>2 DEF PlaceInv
<1>6. StatementsInv'
  BY <1>1, <1>2, <1>3 DEF StatementsInv, AllTyped, AllRight
<1>7. ProvidedInv'
  <2>1. SUFFICES ASSUME ~Disturbed', NEW e \in Catalogue, Reachable(e),
                        Kind(e) = "database" \/ Executing' \/ e[2] \notin worker'.todo
                 PROVE  /\ Home(e)' \in DOMAIN worker'.stmts
                        /\ Provided(worker.spec, worker.stmts[Home(e)], e, Home(e))'
    BY DEF ProvidedInv
  <2>2. Kind(e) = "database" \/ e[2] \notin w.todo
    BY <1>1, <1>2, <2>1
  <2>3. /\ HomeOf(e, w.original) \in DOMAIN w.stmts
        /\ Provided(w.spec, w.stmts[HomeOf(e, w.original)], e, HomeOf(e, w.original))
    BY <1>2, <2>1, <2>2 DEF AllProvided
  <2>4. QED BY <1>1, <1>3, <2>3 DEF Provided
<1>8. TodoInv'
  BY <1>1, <1>2 DEF TodoInv
<1>9. QED BY <1>1, <1>4, <1>5, <1>6, <1>7, <1>8 DEF Known, ReconcileInv

(* getCurrentDatabase: the statements on databases are the first ones.     *)
LEMMA getCurrentDatabaseKnows ==
    ASSUME DataOK, Known, PoolInv, WorkerTypeOK, IdleBounded, getCurrentDatabase
    PROVE  Known'
<1>1. /\ Working /\ DOMAIN worker = WorkerFields /\ get.pc = "have" /\ UNCHANGED <<acl, get>>
      /\ worker.pc = "current"
  BY NoWorkerPc DEF getCurrentDatabase, Working, WorkerTypeOK
<1>2. PICK known \in BOOLEAN :
          LET db == IF known THEN Session ELSE DefaultDatabase IN
          /\ IF known THEN Answer(Session) ELSE Error
          /\ worker' = [worker EXCEPT
                !.pc = "schemas", !.current = db, !.original = db, !.lost = @ \/ ~known,
                !.todo = Databases \cup {e[2] : e \in DOMAIN worker.spec},
                !.stmts = AddStatements(@, db, DatabaseStatements(worker.spec, worker.snapshot))]
  BY DEF getCurrentDatabase
<1> DEFINE db == IF known THEN Session ELSE DefaultDatabase
           g == worker.spec
           snapshot == worker.snapshot
           new == DatabaseStatements(g, snapshot)
           w == [worker EXCEPT
                !.pc = "schemas", !.current = db, !.original = db, !.lost = @ \/ ~known,
                !.todo = Databases \cup {e[2] : e \in DOMAIN worker.spec},
                !.stmts = AddStatements(@, db, DatabaseStatements(worker.spec, worker.snapshot))]
<1>3. /\ DOMAIN w = WorkerFields /\ w.pc = "schemas" /\ w.current = db /\ w.original = db
      /\ w.spec = g /\ Databases \subseteq w.todo
      /\ w.stmts = AddStatements(worker.stmts, db, new)
      /\ w.touched = worker.touched
  BY <1>1 DEF WorkerFields
<1>4. ~w.lost => known
  BY <1>1 DEF WorkerFields
<1>5. worker' = w
  BY <1>2
<1>6. db \in Sessions
  BY <1>1, SessionTypes, PoolAssumption DEF DefaultDatabase
<1>7. ~w.lost => Session' = db
  <2>1. SUFFICES ASSUME known PROVE Session' = db
    BY <1>4
  <2>2. Answer(Session) /\ db = Session
    BY <1>2, <2>1
  <2> HIDE DEF db
  <2>3. QED BY <1>1, <1>6, <2>2, AnsweredSession
<1>8. /\ g \in Grants /\ DOMAIN snapshot = Databases /\ SnapshotOK(snapshot)
      /\ ~worker.touched => \A d \in Databases : snapshot[d] = acl[<<"database", d>>]
      /\ worker.stmts = [d \in {} |-> {}]
  BY <1>1 DEF Known, ReconcileInv, SnapshotInv, SnapshotOK
<1> HIDE DEF w, db, g, snapshot
<1>9. DOMAIN w.stmts = {db} /\ w.stmts[db] = new
  <2>1. DOMAIN worker.stmts = {}
    BY <1>8
  <2>2. QED BY <1>3, <2>1 DEF AddStatements
<1>10. ASSUME NEW s \in new
       PROVE  Typed(s) /\ Right(g, s, db) /\ \A e \in Hit(s, db) : Kind(e) = "database"
  BY <1>8, <1>10, DatabaseStatementsRight
<1> HIDE DEF new
<1>11. AllTyped(w.stmts) /\ AllRight(w.stmts, w.todo, g, db)
  BY <1>9, <1>10 DEF AllTyped, AllRight, HomeOf
<1>12. ~worker.touched => AllProvided(w.stmts, w.todo, g, db)
  <2>1. SUFFICES ASSUME ~worker.touched, NEW e \in Catalogue,
                        Kind(e) = "database" \/ e[2] \notin w.todo
                 PROVE  /\ HomeOf(e, db) \in DOMAIN w.stmts
                        /\ Provided(g, w.stmts[HomeOf(e, db)], e, HomeOf(e, db))
    BY DEF AllProvided
  <2>2. e[2] \in Databases /\ Entry(e)
    BY CatalogueEntry
  <2>3. Kind(e) = "database" /\ HomeOf(e, db) = db
    BY <1>3, <2>1, <2>2 DEF HomeOf
  <2>4. snapshot[e[2]] = acl[e]
    BY <1>8, <2>1, <2>2, <2>3, EntryKinds
  <2>5. Provided(g, new, e, db)
    BY <1>8, <1>10, <2>3, <2>4, DatabaseStatementsProvide DEF DataOK, new
  <2>6. QED BY <1>9, <2>3, <2>5
<1>13. QED BY <1>1, <1>3, <1>5, <1>6, <1>7, <1>8, <1>11, <1>12, CollectedIsKnown

(* A database that cannot be switched to is skipped.                       *)
LEMMA SwitchForSchemasKnows ==
    ASSUME Known, PoolInv, WorkerTypeOK, IdleBounded, SwitchForSchemas
    PROVE  Known'
<1>1. /\ Working /\ DOMAIN worker = WorkerFields /\ get.pc = "have" /\ UNCHANGED <<acl, get>>
      /\ worker.pc = "schemas" /\ Collecting /\ worker.spec \in Grants
  BY NoWorkerPc DEF SwitchForSchemas, Working, WorkerTypeOK, Collecting, Known, ReconcileInv
<1>2. PICK d \in worker.todo :
         \/ /\ CanSwitch(d) /\ Answer(d)
            /\ worker' = [worker EXCEPT !.current = d, !.pc = "fetch"]
         \/ /\ IF CanSwitch(d) THEN Error ELSE Answer(Session)
            /\ worker' = Collected(Skipped(d))
  BY DEF SwitchForSchemas
<1>3. CASE /\ CanSwitch(d) /\ Answer(d)
           /\ worker' = [worker EXCEPT !.current = d, !.pc = "fetch"]
  <2>1. /\ worker'.pc = "fetch" /\ worker'.current = d /\ worker'.todo = worker.todo
        /\ worker'.stmts = worker.stmts /\ worker'.spec = worker.spec
        /\ worker'.original = worker.original /\ worker'.lost = worker.lost
        /\ worker'.skipped = worker.skipped /\ worker'.touched = worker.touched
        /\ worker'.failed = worker.failed
    BY <1>1, <1>3 DEF WorkerFields
  <2>2. Collecting' /\ ~Executing' /\ ~Executing /\ (Disturbed' <=> Disturbed)
    BY <1>1, <2>1 DEF Collecting, Executing, Disturbed
  <2>3. d \in Sessions
    BY <1>1, <1>3, SessionTypes
  <2>4. Session' = d
    BY <1>1, <1>3, <2>3, AnsweredSession
  <2>5. \A e : Home(e)' = Home(e)
    BY <2>1 DEF Home
  <2>6. StatementsInv /\ ProvidedInv
    BY DEF Known, ReconcileInv
  <2>7. StatementsInv'
    BY <1>1, <2>1, <2>2, <2>5, <2>6 DEF StatementsInv
  <2>8. ProvidedInv'
    BY <1>1, <2>1, <2>2, <2>5, <2>6 DEF ProvidedInv, Provided
  <2>9. PlaceInv'
    BY <1>2, <2>1, <2>3, <2>4 DEF PlaceInv
  <2>10. QED BY <1>1, <2>1, <2>2, <2>7, <2>8, <2>9
            DEF Known, ReconcileInv, SnapshotInv, TodoInv, SyncedMeansGranted
<1>4. CASE /\ IF CanSwitch(d) THEN Error ELSE Answer(Session)
           /\ worker' = Collected(Skipped(d))
  <2> DEFINE w == Skipped(d)
  <2>1. /\ DOMAIN w = WorkerFields /\ w.pc = "schemas" /\ w.spec = worker.spec
        /\ w.current = worker.current /\ w.original = worker.original /\ w.lost = worker.lost
        /\ w.stmts = worker.stmts /\ w.todo = worker.todo \ {d} /\ w.skipped
    BY <1>1 DEF WorkerFields, Skipped
  <2>2. Session' = Session
    <3>1. CASE Answer(Session)
      BY <1>1, <3>1, SessionTypes, AnsweredSession
    <3>2. CASE Error
      BY <1>1, <3>2, SameSession DEF Error
    <3>3. QED BY <1>4, <3>1, <3>2
  <2> HIDE DEF w
  <2>3. worker' \in {w, Collected(w)}
    BY <1>4 DEF w
  <2>4. AllTyped(w.stmts) /\ w.current \in Sessions /\ (~w.lost => Session' = w.current)
    BY <1>1, <2>1, <2>2, CollectingKnows
  <2>5. ~w.lost => AllRight(w.stmts, w.todo, w.spec, w.original)
    BY <1>1, <2>1, CollectingKnows DEF AllRight
  <2>6. QED BY <1>1, <2>1, <2>3, <2>4, <2>5, CollectedIsKnown
<1>5. QED BY <1>2, <1>3, <1>4

(* More statements that leave an entry alone do not take from it.          *)
LEMMA ProvidedStill ==
    ASSUME NEW g, NEW old, NEW new, NEW e, NEW db, Provided(g, old, e, db),
           \A s \in new : e \notin Hit(s, db)
    PROVE  Provided(g, old \cup new, e, db)
BY DEF Provided, Changes

(* The statements of one more database.                                    *)
LEMMA FetchedIsRight ==
    ASSUME ACLTypeOK, Unambiguous, NEW stmts, NEW todo, NEW g \in Grants, NEW o, NEW d \in todo,
           AllRight(stmts, todo, g, o), NEW added,
           added = AddStatements(stmts, d, SchemaStatements(g, d, d))
    PROVE  /\ AllRight(added, todo \ {d}, g, o)
           /\ AllProvided(stmts, todo, g, o) => AllProvided(added, todo \ {d}, g, o)
<1> DEFINE new == SchemaStatements(g, d, d)
           old == IF d \in DOMAIN stmts THEN stmts[d] ELSE {}
<1>1. /\ DOMAIN added = DOMAIN stmts \cup {d} /\ added[d] = old \cup new
      /\ \A x \in DOMAIN stmts : x # d => added[x] = stmts[x]
  BY DEF AddStatements
<1>2. \A s \in new : Right(g, s, d) /\ StaysIn(s, d)
  BY SchemaStatementsRight
<1>3. \A s \in old : /\ Right(g, s, d)
                     /\ \A e \in Hit(s, d) : HomeOf(e, o) = d /\ Kind(e) = "database"
  BY DEF AllRight
<1>4. new \subseteq SchemaStatements(g, d, d) /\ SchemaStatements(g, d, d) \subseteq new
  OBVIOUS
<1>5. d \in DOMAIN stmts => old = stmts[d]
  OBVIOUS
<1> HIDE DEF new, old
<1>6. AllRight(added, todo \ {d}, g, o)
  <2>1. SUFFICES ASSUME NEW x \in DOMAIN added, NEW s \in added[x]
                 PROVE  /\ Right(g, s, x)
                        /\ \A e \in Hit(s, x) : HomeOf(e, o) = x
                        /\ x \in todo \ {d} => \A e \in Hit(s, x) : Kind(e) = "database"
    BY DEF AllRight
  <2>2. CASE x = d
    <3>1. CASE s \in old
      BY <1>3, <2>2, <3>1
    <3>2. CASE s \in new
      BY <1>2, <2>2, <3>2 DEF StaysIn, HomeOf
    <3>3. QED BY <1>1, <2>1, <2>2, <3>1, <3>2
  <2>3. CASE x # d
    BY <1>1, <2>1, <2>3 DEF AllRight
  <2>4. QED BY <2>2, <2>3
<1>7. ASSUME AllProvided(stmts, todo, g, o)
      PROVE  AllProvided(added, todo \ {d}, g, o)
  <2>1. SUFFICES ASSUME NEW e \in Catalogue, Reachable(e),
                        Kind(e) = "database" \/ e[2] \notin todo \ {d}
                 PROVE  /\ HomeOf(e, o) \in DOMAIN added
                        /\ Provided(g, added[HomeOf(e, o)], e, HomeOf(e, o))
    BY DEF AllProvided
  <2>2. CASE Kind(e) # "database" /\ e[2] = d
    <3>1. HomeOf(e, o) = d
      BY <2>2 DEF HomeOf
    <3>2. \A s \in added[d] : Right(g, s, d)
      BY <1>1, <1>2, <1>3
    <3>3. Provided(g, added[d], e, d)
      BY <1>1, <1>4, <2>1, <2>2, <3>2, SchemaStatementsProvide
    <3>4. QED BY <1>1, <3>1, <3>3
  <2>3. CASE Kind(e) = "database" \/ e[2] # d
    <3> DEFINE h == HomeOf(e, o)
    <3>1. h \in DOMAIN stmts /\ Provided(g, stmts[h], e, h)
      BY <1>7, <2>1, <2>3 DEF AllProvided
    <3>2. CASE h # d
      BY <1>1, <3>1, <3>2
    <3>3. CASE h = d
      <4>1. Kind(e) = "database"
        BY <2>3, <3>3 DEF HomeOf
      <4>2. \A s \in new : e \notin Hit(s, d)
        BY <1>2, <4>1 DEF StaysIn
      <4>3. Provided(g, old, e, d)
        BY <1>5, <3>1, <3>3
      <4>4. Provided(g, old \cup new, e, d)
        BY <4>2, <4>3, ProvidedStill
      <4>5. QED BY <1>1, <3>3, <4>4
    <3>4. QED BY <3>2, <3>3
  <2>4. QED BY <2>2, <2>3
<1>8. QED BY <1>6, <1>7

(* FetchSchemaPrivileges.                                                  *)
LEMMA FetchSchemasKnows ==
    ASSUME Unambiguous, DataOK, Known, PoolInv, WorkerTypeOK, IdleBounded, FetchSchemas
    PROVE  Known'
<1>1. /\ Working /\ DOMAIN worker = WorkerFields /\ get.pc = "have" /\ UNCHANGED acl
      /\ Collecting /\ worker.spec \in Grants /\ ACLTypeOK
  BY NoWorkerPc DEF FetchSchemas, Working, WorkerTypeOK, Collecting, Known, ReconcileInv, DataOK
<1> DEFINE d == worker.current
           g == worker.spec
           w == [worker EXCEPT
                    !.pc = "schemas", !.todo = @ \ {d},
                    !.stmts = AddStatements(@, d, SchemaStatements(worker.spec, d, Session))]
<1>2. d \in worker.todo
  BY <1>1, CollectingKnows DEF FetchSchemas
<1>3. CASE Answer(Session) /\ worker' = Collected(w) /\ UNCHANGED get
  <2>1. /\ DOMAIN w = WorkerFields /\ w.pc = "schemas" /\ w.spec = g
        /\ w.current = d /\ w.original = worker.original /\ w.lost = worker.lost
        /\ w.skipped = worker.skipped /\ w.touched = worker.touched /\ w.failed = worker.failed
        /\ w.stmts = AddStatements(worker.stmts, d, SchemaStatements(g, d, Session))
        /\ w.todo = worker.todo \ {d}
    BY <1>1 DEF WorkerFields
  <2>2. Session' = Session
    BY <1>1, <1>3, SessionTypes, AnsweredSession
  <2>3. worker' \in {w, Collected(w)}
    BY <1>3
  <2> HIDE DEF w, d, g
  <2>4. /\ AllTyped(worker.stmts) /\ d \in Sessions /\ (~worker.lost => Session = d)
        /\ ~worker.lost => AllRight(worker.stmts, worker.todo, g, worker.original)
        /\ ~Disturbed => AllProvided(worker.stmts, worker.todo, g, worker.original)
    BY <1>1, CollectingKnows DEF d, g
  <2>5. g \in Grants
    BY <1>1 DEF g
  <2>6. AllTyped(w.stmts)
    <3> DEFINE new == SchemaStatements(g, d, Session)
    <3>1. \A s \in new : Typed(s)
      BY <1>1, <2>5, SchemaStatementsTyped
    <3> HIDE DEF new
    <3>2. /\ DOMAIN w.stmts = DOMAIN worker.stmts \cup {d}
          /\ d \in DOMAIN worker.stmts => w.stmts[d] = worker.stmts[d] \cup new
          /\ d \notin DOMAIN worker.stmts => w.stmts[d] = new
          /\ \A x \in DOMAIN worker.stmts : x # d => w.stmts[x] = worker.stmts[x]
      BY <2>1 DEF new, AddStatements
    <3>3. QED BY <2>4, <3>1, <3>2 DEF AllTyped
  <2>7. ~worker.lost => /\ AllRight(w.stmts, w.todo, g, w.original)
                        /\ ~Disturbed => AllProvided(w.stmts, w.todo, g, w.original)
    <3>1. SUFFICES ASSUME ~worker.lost
                   PROVE  /\ AllRight(w.stmts, w.todo, g, w.original)
                          /\ ~Disturbed => AllProvided(w.stmts, w.todo, g, w.original)
      OBVIOUS
    <3>2. w.stmts = AddStatements(worker.stmts, d, SchemaStatements(g, d, d))
      BY <2>1, <2>4, <3>1
    <3>3. d \in worker.todo
      BY <1>2 DEF d
    <3>4. QED BY <1>1, <2>1, <2>4, <2>5, <3>1, <3>2, <3>3, FetchedIsRight
  <2>8. \/ w.lost \/ w.skipped \/ w.touched \/ w.failed
        \/ AllProvided(w.stmts, w.todo, w.spec, w.original)
    BY <2>1, <2>7 DEF Disturbed
  <2>9. /\ ~w.lost => AllRight(w.stmts, w.todo, w.spec, w.original)
        /\ ~w.lost => Session' = w.current
        /\ w.current \in Sessions /\ w.spec \in Grants
    BY <2>1, <2>2, <2>4, <2>5, <2>7
  <2>10. QED BY <1>1, <2>1, <2>3, <2>6, <2>8, <2>9, CollectedIsKnown
<1>4. CASE worker' = NoWorker
  BY <1>4, IdleIsKnown
<1>5. QED BY <1>3, <1>4 DEF FetchSchemas, Return

-----------------------------------------------------------------------------
(* Executing statements.                                                   *)

(* What is known of a reconcile that executes.                             *)
LEMMA ExecutingKnows ==
    ASSUME Known, Executing
    PROVE  /\ SnapshotInv /\ PlaceInv /\ StatementsInv /\ ProvidedInv /\ TodoInv
           /\ ~Collecting
BY DEF Known, ReconcileInv, Executing, Collecting

(* Nothing is claimed of the snapshot or of the outcome on the way.        *)
LEMMA StillExecuting ==
    ASSUME worker'.pc \in {"execute", "apply"}, worker'.spec \in Grants
    PROVE  /\ Executing' /\ ~Collecting' /\ SnapshotInv' /\ SyncedMeansGranted'
           /\ PlaceInv' /\ StatementsInv' /\ ProvidedInv' /\ TodoInv' => Known'
BY DEF Executing, Collecting, SnapshotInv, SyncedMeansGranted, Known, ReconcileInv

(* The session goes where the statements are for; a database it cannot go  *)
(* to counts as a failure.                                                 *)
LEMMA SwitchForExecutionKnows ==
    ASSUME Known, PoolInv, WorkerTypeOK, IdleBounded, SwitchForExecution
    PROVE  Known'
<1>1. /\ Working /\ DOMAIN worker = WorkerFields /\ get.pc = "have" /\ UNCHANGED <<acl, get>>
      /\ worker.pc = "execute" /\ Executing /\ worker.spec \in Grants
  BY NoWorkerPc DEF SwitchForExecution, Working, WorkerTypeOK, Executing, Known, ReconcileInv
<1>2. PICK d \in worker.todo :
         \/ /\ CanSwitch(d) /\ Answer(d)
            /\ worker' = [worker EXCEPT !.current = d, !.pc = "apply"]
         \/ /\ IF CanSwitch(d) THEN Error ELSE Answer(Session)
            /\ worker' = GivenUp(d)
  BY DEF SwitchForExecution
<1>3. /\ worker'.pc \in {"execute", "apply"} /\ worker'.stmts = worker.stmts /\ worker'.spec = worker.spec
      /\ worker'.original = worker.original /\ worker'.lost = worker.lost
      /\ worker'.skipped = worker.skipped /\ worker'.touched = worker.touched
      /\ \/ worker'.failed = worker.failed /\ worker'.todo = worker.todo
         \/ worker'.failed /\ worker'.todo = worker.todo \ {d}
  BY <1>1, <1>2 DEF WorkerFields, GivenUp
<1>4. /\ PlaceInv /\ StatementsInv /\ ProvidedInv /\ TodoInv /\ ~Collecting
      /\ Executing' /\ ~Collecting' /\ SnapshotInv' /\ SyncedMeansGranted'
  BY <1>1, <1>3, ExecutingKnows, StillExecuting
<1>5. PlaceInv'
  <2>1. CASE CanSwitch(d) /\ Answer(d) /\ worker' = [worker EXCEPT !.current = d, !.pc = "apply"]
    <3>1. worker'.current = d /\ worker'.todo = worker.todo /\ d \in Sessions
      BY <1>1, <2>1, SessionTypes DEF WorkerFields
    <3>2. Session' = d
      BY <1>1, <2>1, <3>1, AnsweredSession
    <3>3. QED BY <1>2, <1>3, <3>1, <3>2, <1>4 DEF PlaceInv
  <2>2. CASE (IF CanSwitch(d) THEN Error ELSE Answer(Session)) /\ worker' = GivenUp(d)
    <3>1. worker'.current = worker.current /\ worker'.pc = "execute"
      BY <1>1, <2>2 DEF WorkerFields, GivenUp
    <3>2. Session' = Session
      <4>1. CASE Answer(Session)
        BY <1>1, <4>1, SessionTypes, AnsweredSession
      <4>2. CASE Error
        BY <1>1, <4>2, SameSession DEF Error
      <4>3. QED BY <2>2, <4>1, <4>2
    <3>3. QED BY <1>1, <1>3, <1>4, <3>1, <3>2 DEF PlaceInv
  <2>3. QED BY <1>2, <2>1, <2>2
<1>6. \A e : Home(e)' = Home(e)
  BY <1>3 DEF Home
<1>7. StatementsInv'
  BY <1>1, <1>3, <1>4, <1>6 DEF StatementsInv
<1>8. ProvidedInv'
  <2>1. Disturbed => Disturbed'
    BY <1>3 DEF Disturbed
  <2>2. QED BY <1>1, <1>3, <1>4, <1>6, <2>1 DEF ProvidedInv, Provided
<1>9. TodoInv'
  BY <1>1, <1>3, <1>4 DEF TodoInv
<1>10. QED BY <1>1, <1>3, <1>5, <1>7, <1>8, <1>9, StillExecuting

(* The privileges after a statement.                                       *)
LEMMA Executed ==
    ASSUME ACLTypeOK, NEW s, NEW db, acl' = Execute(s, db)
    PROVE  /\ DOMAIN acl' = Catalogue
           /\ \A e \in Catalogue :
                 /\ e \notin Hit(s, db) => acl'[e] = acl[e]
                 /\ e \in Hit(s, db) /\ s.op = "grant" => acl'[e] = acl[e] \cup Expand(e, s.privs)
                 /\ e \in Hit(s, db) /\ s.op # "grant" => acl'[e] = acl[e] \ Expand(e, s.privs)
BY DEF Execute, Hit

(* It leaves the types in order.                                           *)
LEMMA ExecutedTypes ==
    ASSUME ACLTypeOK, NEW s, Typed(s), NEW db \in Sessions, acl' = Execute(s, db)
    PROVE  ACLTypeOK'
<1>1. ASSUME NEW e \in Catalogue
      PROVE  acl'[e] \subseteq PrivilegesOf(Kind(e))
  <2>1. CASE e \in Hit(s, db) /\ s.op = "grant"
    <3>1. Expand(e, s.privs) \subseteq PrivilegesOf(Kind(e))
      BY <2>1 DEF Typed
    <3>2. QED BY <2>1, <3>1, Executed DEF ACLTypeOK
  <2>2. CASE ~(e \in Hit(s, db) /\ s.op = "grant")
    <3>1. acl'[e] = acl[e] \/ acl'[e] = acl[e] \ Expand(e, s.privs)
      BY <2>2, Executed
    <3>2. acl[e] \subseteq PrivilegesOf(Kind(e))
      BY DEF ACLTypeOK
    <3>3. QED BY <3>1, <3>2
  <2>3. QED BY <2>1, <2>2
<1>2. QED BY <1>1, Executed DEF ACLTypeOK

(* A statement that is right gives and takes in the right place.           *)
LEMMA ExecutedInPlace ==
    ASSUME ACLTypeOK, NEW g, NEW s, NEW db, Typed(s), Right(g, s, db), acl' = Execute(s, db),
           NEW e \in Catalogue
    PROVE  /\ acl'[e] \ acl[e] \subseteq Asked(g, e)
           /\ acl[e] \cap Named(g, e) \subseteq acl'[e]
<1>1. CASE e \notin Hit(s, db)
  <2>1. acl'[e] = acl[e]
    BY <1>1, Executed
  <2>2. QED BY <2>1
<1>2. CASE e \in Hit(s, db) /\ s.op = "grant"
  <2>1. acl'[e] = acl[e] \cup Expand(e, s.privs) /\ Expand(e, s.privs) \subseteq Asked(g, e)
    BY <1>2, Executed DEF Right
  <2>2. QED BY <2>1
<1>3. CASE e \in Hit(s, db) /\ s.op = "revoke"
  <2>1. acl'[e] = acl[e] \ Expand(e, s.privs) /\ Expand(e, s.privs) \cap Named(g, e) = {}
    BY <1>3, Executed DEF Right
  <2>2. QED BY <2>1
<1>4. QED BY <1>1, <1>2, <1>3 DEF Typed

(* REVOKEs come first: a GRANT is executed when no REVOKE is left.         *)
LEMMA ReadyForms ==
    ASSUME NEW stmts, NEW s \in Ready(stmts)
    PROVE  s \in stmts /\ (s.op = "grant" => \A r \in stmts : r.op # "revoke")
BY DEF Ready

\* Provided, for the privileges a
ProvidedBy(a, g, stmts, e, db) ==
    \A p \in Asked(g, e) :
        \/ Changes(stmts, "grant", e, p, db)
        \/ p \in a[e] /\ ~Changes(stmts, "revoke", e, p, db)

(* What is provided for stays so, when a statement is executed.            *)
LEMMA ExecutedProvides ==
    ASSUME ACLTypeOK, NEW g, NEW stmts, NEW s \in Ready(stmts), Typed(s), NEW db,
           acl' = Execute(s, db), NEW e \in Catalogue, Provided(g, stmts, e, db)
    PROVE  ProvidedBy(acl', g, stmts \ {s}, e, db)
<1> DEFINE left == stmts \ {s}
<1>1. SUFFICES ASSUME NEW p \in Asked(g, e)
               PROVE  \/ Changes(left, "grant", e, p, db)
                      \/ p \in acl'[e] /\ ~Changes(left, "revoke", e, p, db)
  BY DEF ProvidedBy
<1>2. s \in stmts /\ (s.op = "grant" => \A r \in stmts : r.op # "revoke")
  BY ReadyForms
<1>3. \/ Changes(stmts, "grant", e, p, db)
      \/ p \in acl[e] /\ ~Changes(stmts, "revoke", e, p, db)
  BY <1>1 DEF Provided
<1>4. CASE Changes(left, "grant", e, p, db)
  BY <1>4
<1>5. CASE /\ s.op = "grant" /\ e \in Hit(s, db) /\ p \in Expand(e, s.privs)
  <2>1. p \in acl'[e]
    BY <1>5, Executed
  <2>2. ~Changes(left, "revoke", e, p, db)
    BY <1>2, <1>5 DEF Changes
  <2>3. QED BY <2>1, <2>2
<1>6. CASE p \in acl[e] /\ ~Changes(stmts, "revoke", e, p, db)
  <2>1. ~Changes(left, "revoke", e, p, db)
    BY <1>6 DEF Changes
  <2>2. p \in acl'[e]
    <3>1. CASE e \in Hit(s, db) /\ s.op = "revoke"
      <4>1. p \notin Expand(e, s.privs)
        BY <1>2, <1>6, <3>1 DEF Changes
      <4>2. QED BY <1>6, <3>1, <4>1, Executed
    <3>2. CASE ~(e \in Hit(s, db) /\ s.op = "revoke")
      <4>1. acl'[e] = acl[e] \/ acl'[e] = acl[e] \cup Expand(e, s.privs)
        BY <3>2, Executed DEF Typed
      <4>2. QED BY <1>6, <4>1
    <3>3. QED BY <3>1, <3>2
  <2>3. QED BY <2>1, <2>2
<1>7. Changes(stmts, "grant", e, p, db) =>
         \/ Changes(left, "grant", e, p, db)
         \/ s.op = "grant" /\ e \in Hit(s, db) /\ p \in Expand(e, s.privs)
  BY DEF Changes
<1>8. QED BY <1>3, <1>4, <1>5, <1>6, <1>7

(* A REVOKE that is not needed any more.                                   *)
LEMMA RevokedProvides ==
    ASSUME NEW g, NEW stmts, NEW s, s.op = "revoke", NEW e, NEW db, Provided(g, stmts, e, db),
           acl'[e] = acl[e]
    PROVE  ProvidedBy(acl', g, stmts \ {s}, e, db)
BY DEF Provided, ProvidedBy, Changes

\* one statement has been executed, or has failed
Done(s) ==
    LET d == worker.current
        left == worker.stmts[d] \ {s}
    IN  /\ worker'.pc = (IF left = {} THEN "execute" ELSE "apply")
        /\ worker'.current = d /\ worker'.spec = worker.spec
        /\ worker'.original = worker.original /\ worker'.lost = worker.lost
        /\ worker'.skipped = worker.skipped /\ worker'.touched = worker.touched
        /\ worker'.stmts = [worker.stmts EXCEPT ![d] = left]
        /\ worker'.todo = (IF left = {} THEN worker.todo \ {d} ELSE worker.todo)
        /\ worker'.failed \/ ~worker.failed
        /\ \/ acl' = Execute(s, Session)
           \/ acl' = acl /\ (worker'.failed \/ s.op # "grant")

(* What one statement does: the session stays, the statement leaves its    *)
(* set, and the privileges change as Done says.                            *)
LEMMA ExecuteStatementDoes ==
    ASSUME PoolInv, WorkerTypeOK, IdleBounded, ExecuteStatement
    PROVE  /\ Executing /\ worker.current \in worker.todo /\ Session \in Sessions
           /\ IdleBounded' /\ Session' = Session
           /\ \E s \in Ready(worker.stmts[worker.current]) : Done(s)
<1>1. /\ Working /\ DOMAIN worker = WorkerFields /\ get.pc = "have" /\ UNCHANGED get
      /\ Executing /\ worker.current \in worker.todo
  BY NoWorkerPc DEF ExecuteStatement, Executing, Working, WorkerTypeOK
<1> DEFINE d == worker.current
           Ended(left, failed) ==
               worker' = [worker EXCEPT !.stmts[d] = left, !.failed = @ \/ failed,
                                        !.pc = IF left = {} THEN "execute" ELSE "apply",
                                        !.todo = IF left = {} THEN @ \ {d} ELSE @]
<1>2. PICK s \in Ready(worker.stmts[d]) :
         \/ /\ Answer(Session)
            /\ acl' = IF Found(s, Session) THEN Execute(s, Session) ELSE acl
            /\ Ended(worker.stmts[d] \ {s}, s.op = "grant" /\ ~Found(s, Session))
         \/ Error /\ UNCHANGED acl /\ Ended(worker.stmts[d] \ {s}, TRUE)
  BY DEF ExecuteStatement
<1> DEFINE left == worker.stmts[d] \ {s}
<1>3. ASSUME NEW failed \in BOOLEAN, Ended(left, failed)
      PROVE  /\ worker'.pc = (IF left = {} THEN "execute" ELSE "apply")
             /\ worker'.current = d /\ worker'.spec = worker.spec
             /\ worker'.original = worker.original /\ worker'.lost = worker.lost
             /\ worker'.skipped = worker.skipped /\ worker'.touched = worker.touched
             /\ worker'.stmts = [worker.stmts EXCEPT ![d] = left]
             /\ worker'.todo = (IF left = {} THEN worker.todo \ {d} ELSE worker.todo)
             /\ worker'.failed <=> worker.failed \/ failed
  BY <1>1, <1>3 DEF WorkerFields
<1>4. /\ Session \in Sessions /\ IdleBounded' /\ Session' = Session
  <2>1. CASE Answer(Session)
    BY <1>1, <2>1, SessionTypes, AnsweredSession
  <2>2. CASE Error
    BY <1>1, <2>2, SessionTypes, SameSession DEF Error
  <2>3. QED BY <1>2, <2>1, <2>2
<1>5. Done(s)
  <2>1. CASE /\ acl' = IF Found(s, Session) THEN Execute(s, Session) ELSE acl
             /\ Ended(left, s.op = "grant" /\ ~Found(s, Session))
    <3> DEFINE failed == s.op = "grant" /\ ~Found(s, Session)
    <3>1. failed \in BOOLEAN /\ Ended(left, failed)
      BY <2>1
    <3>2. \/ acl' = Execute(s, Session)
          \/ acl' = acl /\ (failed \/ s.op # "grant")
      BY <2>1
    <3> HIDE DEF failed, Ended
    <3>3. QED BY <1>3, <3>1, <3>2 DEF Done
  <2>2. CASE UNCHANGED acl /\ Ended(left, TRUE)
    <3> HIDE DEF Ended
    <3>1. QED BY <1>3, <2>2 DEF Done
  <2>3. QED BY <1>2, <2>1, <2>2
<1>6. QED BY <1>1, <1>2, <1>4, <1>5

(* A statement executed in the database it is for keeps what is known.     *)
LEMMA ExecuteStatementKnows ==
    ASSUME DataOK, Known, PoolInv, WorkerTypeOK, IdleBounded, ExecuteStatement
    PROVE  Known' /\ ACLTypeOK'
<1> DEFINE d == worker.current
<1>1. /\ d \in worker.todo /\ Session \in Sessions /\ Session' = Session /\ Executing
  BY ExecuteStatementDoes
<1>2. PICK s \in Ready(worker.stmts[d]) : Done(s)
  BY ExecuteStatementDoes
<1> DEFINE left == worker.stmts[d] \ {s}
<1>3. /\ worker'.pc = (IF left = {} THEN "execute" ELSE "apply")
      /\ worker'.current = d /\ worker'.spec = worker.spec
      /\ worker'.original = worker.original /\ worker'.lost = worker.lost
      /\ worker'.skipped = worker.skipped /\ worker'.touched = worker.touched
      /\ worker'.stmts = [worker.stmts EXCEPT ![d] = left]
      /\ worker'.todo = (IF left = {} THEN worker.todo \ {d} ELSE worker.todo)
      /\ worker'.failed \/ ~worker.failed
      /\ \/ acl' = Execute(s, Session)
         \/ acl' = acl /\ (worker'.failed \/ s.op # "grant")
  BY <1>2 DEF Done
<1>4. /\ PlaceInv /\ StatementsInv /\ ProvidedInv /\ TodoInv /\ ~Collecting
      /\ worker.spec \in Grants /\ ACLTypeOK
  BY <1>1, ExecutingKnows, NoWorkerPc DEF Known, ReconcileInv, Executing, Working, DataOK
<1>5. d \in DOMAIN worker.stmts /\ s \in worker.stmts[d]
  BY <1>1, <1>2, <1>4, ReadyForms DEF TodoInv
<1>6. Typed(s)
  BY <1>1, <1>4, <1>5 DEF StatementsInv
<1>7. ACLTypeOK'
  <2>1. CASE acl' = Execute(s, Session)
    BY <1>1, <1>4, <1>6, <2>1, ExecutedTypes
  <2>2. CASE acl' = acl
    BY <1>4, <2>2 DEF ACLTypeOK
  <2>3. QED BY <1>3, <2>1, <2>2
<1>8. /\ Executing' /\ ~Collecting' /\ SnapshotInv' /\ SyncedMeansGranted'
      /\ \A e : Home(e)' = Home(e)
  BY <1>3, <1>4, StillExecuting DEF Home
<1>9. /\ DOMAIN worker'.stmts = DOMAIN worker.stmts /\ worker'.stmts[d] = left
      /\ \A x \in DOMAIN worker.stmts : x # d => worker'.stmts[x] = worker.stmts[x]
  BY <1>3, <1>5
<1>10. PlaceInv'
  <2>1. worker'.pc \in {"fetch", "apply"} => d \in worker'.todo
    BY <1>1, <1>3
  <2>2. QED BY <1>1, <1>3, <1>4, <2>1 DEF PlaceInv
<1>11. StatementsInv'
  <2>1. SUFFICES ASSUME NEW x \in DOMAIN worker.stmts, NEW r \in worker'.stmts[x]
                 PROVE  /\ Typed(r)
                        /\ ~worker.lost => /\ Right(worker.spec, r, x)
                                           /\ \A e \in Hit(r, x) : Home(e) = x
    BY <1>3, <1>8, <1>9 DEF StatementsInv
  <2>2. r \in worker.stmts[x]
    BY <1>9, <2>1
  <2>3. QED BY <1>1, <1>4, <2>2 DEF StatementsInv
<1>12. TodoInv'
  <2>1. worker.todo \subseteq DOMAIN worker.stmts
    BY <1>1, <1>4 DEF TodoInv
  <2>2. ASSUME ~worker'.failed, NEW x \in DOMAIN worker.stmts, x \notin worker'.todo
        PROVE  worker'.stmts[x] = {}
    <3>1. CASE x = d
      BY <1>1, <1>3, <1>9, <2>2, <3>1
    <3>2. CASE x # d
      <4>1. x \notin worker.todo
        BY <1>3, <2>2, <3>2
      <4>2. QED BY <1>1, <1>3, <1>4, <1>9, <2>2, <3>2, <4>1 DEF TodoInv
    <3>3. QED BY <3>1, <3>2
  <2>3. worker'.todo \subseteq DOMAIN worker.stmts
    BY <1>3, <2>1
  <2>4. QED BY <1>9, <2>2, <2>3 DEF TodoInv
<1>13. ProvidedInv'
  <2>1. SUFFICES ASSUME ~Disturbed', NEW e \in Catalogue, Reachable(e)
                 PROVE  /\ Home(e) \in DOMAIN worker.stmts
                        /\ ProvidedBy(acl', worker.spec, worker'.stmts[Home(e)], e, Home(e))
    BY <1>3, <1>8, <1>9 DEF ProvidedInv, Provided, ProvidedBy
  <2>2. ~Disturbed /\ ~worker.lost /\ ~worker'.failed
    BY <1>3, <2>1 DEF Disturbed
  <2> DEFINE h == Home(e)
             g == worker.spec
  <2>3. h \in DOMAIN worker.stmts /\ Provided(g, worker.stmts[h], e, h)
    BY <1>1, <1>4, <2>1, <2>2 DEF ProvidedInv
  <2>4. Session = d
    BY <1>1, <1>4, <2>2 DEF PlaceInv
  <2>5. \A c \in Hit(s, d) : Home(c) = d
    BY <1>1, <1>4, <1>5, <2>2 DEF StatementsInv
  <2>6. acl' = Execute(s, d) \/ (acl' = acl /\ s.op = "revoke")
    BY <1>3, <1>6, <2>2, <2>4 DEF Typed
  <2>7. CASE h # d
    <3>1. e \notin Hit(s, d)
      BY <2>5, <2>7
    <3>2. acl'[e] = acl[e]
      BY <1>4, <2>6, <3>1, Executed
    <3>3. worker'.stmts[h] = worker.stmts[h]
      BY <1>9, <2>3, <2>7
    <3>4. QED BY <2>3, <3>2, <3>3 DEF Provided, ProvidedBy
  <2>8. CASE h = d
    <3> DEFINE stmts == worker.stmts[d]
    <3>1. Provided(g, stmts, e, d) /\ s \in Ready(stmts)
      BY <1>2, <2>3, <2>8
    <3>2. worker'.stmts[h] = stmts \ {s}
      BY <1>9, <2>8
    <3> HIDE DEF stmts, h, g, d
    <3>3. ProvidedBy(acl', g, stmts \ {s}, e, d)
      <4>1. CASE acl' = Execute(s, d)
        BY <1>4, <1>6, <3>1, <4>1, ExecutedProvides
      <4>2. CASE acl' = acl /\ s.op = "revoke"
        BY <3>1, <4>2, RevokedProvides
      <4>3. QED BY <2>6, <4>1, <4>2
    <3>4. QED BY <2>3, <2>8, <3>2, <3>3 DEF h, g
  <2>9. QED BY <2>7, <2>8
<1>14. QED BY <1>3, <1>4, <1>7, <1>10, <1>11, <1>12, <1>13, StillExecuting

(* All statements are executed, or given up.                               *)
LEMMA SwitchBackKnows ==
    ASSUME Known, WorkerTypeOK, SwitchBack
    PROVE  Known'
<1>1. /\ Working /\ DOMAIN worker = WorkerFields /\ UNCHANGED acl
      /\ worker.pc = "execute" /\ worker.todo = {} /\ Executing /\ worker.spec \in Grants
      /\ worker' = [worker EXCEPT !.pc = "done"]
  BY NoWorkerPc DEF SwitchBack, Working, WorkerTypeOK, Executing, Known, ReconcileInv, Goto
<1>2. /\ worker'.pc = "done" /\ worker'.spec = worker.spec /\ worker'.lost = worker.lost
      /\ worker'.skipped = worker.skipped /\ worker'.touched = worker.touched
      /\ worker'.failed = worker.failed
  BY <1>1 DEF WorkerFields
<1>3. ~Collecting' /\ ~Executing' /\ SnapshotInv'
  BY <1>2 DEF Collecting, Executing, SnapshotInv
<1>4. SyncedMeansGranted'
  <2>1. SUFFICES ASSUME ~Disturbed, NEW e \in Catalogue, Reachable(e), NEW p \in Asked(worker.spec, e)
                 PROVE  p \in acl[e]
    BY <1>1, <1>2 DEF SyncedMeansGranted, Disturbed
  <2>2. /\ Home(e) \in DOMAIN worker.stmts
        /\ Provided(worker.spec, worker.stmts[Home(e)], e, Home(e))
    BY <1>1, <2>1, ExecutingKnows DEF ProvidedInv
  <2>3. worker.stmts[Home(e)] = {}
    BY <1>1, <2>1, <2>2, ExecutingKnows DEF TodoInv, Disturbed
  <2>4. QED BY <2>1, <2>2, <2>3 DEF Provided, Changes
<1>5. QED BY <1>1, <1>2, <1>3, <1>4 DEF Known, ReconcileInv, PlaceInv, StatementsInv,
                                        ProvidedInv, TodoInv

-----------------------------------------------------------------------------
(* All steps.                                                              *)

SyncTypes == PoolInv /\ WorkerTypeOK /\ IdleBounded /\ DataOK

(* A step of a reconcile sends at most one request, and changes privileges *)
(* by a statement only.                                                    *)
LEMMA SyncRequests ==
    ASSUME PoolInv, WorkerTypeOK, Sync
    PROVE  /\ \/ \E s \in Sessions : get.pc = "have" /\ Answer(s)
              \/ UNCHANGED handles
           /\ UNCHANGED spec
           /\ ExecuteStatement \/ UNCHANGED acl
<1>1. CASE Begin
  BY <1>1 DEF Begin, poolVars
<1>2. CASE worker.pc # "idle"
  <2>1. get.pc = "have"
    BY <1>2, NoWorkerPc DEF WorkerTypeOK, Working
  <2>2. Session \in Sessions /\ \A d : CanSwitch(d) => d \in Sessions
    BY <2>1, SessionTypes
  <2>3. CASE FetchSnapshot
    BY <2>1, <2>2, <2>3 DEF FetchSnapshot, Error, Rest
  <2>4. CASE getCurrentDatabase
    BY <2>1, <2>2, <2>4 DEF getCurrentDatabase, Error, Rest
  <2>5. CASE SwitchForSchemas
    BY <2>1, <2>2, <2>5 DEF SwitchForSchemas, Error, Rest
  <2>6. CASE FetchSchemas
    BY <2>1, <2>2, <2>6 DEF FetchSchemas, Error, Rest
  <2>7. CASE SwitchForExecution
    BY <2>1, <2>2, <2>7 DEF SwitchForExecution, Error, Rest
  <2>8. CASE ExecuteStatement
    BY <2>1, <2>2, <2>8 DEF ExecuteStatement, Error, Rest
  <2>9. CASE SwitchBack
    <3>1. worker.original \in Sessions
      BY <2>9 DEF SwitchBack, WorkerTypeOK
    <3>2. QED BY <2>1, <2>9, <3>1 DEF SwitchBack, Error, Rest
  <2>10. CASE End
    BY <2>10 DEF End, Rest
  <2>11. CASE Begin
    BY <1>1, <2>11
  <2>12. QED BY <2>3, <2>4, <2>5, <2>6, <2>7, <2>8, <2>9, <2>10, <2>11 DEF Sync
<1>3. CASE worker.pc = "idle"
  BY <1>1, <1>3 DEF Sync, FetchSnapshot, getCurrentDatabase, SwitchForSchemas, FetchSchemas,
                    SwitchForExecution, ExecuteStatement, SwitchBack, End
<1>4. QED BY <1>2, <1>3

(* A request keeps the idle connections within their bound.                *)
LEMMA BoundSync ==
    ASSUME PoolInv, WorkerTypeOK, IdleBounded, Sync
    PROVE  IdleBounded'
<1>1. CASE UNCHANGED handles
  BY <1>1 DEF IdleBounded
<1>2. ASSUME NEW s \in Sessions, get.pc = "have", Answer(s)
      PROVE  IdleBounded'
  <2> DEFINE q == GivenBack(Left(H), s)
  <2>1. H \in 1 .. Len(handles) /\ handles' = [handles EXCEPT ![H].idle = q]
    BY <1>2, HandlesIn DEF H, Answer, Answered
  <2>2. Len(q) <= MaxIdleConns
    BY <2>1, GivenBackBound
  <2> HIDE DEF q
  <2>3. QED BY <2>1, <2>2, BoundSetIdle
<1>3. QED BY <1>1, <1>2, SyncRequests

(* Every step of a reconcile keeps what is known.                          *)
LEMMA SyncKnows ==
    ASSUME Unambiguous, SyncTypes, Known, Sync
    PROVE  Known' /\ DataOK'
<1> USE DEF SyncTypes
<1>1. spec' \in Grants
  BY SyncRequests DEF DataOK
<1>2. CASE ExecuteStatement
  BY <1>1, <1>2, ExecuteStatementKnows DEF DataOK
<1>3. CASE UNCHANGED acl
  <2>1. DataOK'
    BY <1>1, <1>3 DEF DataOK, ACLTypeOK
  <2>2. CASE End
    <3>1. worker' = NoWorker
      BY <2>2 DEF End, Return
    <3>2. Known'
      BY <3>1, IdleIsKnown
    <3>3. QED BY <2>1, <3>2
  <2>3. Known'
    <3>1. CASE Begin
      BY <3>1, BeginKnows
    <3>2. CASE FetchSnapshot
      BY <3>2, FetchSnapshotKnows
    <3>3. CASE getCurrentDatabase
      BY <3>3, getCurrentDatabaseKnows
    <3>4. CASE SwitchForSchemas
      BY <3>4, SwitchForSchemasKnows
    <3>5. CASE FetchSchemas
      BY <3>5, FetchSchemasKnows
    <3>6. CASE SwitchForExecution
      BY <3>6, SwitchForExecutionKnows
    <3>7. CASE SwitchBack
      BY <3>7, SwitchBackKnows
    <3>8. QED
      BY <1>2, <2>2, <3>1, <3>2, <3>3, <3>4, <3>5, <3>6, <3>7 DEF Sync
  <2>4. QED BY <2>1, <2>3
<1>4. QED BY <1>2, <1>3, SyncRequests

(* Get, while there is no reconcile.                                       *)
LEMMA PoolGetKnows ==
    ASSUME SyncTypes, PoolGet
    PROVE  Known' /\ DataOK'
<1>1. get.pc # "have" /\ UNCHANGED <<worker, spec, acl>>
  BY DEF PoolGet, Get, Ping, Open, OpenFails, NoCall, syncVars
<1>2. worker' = NoWorker
  BY <1>1 DEF SyncTypes, WorkerTypeOK, Working
<1>3. Known'
  BY <1>2, IdleIsKnown
<1>4. QED BY <1>1, <1>3 DEF SyncTypes, DataOK, ACLTypeOK

(* So do the health checker, the cleaner and time; a connection they close *)
(* loses the session.                                                      *)
LEMMA PoolRestKnows ==
    ASSUME SyncTypes, Known, PoolRest
    PROVE  Known' /\ DataOK'
<1>1. UNCHANGED <<get, spec, acl>>
  BY DEF PoolRest, Checker, HealthCheck, CheckPing, Remove, Close, cleanupStaleConnections, Age
<1>2. DataOK'
  BY <1>1 DEF SyncTypes, DataOK, ACLTypeOK
<1>3. CASE Working /\ handles' # handles
  BY <1>1, <1>2, <1>3, LostIsKnown DEF PoolRest, SyncTypes
<1>4. CASE handles' = handles
  BY <1>1, <1>2, <1>4, SameIsKnown DEF PoolRest
<1>5. CASE ~Working
  <2>1. worker' = NoWorker
    BY <1>5 DEF PoolRest, Working
  <2>2. QED BY <1>2, <2>1, IdleIsKnown
<1>6. QED BY <1>3, <1>4, <1>5

(* And the edits of the grants and the changes others make.                *)
LEMMA OthersKnow ==
    ASSUME SyncTypes, Known, EditGrants \/ OutsideChange
    PROVE  Known' /\ DataOK'
<1>1. CASE EditGrants
  <2>1. UNCHANGED <<worker, acl, handles, get>> /\ spec' \in Grants
    BY <1>1 DEF EditGrants
  <2>2. Known'
    BY <2>1, SameIsKnown
  <2>3. QED BY <2>1, <2>2 DEF SyncTypes, DataOK, ACLTypeOK
<1>2. CASE OutsideChange
  <2>1. UNCHANGED <<handles, get, spec>>
    BY <1>2 DEF OutsideChange
  <2>2. PICK e \in Catalogue : \E p \in PrivilegesOf(Kind(e)) :
           acl' = [acl EXCEPT ![e] = IF p \in @ THEN @ \ {p} ELSE @ \cup {p}]
    BY <1>2 DEF OutsideChange
  <2>3. PICK p \in PrivilegesOf(Kind(e)) :
           acl' = [acl EXCEPT ![e] = IF p \in @ THEN @ \ {p} ELSE @ \cup {p}]
    BY <2>2
  <2>4. DataOK'
    <3>1. DOMAIN acl = Catalogue /\ \A x \in Catalogue : acl[x] \subseteq PrivilegesOf(Kind(x))
      BY DEF SyncTypes, DataOK, ACLTypeOK
    <3>2. DOMAIN acl' = Catalogue /\ \A x \in Catalogue : x # e => acl'[x] = acl[x]
      BY <2>3, <3>1
    <3>3. acl'[e] = acl[e] \ {p} \/ acl'[e] = acl[e] \cup {p}
      BY <2>3, <3>1
    <3>4. acl'[e] \subseteq PrivilegesOf(Kind(e))
      BY <2>3, <3>1, <3>3
    <3>5. QED BY <2>1, <3>1, <3>2, <3>4 DEF SyncTypes, DataOK, ACLTypeOK
  <2>5. Known'
    <3>1. CASE Working
      BY <1>2, <2>1, <3>1, TouchedIsKnown DEF OutsideChange, SyncTypes
    <3>2. CASE ~Working
      <4>1. worker' = NoWorker
        BY <1>2, <3>2 DEF OutsideChange, Working
      <4>2. QED BY <4>1, IdleIsKnown
    <3>3. QED BY <3>1, <3>2
  <2>6. QED BY <2>4, <2>5
<1>3. QED BY <1>1, <1>2

(* SyncInv is what is inductive.                                           *)
LEMMA SyncInvParts == SyncInv <=> SyncTypes /\ Known
BY DEF SyncInv, TypeOK, SyncTypes, Known, PoolInv, IdleBounded, DataOK, ACLTypeOK

(* It holds initially.                                                     *)
LEMMA SyncInitially == Init => SyncTypes /\ Known
<1> SUFFICES ASSUME Init PROVE SyncTypes /\ Known
  OBVIOUS
<1>1. worker = NoWorker /\ PoolInv
  BY PoolInitially DEF Init
<1>2. worker.pc = "idle" /\ ~Working /\ ~Collecting /\ ~Executing
  BY <1>1, NoWorkerPc DEF Working, Collecting, Executing
<1>3. WorkerTypeOK /\ Known
  BY <1>2 DEF WorkerTypeOK, Known, ReconcileInv, SyncedMeansGranted, SnapshotInv, PlaceInv,
              StatementsInv, ProvidedInv, TodoInv
<1>4. DataOK
  BY FirstACLsAssumption DEF Init, DataOK, ACLTypeOK
<1>5. IdleBounded
  <2>1. CASE handles = <<>>
    BY <2>1 DEF IdleBounded
  <2>2. ASSUME NEW db \in Sessions, handles = <<[open |-> TRUE, stale |-> TRUE, idle |-> <<db>>]>>
        PROVE  IdleBounded
    <3>1. DOMAIN handles = {1} /\ handles[1].idle = <<db>>
      BY <2>2
    <3>2. Len(<<db>>) = 1 /\ 1 <= MaxIdleConns
      BY PoolAssumption
    <3>3. QED BY <3>1, <3>2 DEF IdleBounded
  <2>3. QED BY <2>1, <2>2 DEF Init, PoolInit
<1>6. QED BY <1>1, <1>3, <1>4, <1>5 DEF SyncTypes

(* And every step preserves it.                                            *)
LEMMA SyncInvStep ==
    ASSUME Unambiguous, SyncTypes, Known, [Next]_vars
    PROVE  SyncTypes' /\ Known'
<1>1. PoolInv' /\ WorkerTypeOK'
  BY PoolStep DEF SyncTypes
<1>2. CASE UNCHANGED vars
  <2>1. UNCHANGED <<worker, spec, acl, handles, get>>
    BY <1>2 DEF vars, poolVars, syncVars
  <2>2. Known'
    BY <2>1, SameIsKnown
  <2>3. QED BY <1>1, <2>1, <2>2 DEF SyncTypes, IdleBounded, DataOK, ACLTypeOK
<1>3. CASE PoolGet
  <2>1. IdleBounded'
    BY <1>3, BoundGet DEF PoolGet, SyncTypes
  <2>2. QED BY <1>1, <1>3, <2>1, PoolGetKnows DEF SyncTypes
<1>4. CASE PoolRest
  <2>1. IdleBounded'
    BY <1>4, BoundRest DEF PoolRest, SyncTypes
  <2>2. QED BY <1>1, <1>4, <2>1, PoolRestKnows DEF SyncTypes
<1>5. CASE Sync
  <2>1. IdleBounded'
    BY <1>5, BoundSync DEF SyncTypes
  <2>2. QED BY <1>1, <1>5, <2>1, SyncKnows DEF SyncTypes
<1>6. CASE EditGrants \/ OutsideChange
  <2>1. IdleBounded'
    BY <1>6 DEF EditGrants, OutsideChange, IdleBounded, SyncTypes
  <2>2. QED BY <1>1, <1>6, <2>1, OthersKnow DEF SyncTypes
<1>7. QED BY <1>2, <1>3, <1>4, <1>5, <1>6 DEF Next

(* For any databases, grants and privileges and any number of incidents,   *)
(* as long as names are unambiguous: a reconcile that reports success has  *)
(* granted what it was asked for, and on the way its session is where it   *)
(* believes it to be and every statement is right where it is executed.    *)
THEOREM SyncInvariant == Unambiguous => (Spec => []SyncInv)
<1> SUFFICES ASSUME Unambiguous PROVE Spec => []SyncInv
  OBVIOUS
<1>1. Init => SyncTypes /\ Known
  BY SyncInitially
<1>2. (SyncTypes /\ Known) /\ [Next]_vars => (SyncTypes /\ Known)'
  BY SyncInvStep
<1>3. SyncTypes /\ Known => SyncInv
  BY SyncInvParts
<1>4. QED BY <1>1, <1>2, <1>3, PTL DEF Spec

(* Only a statement changes the statements that are left to execute, and   *)
(* it is executed in the database that it was collected for.               *)
LEMMA RightPlaceStep ==
    ASSUME SyncInv, [Next]_vars, Executing, ~worker.lost, worker'.stmts # worker.stmts,
           NEW e \in Catalogue
    PROVE  /\ acl'[e] \ acl[e] \subseteq Asked(worker.spec, e)
           /\ acl[e] \cap Named(worker.spec, e) \subseteq acl'[e]
<1>1. SyncTypes /\ Known /\ worker.pc \in {"execute", "apply"}
  BY SyncInvParts DEF Executing
<1>2. PoolInv /\ WorkerTypeOK /\ IdleBounded /\ ACLTypeOK
      /\ Working /\ DOMAIN worker = WorkerFields /\ get.pc = "have"
  BY <1>1, NoWorkerPc DEF SyncTypes, DataOK, WorkerTypeOK, Working
<1>3. ExecuteStatement
  <2>1. worker' # worker
    OBVIOUS
  <2>2. CASE PoolRest \/ OutsideChange
    BY <1>2, <2>1, <2>2 DEF PoolRest, OutsideChange, WorkerFields
  <2>3. CASE PoolGet \/ EditGrants \/ UNCHANGED vars
    BY <2>1, <2>3 DEF PoolGet, EditGrants, vars, syncVars
  <2>4. CASE SwitchForExecution
    BY <1>2, <2>4 DEF SwitchForExecution, GivenUp, WorkerFields
  <2>5. CASE SwitchBack
    BY <1>2, <2>5 DEF SwitchBack, Goto, WorkerFields
  <2>6. QED
    BY <1>1, <1>2, <2>2, <2>3, <2>4, <2>5
       DEF Next, Sync, Begin, FetchSnapshot, getCurrentDatabase, SwitchForSchemas, FetchSchemas, End
<1> DEFINE d == worker.current
<1>4. PICK s \in Ready(worker.stmts[d]) : Done(s)
  BY <1>2, <1>3, ExecuteStatementDoes
<1>5. d \in worker.todo
  BY <1>2, <1>3, ExecuteStatementDoes
<1>6. Session = d /\ d \in DOMAIN worker.stmts /\ s \in worker.stmts[d]
  BY <1>1, <1>4, <1>5, ExecutingKnows, ReadyForms DEF PlaceInv, TodoInv
<1>7. Typed(s) /\ Right(worker.spec, s, d)
  BY <1>1, <1>6, ExecutingKnows DEF StatementsInv
<1>8. acl' = Execute(s, d) \/ acl' = acl
  BY <1>4, <1>6 DEF Done
<1> HIDE DEF d
<1>9. CASE acl' = Execute(s, d)
  BY <1>2, <1>7, <1>9, ExecutedInPlace
<1>10. CASE acl' = acl
  BY <1>10
<1>11. QED BY <1>8, <1>9, <1>10

(* For any databases, grants and privileges and any number of incidents,   *)
(* as long as names are unambiguous: while no connection comes or goes     *)
(* beside it, a reconcile gives nothing that is not asked for and takes    *)
(* nothing that is asked for by name.                                      *)
THEOREM PrivilegesInPlace == Unambiguous => (Spec => RightPlace)
<1> SUFFICES ASSUME Unambiguous PROVE Spec => RightPlace
  OBVIOUS
<1> DEFINE Step == worker.pc \in {"execute", "apply"} /\ ~worker.lost /\ worker'.stmts # worker.stmts =>
          \A e \in {x \in Catalogue : Reachable(x)} :
              /\ acl'[e] \ acl[e] \subseteq Asked(worker.spec, e)
              /\ acl[e] \cap Named(worker.spec, e) \subseteq acl'[e]
<1>1. SyncInv /\ [Next]_vars => [Step]_vars
  BY RightPlaceStep DEF Executing
<1>2. Spec => []SyncInv
  BY SyncInvariant
<1>3. QED BY <1>1, <1>2, PTL DEF Spec, RightPlace
=============================================================================
