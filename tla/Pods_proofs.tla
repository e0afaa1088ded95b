--------------------------- MODULE Pods_proofs ----------------------------
(***************************************************************************)
(* Proofs about the two controllers of Pods: the labeler, for any meta     *)
(* Pods and any number of elections, replaced Pods and failing requests,   *)
(* and the update strategy, for any finite number of Pods, any templates   *)
(* and any number of changes, failing requests and restarts.               *)
(***************************************************************************)
EXTENDS MetaPodRoleLabeler, ComputeUpdateStrategy, FiniteSetTheorems, TLAPS

-----------------------------------------------------------------------------
(* The labels of the meta Pods.                                            *)

PollIsBusy == poll \in Polls /\ poll # NoPoll

(* A poll that is not idle has all its fields.                             *)
LEMMA Busy ==
    ASSUME LabelerTypeOK, poll # NoPoll \/ poll.pc # "idle"
    PROVE  PollIsBusy
BY DEF LabelerTypeOK, Polls, NoPoll, PollIsBusy

(* A poll in flight is not the idle one.                                   *)
LEMMA PollIsNotNoPoll == \A p \in Polls : p # NoPoll
BY DEF Polls, NoPoll

(* The next Pod of a poll, or its end, typed.                              *)
LEMMA ContinueTyped ==
    ASSUME LabelerTypeOK, PollIsBusy, NEW good \in BOOLEAN,
           NEW rest \in SUBSET [pod : MetaPods, inc : Nat, known : Labels],
           Continue(rest, good)
    PROVE  /\ poll' \in Polls \cup {NoPoll} /\ settled' \subseteq MetaPods
           /\ poll' # NoPoll => poll'.for = poll.for
<1>1. poll \in Polls /\ poll.for \in MetaPods /\ settled \subseteq MetaPods
  BY DEF PollIsBusy, Polls, LabelerTypeOK
<1>2. settled' \subseteq MetaPods
  BY <1>1 DEF Continue
<1>3. CASE rest = {}
  BY <1>2, <1>3 DEF Continue
<1>4. CASE rest # {}
  <2>1. PICK other \in rest, counts \in BOOLEAN :
           poll' = [poll EXCEPT !.pc = "ask", !.pod = other.pod, !.inc = other.inc,
                                !.known = other.known, !.rest = rest \ {other},
                                !.counts = counts]
    BY <1>1, <1>4 DEF Continue, Polls
  <2>2. other.pod \in MetaPods /\ other.inc \in Nat /\ other.known \in Labels
    OBVIOUS
  <2>3. poll' \in Polls /\ poll'.for = poll.for
    BY <1>1, <2>1, <2>2 DEF Polls
  <2>4. QED BY <1>2, <2>3
<1>5. QED BY <1>3, <1>4

(* When a Pod is done with, what holds of the labels goes on to hold: of   *)
(* the Pods that count as polled, and of the Pod polled, if it is to count.*)
LEMMA ContinueStep ==
    ASSUME LabelerTypeOK, PollIsBusy, PollsCatchUp, PollCounts, NEW good \in BOOLEAN,
           NEW rest \in SUBSET [pod : MetaPods, inc : Nat, known : Labels],
           Continue(rest, good), UNCHANGED <<view, metaCache>>,
           \A p \in MetaPods : metaPods'[p].inc = metaPods[p].inc,
           \A p \in settled : good \/ p # poll.pod => metaPods'[p].label = view[p],
           \A copy \in rest : /\ copy.pod # poll.for
                              /\ copy.pod \in settled => copy.inc = metaPods[copy.pod].inc,
           poll.counts /\ (good \/ poll.pod # poll.for)
              => metaPods'[poll.for].label = view[poll.for]
    PROVE  PolledStaysRight' /\ PollsCatchUp' /\ PatchesRight' /\ PollCounts'
<1> DEFINE counts == poll.counts /\ (good \/ poll.pod # poll.for)
           done == IF good THEN settled ELSE settled \ {poll.pod}
<1>1. poll \in Polls /\ poll.for \in MetaPods /\ settled \subseteq MetaPods
      /\ counts \in BOOLEAN
  BY DEF PollIsBusy, Polls, LabelerTypeOK
<1>2. \A p \in MetaPods : CaughtUp(p)' = CaughtUp(p)
  BY DEF CaughtUp, Running
<1>3. /\ \A p \in settled : CaughtUp(p)
      /\ counts => CaughtUp(poll.for)
  BY DEF PollsCatchUp, PollCounts, PollIsBusy
<1>4. \A p \in done : p \in settled /\ metaPods'[p].label = view[p]
  OBVIOUS
<1>5. CASE rest = {}
  <2>1. poll' = NoPoll /\ settled' = IF counts THEN done \cup {poll.for} ELSE done
    BY <1>5 DEF Continue
  <2>2. PolledStaysRight'
    BY <1>4, <2>1 DEF PolledStaysRight
  <2>3. \A p \in settled' : CaughtUp(p)'
    BY <1>1, <1>2, <1>3, <1>4, <2>1
  <2>4. QED BY <2>1, <2>2, <2>3 DEF PollsCatchUp, PatchesRight, PollCounts
<1>6. CASE rest # {}
  <2>1. PICK other \in rest :
           poll' = [poll EXCEPT !.pc = "ask", !.pod = other.pod, !.inc = other.inc,
                                !.known = other.known, !.rest = rest \ {other},
                                !.counts = counts]
    BY <1>6 DEF Continue
  <2>2. settled' = done
    BY <1>6 DEF Continue
  <2>3. /\ poll'.pc = "ask" /\ poll'.pod = other.pod /\ poll'.inc = other.inc
        /\ poll'.for = poll.for /\ poll'.rest = rest \ {other} /\ poll'.counts = counts
    BY <1>1, <2>1 DEF Polls
  <2>4. PolledStaysRight'
    BY <1>4, <2>2 DEF PolledStaysRight
  <2>5. \A p \in settled' : CaughtUp(p)'
    BY <1>1, <1>2, <1>3, <1>4, <2>2
  <2>6. PollsCatchUp'
    BY <1>1, <1>4, <2>2, <2>3, <2>5 DEF PollsCatchUp
  <2>7. PatchesRight' /\ PollCounts'
    BY <1>1, <1>2, <1>3, <2>3 DEF PatchesRight, PollCounts
  <2>8. QED BY <2>4, <2>6, <2>7
<1>7. QED BY <1>5, <1>6

(* The Pods to go on with: those labelled leader in the cache, after the   *)
(* poll has found a new one.                                               *)
LEMMA NextPods ==
    ASSUME LabelerTypeOK, PollIsBusy, PollsCatchUp, NEW role,
           NEW rest, rest = IF NewLeader(role) THEN LabelledLeader ELSE poll.rest
    PROVE  /\ rest \in SUBSET [pod : MetaPods, inc : Nat, known : Labels]
           /\ \A copy \in rest : /\ copy.pod # poll.for
                                 /\ copy.pod \in settled => copy.inc = metaPods[copy.pod].inc
<1>1. CASE rest = poll.rest
  BY <1>1 DEF PollIsBusy, Polls, PollsCatchUp
<1>2. CASE rest = LabelledLeader
  <2>1. ASSUME NEW copy \in rest
        PROVE  /\ copy \in [pod : MetaPods, inc : Nat, known : Labels]
               /\ copy.pod # poll.for
               /\ copy.pod \in settled => copy.inc = metaPods[copy.pod].inc
    <3>1. PICK q \in MetaPods \ {poll.for} :
             copy = [pod |-> q, inc |-> metaCache[q].inc, known |-> metaCache[q].label]
      BY <1>2 DEF LabelledLeader
    <3>2. metaCache[q].inc \in Nat /\ metaCache[q].label \in Labels
      BY DEF LabelerTypeOK, Copies
    <3>3. QED BY <3>1, <3>2 DEF PollsCatchUp, CaughtUp
  <2>2. QED BY <2>1
<1>3. QED BY <1>1, <1>2

(* getMetaRole: the answer is the role of the node as it is, or unknown,   *)
(* which unsettles.                                                        *)
LEMMA GetMetaRoleStep ==
    ASSUME LabelerInv, getMetaRole
    PROVE  LabelerInv'
<1> USE DEF LabelerInv
<1>1. PollIsBusy /\ poll.pc = "ask"
  BY Busy DEF getMetaRole
<1>2. /\ poll \in Polls /\ poll.for \in MetaPods /\ poll.pod \in MetaPods
      /\ poll.counts \in BOOLEAN /\ poll # NoPoll /\ settled \subseteq MetaPods
  BY <1>1 DEF PollIsBusy, Polls, LabelerTypeOK
<1> DEFINE there == metaPods[poll.pod].inc = poll.inc /\ Running(poll.pod)
           Asked(answered) == IF answered THEN view[poll.pod] ELSE "unknown"
<1>3. PICK answered \in BOOLEAN :
         /\ answered => there
         /\ IF answered \/ ~there THEN UNCHANGED troubles ELSE Trouble
         /\ IF Asked(answered) = poll.known THEN Synced(Asked(answered), answered \/ ~there)
            ELSE /\ poll' = [poll EXCEPT !.pc = "patch", !.role = Asked(answered),
                                 !.counts = @ /\ (answered \/ ~there \/ poll.pod # poll.for)]
                 /\ settled' = IF answered \/ ~there THEN settled ELSE settled \ {poll.pod}
  BY DEF getMetaRole
<1> DEFINE good == answered \/ ~there
           role == Asked(answered)
<1>4. UNCHANGED <<leader, view, metaPods, metaCache, polling>>
  BY DEF getMetaRole
<1>5. troubles' \in 0 .. MaxTroubles
  BY <1>3, LabelerAssumption DEF Trouble, LabelerTypeOK
<1>6. good \in BOOLEAN /\ there \in BOOLEAN
  BY DEF Running
<1>7. /\ poll.pod \in settled => there
      /\ poll.counts /\ poll.pod = poll.for => there /\ poll.known = metaPods[poll.pod].label
  BY <1>1, <1>2 DEF PollsCatchUp, PollCounts, CaughtUp
<1>8. role \in Labels
  BY <1>2 DEF LabelerTypeOK, Labels, Roles
<1> HIDE DEF there
<1>9. CASE role = poll.known
  <2> DEFINE rest == IF NewLeader(role) THEN LabelledLeader ELSE poll.rest
  <2>1. Continue(rest, good)
    BY <1>3, <1>9 DEF Synced
  <2>2. /\ rest \in SUBSET [pod : MetaPods, inc : Nat, known : Labels]
        /\ \A copy \in rest : /\ copy.pod # poll.for
                              /\ copy.pod \in settled => copy.inc = metaPods[copy.pod].inc
    BY <1>1, NextPods
  <2> HIDE DEF rest, good
  <2>3. poll' \in Polls \cup {NoPoll} /\ settled' \subseteq MetaPods
        /\ (poll' # NoPoll => poll'.for = poll.for)
    BY <1>1, <1>6, <2>1, <2>2, ContinueTyped
  <2>4. LabelerTypeOK'
    BY <1>2, <1>4, <1>5, <2>3 DEF LabelerTypeOK
  <2>5. \A p \in settled : metaPods[p].label = view[p]
    BY DEF PolledStaysRight
  <2>6. poll.counts /\ (good \/ poll.pod # poll.for) => metaPods[poll.for].label = view[poll.for]
    <3>1. CASE poll.pod # poll.for
      BY <1>2, <3>1 DEF PollCounts
    <3>2. CASE poll.pod = poll.for
      BY <1>3, <1>6, <1>7, <1>9, <3>2 DEF good
    <3>3. QED BY <3>1, <3>2
  <2>7. PolledStaysRight' /\ PollsCatchUp' /\ PatchesRight' /\ PollCounts'
    BY <1>1, <1>4, <1>6, <2>1, <2>2, <2>5, <2>6, ContinueStep
  <2>8. QED BY <2>4, <2>7
<1>10. CASE role # poll.known
  <2>1. /\ poll' = [poll EXCEPT !.pc = "patch", !.role = role,
                                !.counts = @ /\ (good \/ poll.pod # poll.for)]
        /\ settled' = IF good THEN settled ELSE settled \ {poll.pod}
    BY <1>3, <1>10
  <2> HIDE DEF role
  <2>2. /\ poll' \in Polls
        /\ poll'.pc = "patch" /\ poll'.role = role /\ poll'.rest = poll.rest
        /\ poll'.pod = poll.pod /\ poll'.for = poll.for /\ poll'.inc = poll.inc
        /\ poll'.counts = (poll.counts /\ (good \/ poll.pod # poll.for))
    BY <1>2, <1>6, <1>8, <2>1 DEF Polls
  <2>3. poll' # NoPoll
    BY <2>2, PollIsNotNoPoll
  <2>4. LabelerTypeOK'
    BY <1>2, <1>4, <1>5, <2>1, <2>2 DEF LabelerTypeOK
  <2>5. PolledStaysRight'
    BY <1>4, <2>1 DEF PolledStaysRight
  <2>6. PollsCatchUp'
    BY <1>2, <1>4, <2>1, <2>2 DEF PollsCatchUp, CaughtUp, Running
  <2>7. answered => role = view[poll.pod]
    BY DEF role
  <2>8. PatchesRight'
    BY <1>3, <1>4, <1>7, <2>1, <2>2, <2>7 DEF PatchesRight
  <2>9. PollCounts'
    BY <1>2, <1>3, <1>4, <1>7, <2>2, <2>7 DEF PollCounts, CaughtUp, Running
  <2>10. QED BY <2>4, <2>5, <2>6, <2>8, <2>9
<1>11. QED BY <1>9, <1>10

(* The patch writes what was polled; for a Pod that counts as settled this *)
(* is still its role.                                                      *)
LEMMA PatchStep ==
    ASSUME LabelerInv, Patch
    PROVE  LabelerInv'
<1> USE DEF LabelerInv
<1>1. PollIsBusy /\ poll.pc = "patch"
  BY Busy DEF Patch
<1>2. /\ poll \in Polls /\ poll.for \in MetaPods /\ poll.pod \in MetaPods
      /\ poll.role \in Labels
      /\ poll.counts \in BOOLEAN /\ poll # NoPoll /\ settled \subseteq MetaPods
  BY <1>1 DEF PollIsBusy, Polls, LabelerTypeOK
<1>3. UNCHANGED <<leader, view, metaCache, polling>>
  BY DEF Patch
<1>4. troubles' \in 0 .. MaxTroubles
  <2>1. \/ troubles' = troubles
        \/ troubles > 0 /\ troubles' = troubles - 1
    BY DEF Patch, Trouble
  <2>2. QED BY <2>1, LabelerAssumption DEF LabelerTypeOK
<1>5. CASE /\ metaPods' = [metaPods EXCEPT ![poll.pod].label = poll.role]
           /\ Synced(poll.role, TRUE)
  <2> DEFINE rest == IF NewLeader(poll.role) THEN LabelledLeader ELSE poll.rest
  <2>1. Continue(rest, TRUE)
    BY <1>5 DEF Synced
  <2>2. /\ rest \in SUBSET [pod : MetaPods, inc : Nat, known : Labels]
        /\ \A copy \in rest : /\ copy.pod # poll.for
                              /\ copy.pod \in settled => copy.inc = metaPods[copy.pod].inc
    BY <1>1, NextPods
  <2> HIDE DEF rest
  <2>3. poll' \in Polls \cup {NoPoll} /\ settled' \subseteq MetaPods
        /\ (poll' # NoPoll => poll'.for = poll.for)
    BY <1>1, <2>1, <2>2, ContinueTyped
  <2>4. /\ metaPods' \in [MetaPods -> Copies]
        /\ \A p \in MetaPods : /\ metaPods'[p].inc = metaPods[p].inc
                               /\ metaPods'[p].last = metaPods[p].last
        /\ \A p \in MetaPods :
              metaPods'[p].label = IF p = poll.pod THEN poll.role ELSE metaPods[p].label
    BY <1>2, <1>5 DEF LabelerTypeOK, Copies
  <2>5. LabelerTypeOK'
    BY <1>2, <1>3, <1>4, <2>3, <2>4 DEF LabelerTypeOK
  <2>6. \A p \in settled : metaPods'[p].label = view[p]
    BY <1>1, <1>2, <2>4 DEF PolledStaysRight, PatchesRight
  <2>7. poll.counts => metaPods'[poll.for].label = view[poll.for]
    BY <1>1, <1>2, <2>4 DEF PollCounts
  <2>8. PolledStaysRight' /\ PollsCatchUp' /\ PatchesRight' /\ PollCounts'
    BY <1>1, <1>3, <2>1, <2>2, <2>4, <2>6, <2>7, ContinueStep
  <2>9. QED BY <2>5, <2>8
<1>6. CASE Continue(poll.rest, FALSE) /\ UNCHANGED metaPods
  <2>1. /\ poll.rest \in SUBSET [pod : MetaPods, inc : Nat, known : Labels]
        /\ \A copy \in poll.rest : /\ copy.pod # poll.for
                                   /\ copy.pod \in settled => copy.inc = metaPods[copy.pod].inc
    BY <1>2 DEF Polls, PollsCatchUp
  <2>2. poll' \in Polls \cup {NoPoll} /\ settled' \subseteq MetaPods
        /\ (poll' # NoPoll => poll'.for = poll.for)
    BY <1>1, <1>6, <2>1, ContinueTyped
  <2>3. LabelerTypeOK'
    BY <1>2, <1>3, <1>4, <1>6, <2>2 DEF LabelerTypeOK
  <2>4. \A p \in settled : metaPods'[p].label = view[p]
    BY <1>6 DEF PolledStaysRight
  <2>5. poll.counts /\ poll.pod # poll.for => metaPods'[poll.for].label = view[poll.for]
    BY <1>2, <1>6 DEF PollCounts
  <2>6. PolledStaysRight' /\ PollsCatchUp' /\ PatchesRight' /\ PollCounts'
    BY <1>1, <1>3, <1>6, <2>1, <2>4, <2>5, ContinueStep
  <2>7. QED BY <2>3, <2>6
<1>7. QED BY <1>5, <1>6 DEF Patch

(* A reconcile takes its Pod from the cache.                               *)
LEMMA ReconcileStep ==
    ASSUME LabelerInv, NEW p \in MetaPods, Reconcile(p)
    PROVE  LabelerInv'
<1> USE DEF LabelerInv
<1>1. UNCHANGED <<leader, view, metaPods, metaCache, settled, troubles>> /\ poll = NoPoll
  BY DEF Reconcile
<1>2. CASE polling' = polling \ {p} /\ UNCHANGED poll
  BY <1>1, <1>2 DEF LabelerTypeOK, PolledStaysRight, PollsCatchUp, PatchesRight, PollCounts,
                    CaughtUp, Running
<1>3. CASE /\ metaCache[p].inc # 0
           /\ poll' = [pc |-> "ask", for |-> p, pod |-> p, inc |-> metaCache[p].inc,
                       known |-> metaCache[p].label, role |-> NoRole, rest |-> {},
                       counts |-> metaCache[p] = metaPods[p]]
           /\ UNCHANGED polling
  <2>1. metaCache[p].inc \in Nat /\ metaCache[p].label \in Labels /\ NoRole \in Labels
    BY DEF LabelerTypeOK, Copies, Labels
  <2>2. /\ poll' \in Polls /\ poll'.for = p /\ poll'.pod = p /\ poll'.pc = "ask"
        /\ poll'.inc = metaCache[p].inc /\ poll'.known = metaCache[p].label
        /\ poll'.rest = {} /\ poll'.counts = (metaCache[p] = metaPods[p])
    BY <1>3, <2>1 DEF Polls
  <2>3. LabelerTypeOK' /\ PolledStaysRight' /\ PatchesRight'
    BY <1>1, <1>3, <2>2 DEF LabelerTypeOK, PolledStaysRight, PatchesRight, Reconcile
  <2>4. PollsCatchUp'
    BY <1>1, <2>2 DEF PollsCatchUp, CaughtUp, Running
  <2>5. PollCounts'
    BY <1>1, <1>3, <2>2 DEF PollCounts, CaughtUp, Running
  <2>6. QED BY <2>3, <2>4, <2>5
<1>4. QED BY <1>2, <1>3 DEF Reconcile

(* The informer shows a newer Pod.                                         *)
LEMMA DeliverStep ==
    ASSUME LabelerInv, NEW p \in MetaPods, Deliver(p)
    PROVE  LabelerInv'
<1> USE DEF LabelerInv
<1>1. UNCHANGED <<leader, view, metaPods, poll, settled, troubles>>
  BY DEF Deliver
<1>2. /\ metaCache' \in [MetaPods -> Copies]
      /\ \A q \in MetaPods : metaCache'[q] = IF q = p THEN metaPods[p] ELSE metaCache[q]
  BY DEF Deliver, LabelerTypeOK
<1>3. polling \subseteq polling' /\ polling' \subseteq MetaPods
  BY DEF Deliver, LabelerTypeOK
<1>4. LabelerTypeOK'
  <2>1. \A q \in MetaPods : metaCache'[q].inc \in {0, metaCache'[q].last}
    BY <1>2 DEF LabelerTypeOK
  <2>2. QED BY <1>1, <1>2, <1>3, <2>1 DEF LabelerTypeOK
<1>5. \A q \in MetaPods : CaughtUp(q) => CaughtUp(q)'
  BY <1>1, <1>2 DEF CaughtUp, Running
<1>6. PolledStaysRight' /\ PatchesRight'
  BY <1>1 DEF PolledStaysRight, PatchesRight
<1>7. PollsCatchUp'
  BY <1>1, <1>5 DEF PollsCatchUp, LabelerTypeOK
<1>8. PollCounts'
  BY <1>1, <1>5 DEF PollCounts, LabelerTypeOK, Polls
<1>9. QED BY <1>4, <1>6, <1>7, <1>8

(* Whatever happens to nodes and Pods, nothing counts as polled after it.  *)
LEMMA UnsettledStep ==
    ASSUME LabelerInv, Unsettled
    PROVE  /\ poll' \in Polls \cup {NoPoll} /\ settled' = {}
           /\ poll' # NoPoll => poll # NoPoll /\ poll'.for = poll.for
           /\ PolledStaysRight' /\ PollsCatchUp' /\ PatchesRight' /\ PollCounts'
<1>1. settled' = {}
  BY DEF Unsettled
<1>2. CASE poll = NoPoll
  BY <1>1, <1>2 DEF Unsettled, PolledStaysRight, PollsCatchUp, PatchesRight, PollCounts
<1>3. CASE poll # NoPoll
  <2>1. poll \in Polls
    BY <1>3 DEF LabelerInv, LabelerTypeOK
  <2>2. poll' \in Polls /\ poll'.for = poll.for /\ poll'.rest = poll.rest /\ ~poll'.counts
    BY <1>3, <2>1 DEF Unsettled, Polls
  <2>3. \A copy \in poll.rest : copy.pod # poll.for
    BY <1>3 DEF LabelerInv, PollsCatchUp
  <2>4. QED BY <1>1, <1>3, <2>2, <2>3
        DEF PolledStaysRight, PollsCatchUp, PatchesRight, PollCounts
<1>4. QED BY <1>2, <1>3

(* Elections and Pods that come and go unsettle the labels that they make  *)
(* wrong.                                                                  *)
LEMMA WorldStep ==
    ASSUME LabelerInv, NEW p \in MetaPods,
           Elect(p) \/ Learn(p) \/ StartPod(p) \/ RemovePod(p)
    PROVE  LabelerInv'
<1> USE DEF LabelerInv
<1>1. Unsettled /\ UNCHANGED <<metaCache, polling>>
  BY DEF Elect, Learn, StartPod, RemovePod
<1>2. /\ poll' \in Polls \cup {NoPoll} /\ settled' = {}
      /\ poll' # NoPoll => poll # NoPoll /\ poll'.for = poll.for
      /\ PolledStaysRight' /\ PollsCatchUp' /\ PatchesRight' /\ PollCounts'
  BY <1>1, UnsettledStep
<1>3. leader' \in MetaPods \cup {NoPod}
  BY DEF Elect, Learn, StartPod, RemovePod, LabelerTypeOK
<1>4. view' \in [MetaPods -> Roles]
  BY DEF Elect, Learn, StartPod, RemovePod, LabelerTypeOK, Role, Roles
<1>5. /\ metaPods' \in [MetaPods -> Copies]
      /\ \A q \in MetaPods : metaPods'[q].inc \in {0, metaPods'[q].last}
  <2>1. \A q \in MetaPods : metaPods[q] \in Copies /\ metaPods[q].last \in Nat
                            /\ metaPods[q].inc \in {0, metaPods[q].last}
    BY DEF LabelerTypeOK, Copies
  <2>2. CASE metaPods' = metaPods
    BY <2>1, <2>2 DEF LabelerTypeOK
  <2>3. ASSUME NEW new \in Copies, new.inc \in {0, new.last},
               metaPods' = [metaPods EXCEPT ![p] = new]
        PROVE  /\ metaPods' \in [MetaPods -> Copies]
               /\ \A q \in MetaPods : metaPods'[q].inc \in {0, metaPods'[q].last}
    BY <2>1, <2>3 DEF LabelerTypeOK
  <2>4. \A n \in Nat : /\ Removed(n) \in Copies /\ Removed(n).inc \in {0, Removed(n).last}
                       /\ Started(n) \in Copies /\ Started(n).inc \in {0, Started(n).last}
    BY DEF Removed, Started, Copies, Labels
  <2>5. CASE StartPod(p)
    <3>1. metaPods' = [metaPods EXCEPT ![p] = Started(metaPods[p].last + 1)]
      BY <2>5 DEF StartPod
    <3>2. metaPods[p].last + 1 \in Nat
      BY <2>1
    <3>3. QED BY <2>3, <2>4, <3>1, <3>2
  <2>6. CASE RemovePod(p)
    <3>1. metaPods' = [metaPods EXCEPT ![p] = Removed(metaPods[p].last)]
      BY <2>6 DEF RemovePod
    <3>2. QED BY <2>1, <2>3, <2>4, <3>1
  <2>7. QED BY <2>2, <2>5, <2>6 DEF Elect, Learn
<1>6. troubles' \in 0 .. MaxTroubles
  BY LabelerAssumption DEF Elect, Learn, StartPod, RemovePod, Trouble, LabelerTypeOK
<1>7. LabelerTypeOK'
  BY <1>1, <1>2, <1>3, <1>4, <1>5, <1>6 DEF LabelerTypeOK
<1>8. QED BY <1>2, <1>7

(* For any meta Pods and any number of disturbances: a label that a poll   *)
(* with a fresh copy has made right stays right until a node or a Pod      *)
(* changes or a request fails, although patches name the Pod and nothing   *)
(* else, and are decided by copies that may be out of date.                *)
THEOREM LabelsStayRight == LabelerSpec => []LabelerInv
<1>1. LabelerInit => LabelerInv
  <2> SUFFICES ASSUME LabelerInit PROVE LabelerInv
    OBVIOUS
  <2>1. Started(1) \in Copies /\ Started(1).inc \in {0, Started(1).last}
    BY DEF Started, Copies, Labels
  <2>2. /\ metaPods \in [MetaPods -> Copies] /\ metaCache = metaPods
        /\ \A p \in MetaPods : metaPods[p].inc \in {0, metaPods[p].last}
    BY <2>1 DEF LabelerInit
  <2>3. leader \in MetaPods /\ view \in [MetaPods -> Roles]
    BY LabelerAssumption DEF LabelerInit, Roles
  <2>4. poll = NoPoll /\ settled = {} /\ polling = MetaPods /\ troubles \in 0 .. MaxTroubles
    BY LabelerAssumption DEF LabelerInit
  <2>5. QED BY <2>2, <2>3, <2>4 DEF LabelerInv, LabelerTypeOK, PolledStaysRight,
            PollsCatchUp, PatchesRight, PollCounts
<1>2. LabelerInv /\ [LabelerNext]_labelerVars => LabelerInv'
  <2> SUFFICES ASSUME LabelerInv, [LabelerNext]_labelerVars PROVE LabelerInv'
    OBVIOUS
  <2>1. CASE UNCHANGED labelerVars
    BY <2>1 DEF labelerVars, LabelerInv, LabelerTypeOK, PolledStaysRight, PollsCatchUp,
                PatchesRight, PollCounts, CaughtUp, Running
  <2>2. QED BY <2>1, GetMetaRoleStep, PatchStep, ReconcileStep, DeliverStep, WorldStep
            DEF LabelerNext
<1>3. QED BY <1>1, <1>2, PTL DEF LabelerSpec

-----------------------------------------------------------------------------
(* The Pods of the compute StatefulSet.                                    *)

\* the Pods stay the same, apart from those that are being deleted
PodsShrink ==
    /\ pods' \in [Ordinals -> Pods]
    /\ \A i \in Ordinals : pods'[i].there =>
          /\ pods[i].there /\ pods'[i].uid = pods[i].uid
          /\ pods'[i].owner = pods[i].owner /\ pods'[i].rev = pods[i].rev
          /\ pods[i].deleting => pods'[i].deleting

(* The values for nothing there are different from those for something.    *)
LEMMA NoneIsNone ==
    /\ \A s \in StatefulSets : s # NoSts
    /\ \A u \in Updates : u # NoUpdate
    /\ NoSuchPod \in Pods /\ ~NoSuchPod.there
<1>1. NoSts.uid = 0 /\ NoUpdate.pc = "idle"
  BY DEF NoSts, NoUpdate
<1>2. QED BY <1>1 DEF StatefulSets, Updates, NoSuchPod, Pods

(* Marking a Pod as deleted, or its end.                                   *)
LEMMA MarkDeleted ==
    ASSUME StrategyTypeOK, NEW i \in Ordinals,
           pods' = [pods EXCEPT ![i].deleting = TRUE]
    PROVE  /\ PodsShrink
           /\ pods'[i].deleting
           /\ \A j \in Ordinals : j # i => pods'[j] = pods[j]
<1>1. pods \in [Ordinals -> Pods] /\ pods[i] \in Pods
  BY DEF StrategyTypeOK
<1>2. /\ pods'[i] = [pods[i] EXCEPT !.deleting = TRUE]
      /\ \A j \in Ordinals : j # i => pods'[j] = pods[j]
      /\ pods' = [j \in Ordinals |-> pods'[j]]
  BY <1>1
<1>3. /\ pods'[i] \in Pods /\ pods'[i].deleting
      /\ pods'[i].there = pods[i].there /\ pods'[i].uid = pods[i].uid
      /\ pods'[i].owner = pods[i].owner /\ pods'[i].rev = pods[i].rev
  BY <1>1, <1>2 DEF Pods
<1>4. \A j \in Ordinals : pods'[j] \in Pods
  BY <1>1, <1>2, <1>3
<1>5. QED BY <1>2, <1>3, <1>4 DEF PodsShrink

(* A Pod that ends leaves fewer Pods and changes no other.                 *)
LEMMA PodGone ==
    ASSUME StrategyTypeOK, NEW i \in Ordinals, pods' = [pods EXCEPT ![i] = NoSuchPod]
    PROVE  PodsShrink
BY NoneIsNone DEF StrategyTypeOK, PodsShrink

(* While Pods only go away, all that is said of Pods stays true.           *)
LEMMA ShrinkStep ==
    ASSUME StrategyInv, PodsShrink, UNCHANGED <<sts, stsCache, podCache>>
    PROVE  /\ \A i \in Ordinals : pods'[i].there =>
                 /\ pods'[i].uid # 0 /\ pods'[i].owner \in 1..sts.uid
                 /\ pods'[i].rev \in Templates
           /\ StatusesTell' /\ SamePod'
           /\ cleared => \A i \in Ordinals :
                 pods'[i].there /\ ~pods'[i].deleting /\ pods'[i].owner = sts.uid => UpToDate(i)'
<1>1. \A i \in Ordinals : pods'[i].there =>
         /\ pods'[i].uid # 0 /\ pods'[i].owner \in 1..sts.uid
         /\ pods'[i].rev \in Templates
  BY DEF PodsShrink, StrategyInv, StrategyTypeOK
<1>2. \A i \in Ordinals : pods'[i].there /\ UpToDate(i) => UpToDate(i)'
  BY DEF PodsShrink, UpToDate
<1>4. StatusesTell'
  <2>1. StatusTells(sts)'
    BY <1>2 DEF StrategyInv, StatusesTell, StatusTells, Latest, Observed, Updating, PodsShrink
  <2>2. stsCache # NoSts => StatusTells(stsCache)'
    BY <1>2 DEF StrategyInv, StatusesTell, StatusTells, Latest, Observed, Updating, PodsShrink
  <2>3. QED BY <2>1, <2>2 DEF StrategyInv, StatusesTell
<1>5. SamePod'
  BY DEF StrategyInv, SamePod, PodsShrink
<1>6. ASSUME cleared, NEW i \in Ordinals,
             pods'[i].there, ~pods'[i].deleting, pods'[i].owner = sts.uid
      PROVE  UpToDate(i)'
  BY <1>2, <1>6 DEF PodsShrink, StrategyInv, AllAtOnce
<1>7. QED BY <1>1, <1>4, <1>5, <1>6

(* The StatefulSet controller and the kubelets end Pods: fewer are         *)
(* outdated.                                                               *)
LEMMA EndsStep ==
    ASSUME StrategyInv, NEW i \in Ordinals, StsRolls(i) \/ PodEnds(i)
    PROVE  StrategyInv'
<1> USE DEF StrategyInv
<1>1. UNCHANGED <<sts, stsCache, podCache, queued, update, cleared, changes>>
  BY DEF StsRolls, PodEnds
<1>2. PodsShrink
  BY MarkDeleted, PodGone DEF StsRolls, PodEnds
<1>3. /\ \A j \in Ordinals : pods'[j].there =>
            /\ pods'[j].uid # 0 /\ pods'[j].owner \in 1..sts.uid
            /\ pods'[j].rev \in Templates
      /\ StatusesTell' /\ SamePod'
      /\ cleared => \A j \in Ordinals :
            pods'[j].there /\ ~pods'[j].deleting /\ pods'[j].owner = sts.uid => UpToDate(j)'
  BY <1>1, <1>2, ShrinkStep
<1>4. StrategyTypeOK'
  BY <1>1, <1>2, <1>3 DEF StrategyTypeOK, PodsShrink
<1>5. TargetsOutdated'
  BY <1>1, <1>2 DEF TargetsOutdated, PodsShrink, UpToDate, Latest, Observed
<1>6. AllAtOnce' /\ (cleared => Observed(sts))'
  BY <1>1, <1>3 DEF AllAtOnce, Observed
<1>7. QED BY <1>3, <1>4, <1>5, <1>6

(* What a reconcile is to delete: one Pod at most for each ordinal, and,   *)
(* when the copy of the StatefulSet is of the latest generation, Pods of   *)
(* other revisions only; all of them, when the caches are fresh.           *)
LEMMA TargetsRead ==
    ASSUME StrategyInv, stsCache # NoSts, Observed(stsCache)
    PROVE  /\ ToDelete(stsCache) \in SUBSET (Ordinals \X (1..4))
           /\ \A t \in ToDelete(stsCache) : \A u \in ToDelete(stsCache) :
                 t[1] = u[1] => t = u
           /\ Latest(stsCache) => \A i \in Ordinals :
                 pods[i].there /\ <<i, pods[i].uid>> \in ToDelete(stsCache) => ~UpToDate(i)
           /\ stsCache = sts /\ podCache = pods => \A i \in Ordinals :
                 pods[i].there /\ ~pods[i].deleting /\ pods[i].owner = sts.uid
                    => UpToDate(i) \/ <<i, pods[i].uid>> \in ToDelete(stsCache)
<1> USE DEF StrategyInv
<1>1. \A t \in ToDelete(stsCache) :
         \E i \in Ordinals : /\ t = <<i, podCache[i].uid>>
                             /\ podCache[i].there /\ Outdated(podCache[i], stsCache)
  BY DEF ToDelete
<1>2. \A i \in Ordinals : podCache[i].there => podCache[i].uid \in 1..4
  <2>1. \A i \in Ordinals : podCache[i].uid \in 0..4
    BY DEF StrategyTypeOK, Pods
  <2>2. \A i \in Ordinals : podCache[i].there => podCache[i].uid # 0
    BY DEF StrategyTypeOK
  <2>3. QED BY <2>1, <2>2
<1>3. ToDelete(stsCache) \in SUBSET (Ordinals \X (1..4))
  BY <1>1, <1>2
<1>4. \A t \in ToDelete(stsCache) : \A u \in ToDelete(stsCache) : t[1] = u[1] => t = u
  BY <1>1
<1>5. ASSUME Latest(stsCache), NEW i \in Ordinals,
             pods[i].there, <<i, pods[i].uid>> \in ToDelete(stsCache)
      PROVE  ~UpToDate(i)
  <2>1. podCache[i].there /\ podCache[i].uid = pods[i].uid /\ Outdated(podCache[i], stsCache)
    BY <1>1, <1>5
  <2>2. pods[i].rev = podCache[i].rev
    BY <1>5, <2>1 DEF SamePod
  <2>3. stsCache.status.revision = sts.template
    BY <1>5 DEF StatusesTell, StatusTells
  <2>4. QED BY <2>1, <2>2, <2>3 DEF Outdated, UpToDate
<1>6. ASSUME stsCache = sts, podCache = pods, NEW i \in Ordinals,
             pods[i].there, ~pods[i].deleting, pods[i].owner = sts.uid
      PROVE  UpToDate(i) \/ <<i, pods[i].uid>> \in ToDelete(stsCache)
  <2>1. sts.status.revision = sts.template
    BY <1>6 DEF StatusesTell, StatusTells, Latest
  <2>2. QED BY <1>6, <2>1 DEF ToDelete, Outdated, UpToDate
<1>7. QED BY <1>3, <1>4, <1>5, <1>6

(* A reconcile that reads fresh caches has every outdated Pod on its list. *)
LEMMA ReadStep ==
    ASSUME StrategyInv, Read
    PROVE  StrategyInv'
<1> USE DEF StrategyInv
<1>1. /\ UNCHANGED <<sts, stsCache, pods, podCache, changes>>
      /\ update = NoUpdate /\ queued' = FALSE
  BY DEF Read
<1>2. SamePod' /\ StatusesTell'
  BY <1>1 DEF SamePod, StatusesTell, StatusTells, Latest, Observed, Updating, UpToDate
<1>3. CASE UNCHANGED <<update, cleared>>
  BY <1>1, <1>2, <1>3 DEF StrategyTypeOK, TargetsOutdated, AllAtOnce, UpToDate, Observed
<1>4. CASE stsCache # NoSts
  <2> DEFINE rest == IF Updating(stsCache) THEN ToDelete(stsCache) ELSE {}
             fresh == stsCache = sts /\ (Updating(stsCache) => podCache = pods)
  <2>1. Observed(stsCache) /\ stsCache \in StatefulSets
    BY <1>4 DEF Read, StrategyTypeOK
  <2>2. fresh \in BOOLEAN
    OBVIOUS
  <2>3. IF rest = {} THEN Finish(stsCache, fresh)
        ELSE /\ update' = [pc |-> "delete", uid |-> stsCache.uid, gen |-> stsCache.gen,
                           rest |-> rest, fresh |-> fresh]
             /\ UNCHANGED cleared
    BY <1>4 DEF Read
  <2>4. CASE rest = {}
    <3>1. update' = NoUpdate /\ cleared' \in BOOLEAN /\ (cleared' => cleared \/ fresh)
      BY <2>3, <2>4 DEF Finish, StrategyTypeOK
    <3>2. fresh => /\ Observed(sts)
                   /\ \A i \in Ordinals :
                        pods[i].there /\ ~pods[i].deleting /\ pods[i].owner = sts.uid
                           => UpToDate(i)
      <4>1. CASE Updating(stsCache)
        BY <1>4, <2>1, <2>4, <4>1, TargetsRead
      <4>2. CASE ~Updating(stsCache)
        BY <2>1, <4>2 DEF StatusesTell, StatusTells, Latest
      <4>3. QED BY <4>1, <4>2
    <3> HIDE DEF fresh
    <3>3. StrategyTypeOK' /\ TargetsOutdated'
      BY <1>1, <3>1 DEF StrategyTypeOK, TargetsOutdated
    <3>4. AllAtOnce' /\ (cleared => Observed(sts))'
      BY <1>1, <3>1, <3>2 DEF AllAtOnce, Observed, UpToDate
    <3>5. QED BY <1>2, <3>3, <3>4
  <2>5. CASE rest # {}
    <3>1. /\ rest = ToDelete(stsCache) /\ (fresh => stsCache = sts /\ podCache = pods)
      BY <2>5
    <3>2. /\ rest \in SUBSET (Ordinals \X (1..4))
          /\ \A t \in rest : \A u \in rest : t[1] = u[1] => t = u
          /\ Latest(stsCache) => \A i \in Ordinals :
                pods[i].there /\ <<i, pods[i].uid>> \in rest => ~UpToDate(i)
          /\ fresh => \A i \in Ordinals :
                pods[i].there /\ ~pods[i].deleting /\ pods[i].owner = sts.uid
                   => UpToDate(i) \/ <<i, pods[i].uid>> \in rest
      BY <1>4, <2>1, <3>1, TargetsRead
    <3>3. update' = [pc |-> "delete", uid |-> stsCache.uid, gen |-> stsCache.gen,
                     rest |-> rest, fresh |-> fresh] /\ UNCHANGED cleared
      BY <2>3, <2>5
    <3> HIDE DEF rest, fresh
    <3>4. /\ update'.uid = stsCache.uid /\ update'.gen = stsCache.gen
          /\ update'.rest = rest /\ update'.fresh = fresh
          /\ update' \in Updates
      BY <2>1, <2>2, <3>2, <3>3 DEF Updates, StatefulSets
    <3>5. StrategyTypeOK'
      BY <1>1, <2>5, <3>2, <3>3, <3>4 DEF StrategyTypeOK
    <3>6. fresh => Observed(sts)
      BY <2>1, <3>1
    <3>7. TargetsOutdated'
      <4>1. stsCache.uid <= sts.uid /\ (stsCache.uid = sts.uid => stsCache.gen <= sts.gen)
        BY <1>4 DEF StrategyTypeOK, StatusesTell
      <4>2. Latest(update)' <=> Latest(stsCache)
        BY <1>1, <3>4 DEF Latest
      <4>3. QED BY <1>1, <3>2, <3>4, <3>6, <4>1, <4>2 DEF TargetsOutdated, UpToDate, Observed
    <3>8. AllAtOnce' /\ (cleared => Observed(sts))'
      BY <1>1, <3>3 DEF AllAtOnce, Observed, UpToDate
    <3>9. QED BY <1>2, <3>5, <3>7, <3>8
  <2>6. QED BY <2>4, <2>5
<1>5. QED BY <1>3, <1>4 DEF Read

(* One deletion, with its uid: the Pod is on its way out, or it was        *)
(* another one already.                                                    *)
LEMMA DeleteStep ==
    ASSUME StrategyInv, Delete
    PROVE  StrategyInv'
<1> USE DEF StrategyInv
<1>1. UNCHANGED <<sts, stsCache, podCache>>
  BY DEF Delete
<1>2. update \in Updates /\ update # NoUpdate
  BY NoneIsNone DEF Delete, StrategyTypeOK, NoUpdate
<1>3. PICK target \in update.rest :
         \/ /\ Precondition(target[1], target[2])
            /\ pods' = Deleted(target[1])
            /\ IF update.rest \ {target} = {} THEN Finish(update, update.fresh)
               ELSE update' = [update EXCEPT !.rest = update.rest \ {target}] /\ UNCHANGED cleared
            /\ UNCHANGED <<queued, changes>>
         \/ /\ IF Precondition(target[1], target[2]) THEN Change ELSE UNCHANGED changes
            /\ update' = NoUpdate /\ queued' = TRUE
            /\ UNCHANGED <<pods, cleared>>
  BY DEF Delete
<1> DEFINE i == target[1]
           rest == update.rest \ {target}
<1>4. /\ i \in Ordinals /\ target[2] \in 1..4 /\ target = <<i, target[2]>>
      /\ update.rest \subseteq Ordinals \X (1..4)
  BY <1>2 DEF Updates
<1>5. CASE /\ update' = NoUpdate /\ queued' = TRUE /\ UNCHANGED <<pods, cleared>>
           /\ IF Precondition(i, target[2]) THEN Change ELSE UNCHANGED changes
  <2>1. changes' \in 0 .. MaxChanges
    BY <1>5, StrategyAssumption DEF Change, StrategyTypeOK
  <2>2. StrategyTypeOK' /\ TargetsOutdated'
    BY <1>1, <1>5, <2>1 DEF StrategyTypeOK, TargetsOutdated
  <2>3. QED BY <1>1, <1>5, <2>2 DEF SamePod, StatusesTell, StatusTells, Latest, Observed,
                Updating, UpToDate, AllAtOnce
<1>6. CASE /\ Precondition(i, target[2])
           /\ pods' = Deleted(i)
           /\ IF rest = {} THEN Finish(update, update.fresh)
              ELSE update' = [update EXCEPT !.rest = rest] /\ UNCHANGED cleared
           /\ UNCHANGED <<queued, changes>>
  <2>1. PodsShrink /\ (pods[i].there => pods'[i].deleting)
    <3>1. CASE pods[i].there
      BY <1>4, <1>6, <3>1, MarkDeleted DEF Deleted
    <3>2. CASE ~pods[i].there
      BY <1>4, <1>6, <3>2 DEF Deleted, PodsShrink, StrategyTypeOK
    <3>3. QED BY <3>1, <3>2
  <2>2. /\ \A j \in Ordinals : pods'[j].there =>
              /\ pods'[j].uid # 0 /\ pods'[j].owner \in 1..sts.uid
              /\ pods'[j].rev \in Templates
        /\ StatusesTell' /\ SamePod'
        /\ cleared => \A j \in Ordinals :
              pods'[j].there /\ ~pods'[j].deleting /\ pods'[j].owner = sts.uid => UpToDate(j)'
    BY <1>1, <2>1, ShrinkStep
  <2>3. Latest(update) => \A j \in Ordinals :
           pods'[j].there /\ <<j, pods'[j].uid>> \in rest => ~UpToDate(j)'
    BY <1>1, <1>2, <2>1 DEF TargetsOutdated, PodsShrink, UpToDate
  <2>4. Latest(update) /\ update.fresh => \A j \in Ordinals :
           pods'[j].there /\ ~pods'[j].deleting /\ pods'[j].owner = sts.uid
              => UpToDate(j)' \/ <<j, pods'[j].uid>> \in rest
    <3>1. SUFFICES ASSUME Latest(update), update.fresh, NEW j \in Ordinals,
                          pods'[j].there, ~pods'[j].deleting, pods'[j].owner = sts.uid
                   PROVE  UpToDate(j)' \/ <<j, pods'[j].uid>> \in rest
      OBVIOUS
    <3>2. /\ pods[j].there /\ ~pods[j].deleting /\ pods[j].owner = sts.uid
          /\ pods'[j].uid = pods[j].uid /\ pods'[j].rev = pods[j].rev
      BY <2>1, <3>1 DEF PodsShrink, StrategyTypeOK, Pods
    <3>3. UpToDate(j) \/ <<j, pods[j].uid>> \in update.rest
      BY <1>2, <3>1, <3>2 DEF TargetsOutdated
    <3>4. j # i
      BY <2>1, <3>1, <3>2
    <3>5. <<j, pods[j].uid>> # target
      BY <1>4, <3>4
    <3>6. QED BY <1>1, <3>2, <3>3, <3>5 DEF UpToDate
  <2>5. CASE rest = {}
    <3>1. /\ update' = NoUpdate /\ cleared' \in BOOLEAN
          /\ cleared' => cleared \/ (update.fresh /\ Latest(update))
      BY <1>2, <1>6, <2>5 DEF Finish, Latest, StrategyTypeOK, Updates
    <3>2. StrategyTypeOK' /\ TargetsOutdated'
      BY <1>1, <1>6, <2>1, <2>2, <3>1 DEF StrategyTypeOK, TargetsOutdated, PodsShrink
    <3>3. AllAtOnce'
      BY <1>1, <2>2, <2>4, <2>5, <3>1 DEF AllAtOnce
    <3>4. (cleared => Observed(sts))'
      BY <1>1, <1>2, <3>1 DEF TargetsOutdated, Observed
    <3>5. QED BY <2>2, <3>2, <3>3, <3>4
  <2>6. CASE rest # {}
    <3>1. update' = [update EXCEPT !.rest = rest] /\ UNCHANGED cleared
      BY <1>6, <2>6
    <3> HIDE DEF rest
    <3>2. /\ update' \in Updates /\ update'.uid = update.uid /\ update'.gen = update.gen
          /\ update'.rest = rest /\ update'.fresh = update.fresh
      BY <1>2, <1>4, <3>1 DEF Updates, rest
    <3>3. \A t \in rest : \A u \in rest : t[1] = u[1] => t = u
      BY <1>2 DEF rest, StrategyTypeOK
    <3>4. StrategyTypeOK'
      BY <1>1, <1>6, <2>1, <2>2, <2>6, <3>1, <3>2, <3>3 DEF StrategyTypeOK, PodsShrink
    <3>5. TargetsOutdated'
      BY <1>1, <1>2, <2>3, <2>4, <3>2 DEF TargetsOutdated, Latest, Observed
    <3>6. AllAtOnce' /\ (cleared => Observed(sts))'
      BY <1>1, <2>2, <3>1 DEF AllAtOnce, Observed
    <3>7. QED BY <2>2, <3>4, <3>5, <3>6
  <2>7. QED BY <2>5, <2>6
<1>7. QED BY <1>3, <1>5, <1>6

(* The informers, and a restart, which lists everything anew.              *)
LEMMA InformersStep ==
    ASSUME StrategyInv, DeliverSts \/ DeliverPods \/ Restart
    PROVE  StrategyInv'
<1> USE DEF StrategyInv
<1>1. UNCHANGED <<sts, pods, cleared>>
  BY DEF DeliverSts, DeliverPods, Restart
<1>2. stsCache' \in {stsCache, sts, NoSts} /\ podCache' \in {podCache, pods}
  BY DEF DeliverSts, DeliverPods, Restart
<1>3. update' \in {update, NoUpdate} /\ queued' \in BOOLEAN
  BY DEF DeliverSts, DeliverPods, Restart, StrategyTypeOK
<1>4. changes' \in 0 .. MaxChanges
  BY StrategyAssumption DEF DeliverSts, DeliverPods, Restart, Change, StrategyTypeOK
<1>5. sts.uid \in Nat \ {0} /\ NoSts.uid = 0 /\ sts # NoSts
  BY NoneIsNone DEF StrategyTypeOK, StatefulSets, NoSts
<1>6. stsCache' \in StatefulSets \cup {NoSts} /\ stsCache'.uid \in 0..sts.uid
  BY <1>2, <1>5 DEF StrategyTypeOK
<1>7. StrategyTypeOK'
  BY <1>1, <1>2, <1>3, <1>4, <1>6 DEF StrategyTypeOK
<1>8. StatusesTell'
  <2>1. sts.gen \in Nat
    BY DEF StrategyTypeOK, StatefulSets
  <2>2. StatusTells(sts)'
    BY <1>1 DEF StatusesTell, StatusTells, Latest, Observed, Updating, UpToDate
  <2>3. CASE stsCache' = stsCache
    BY <1>1, <2>2, <2>3 DEF StatusesTell, StatusTells, Latest, Observed, Updating, UpToDate
  <2>4. CASE stsCache' = sts
    <3>1. stsCache' = sts'
      BY <1>1, <2>4
    <3>2. QED BY <1>1, <2>1, <2>2, <3>1 DEF StatusesTell, StatusTells, Latest, Observed, Updating, UpToDate
  <2>5. CASE stsCache' = NoSts
    BY <2>2, <2>5 DEF StatusesTell
  <2>6. QED BY <1>2, <2>3, <2>4, <2>5
<1>9. SamePod'
  BY <1>1, <1>2 DEF SamePod
<1>10. TargetsOutdated'
  BY <1>1, <1>3 DEF TargetsOutdated, Latest, Observed, UpToDate
<1>11. AllAtOnce' /\ (cleared => Observed(sts))'
  BY <1>1 DEF AllAtOnce, Observed, UpToDate
<1>12. QED BY <1>7, <1>8, <1>9, <1>10, <1>11

(* A new generation, or a new StatefulSet of the name: no copy, and no     *)
(* reconcile in progress, is of it.                                        *)
LEMMA NewGenerationStep ==
    ASSUME StrategyInv, Edit \/ Recreate
    PROVE  StrategyInv'
<1> USE DEF StrategyInv
<1>1. UNCHANGED <<stsCache, pods, podCache, queued, update>> /\ cleared' = FALSE
  BY DEF Edit, Recreate
<1>2. changes' \in 0 .. MaxChanges
  <2>1. changes > 0 /\ changes' = changes - 1
    BY DEF Edit, Recreate, Change
  <2>2. QED BY <2>1, StrategyAssumption DEF StrategyTypeOK
<1>3. /\ sts \in StatefulSets /\ sts.uid \in Nat \ {0} /\ sts.gen \in Nat \ {0}
      /\ sts.template \in Templates /\ sts.status \in StatusValues
      /\ sts.status.observed \in Nat /\ sts.status.observed <= sts.gen
      /\ sts.status.updated \in 0..sts.status.replicas
      /\ sts.status.observed # 0 => sts.status.revision \in Templates
  <2>1. sts # NoSts /\ sts \in StatefulSets
    BY NoneIsNone DEF StrategyTypeOK
  <2>2. QED BY <2>1 DEF StrategyTypeOK, StatefulSets, StatusValues
<1>4. /\ sts' \in StatefulSets
      /\ \/ sts'.uid = sts.uid /\ sts'.gen = sts.gen + 1
         \/ sts'.uid = sts.uid + 1
      /\ sts'.status.observed < sts'.gen
      /\ sts'.status.updated \in 0..sts'.status.replicas
      /\ sts'.status.observed # 0 => sts'.status.revision \in Templates
  <2>1. CASE Edit
    <3>1. PICK t \in Templates : sts' = [sts EXCEPT !.gen = @ + 1, !.template = t]
      BY <2>1 DEF Edit
    <3>2. /\ sts'.uid = sts.uid /\ sts'.gen = sts.gen + 1 /\ sts'.template = t
          /\ sts'.status = sts.status
      BY <1>3, <3>1 DEF StatefulSets
    <3>3. sts' \in StatefulSets
      <4>1. sts.gen + 1 \in Nat \ {0}
        BY <1>3
      <4>2. QED BY <1>3, <3>1, <4>1 DEF StatefulSets
    <3>4. QED BY <1>3, <3>2, <3>3
  <2>2. CASE Recreate
    <3>1. /\ sts'.uid = sts.uid + 1 /\ sts'.gen = 1 /\ sts'.template = sts.template
          /\ sts'.status = NoStatus
      BY <2>2 DEF Recreate
    <3>2. /\ NoStatus \in StatusValues /\ NoStatus.observed = 0 /\ NoStatus.updated = 0
          /\ NoStatus.replicas = 0
      BY DEF NoStatus, StatusValues
    <3>3. sts' \in StatefulSets
      BY <1>3, <2>2, <3>2 DEF Recreate, StatefulSets
    <3>4. QED BY <1>3, <3>1, <3>2, <3>3
  <2>3. QED BY <2>1, <2>2
<1>5. sts'.uid \in Nat /\ sts'.gen \in Nat /\ sts'.status.observed \in Nat
  BY <1>4 DEF StatefulSets, StatusValues
<1>6. 0..sts.uid \subseteq 0..sts'.uid /\ 1..sts.uid \subseteq 1..sts'.uid
  BY <1>3, <1>4, <1>5
<1>7. StrategyTypeOK'
  <2>1. \A c \in {pods', podCache'} : \A i \in Ordinals :
           c[i].there => c[i].uid # 0 /\ c[i].owner \in 1..sts'.uid /\ c[i].rev \in Templates
    BY <1>1, <1>6 DEF StrategyTypeOK
  <2>2. \A s \in {sts', stsCache'} : s # NoSts =>
           /\ s.status.observed <= s.gen /\ s.status.updated \in 0..s.status.replicas
           /\ s.status.observed # 0 => s.status.revision \in Templates
    BY <1>1, <1>4, <1>5 DEF StrategyTypeOK
  <2>3. stsCache'.uid \in 0..sts'.uid
    BY <1>1, <1>6 DEF StrategyTypeOK
  <2>4. QED BY <1>1, <1>2, <1>4, <2>1, <2>2, <2>3 DEF StrategyTypeOK
<1>8. stsCache # NoSts =>
         /\ stsCache.uid \in Nat /\ stsCache.gen \in Nat /\ stsCache.uid <= sts.uid
         /\ stsCache.uid = sts.uid => stsCache.gen <= sts.gen
  BY DEF StrategyTypeOK, StatusesTell, StatefulSets
<1>9. update # NoUpdate =>
         /\ update.uid \in Nat /\ update.gen \in Nat /\ update.uid <= sts.uid
         /\ update.uid = sts.uid => update.gen <= sts.gen
  BY DEF StrategyTypeOK, TargetsOutdated, Updates
<1>10. StatusesTell'
  <2>1. ~Observed(sts)'
    BY <1>4, <1>5 DEF Observed
  <2>2. stsCache # NoSts => ~Latest(stsCache)'
    BY <1>1, <1>3, <1>4, <1>8 DEF Latest
  <2>3. QED BY <1>1, <1>3, <1>4, <1>8, <2>1, <2>2 DEF StatusesTell, StatusTells
<1>11. SamePod' /\ AllAtOnce'
  BY <1>1 DEF SamePod, AllAtOnce
<1>12. TargetsOutdated'
  <2>1. update # NoUpdate => ~Latest(update)'
    BY <1>1, <1>3, <1>4, <1>9 DEF Latest
  <2>2. QED BY <1>1, <1>3, <1>4, <1>9, <2>1 DEF TargetsOutdated
<1>13. QED BY <1>1, <1>7, <1>10, <1>11, <1>12

(* The status counts all Pods as updated only when all are.                *)
LEMMA StatusCounts ==
    ASSUME StrategyInv
    PROVE  /\ Status \in StatusValues /\ Status.observed = sts.gen
           /\ Status.revision = sts.template
           /\ Status.updated \in 0..Status.replicas
           /\ Status.updated = Status.replicas => \A i \in Ordinals :
                 pods[i].there /\ pods[i].owner = sts.uid => UpToDate(i)
<1> DEFINE owned == {i \in Ordinals : Owned(i)}
           updated == {i \in Ordinals : Owned(i) /\ UpToDate(i) /\ ~pods[i].deleting}
<1>1. IsFiniteSet(owned) /\ updated \subseteq owned
  BY StrategyAssumption, FS_Subset
<1>2. /\ IsFiniteSet(updated) /\ Cardinality(updated) <= Cardinality(owned)
      /\ Cardinality(updated) = Cardinality(owned) => updated = owned
  BY <1>1, FS_Subset
<1>3. Cardinality(owned) \in Nat /\ Cardinality(updated) \in Nat
  BY <1>1, <1>2, FS_CardinalityType
<1>4. sts.gen \in Nat /\ sts.template \in Templates
  BY DEF StrategyInv, StrategyTypeOK, StatefulSets
<1>5. /\ Status.observed = sts.gen /\ Status.revision = sts.template
      /\ Status.replicas = Cardinality(owned) /\ Status.updated = Cardinality(updated)
  BY DEF Status
<1>6. updated = owned => \A i \in Ordinals :
         pods[i].there /\ pods[i].owner = sts.uid => UpToDate(i)
  BY DEF Owned
<1> HIDE DEF owned, updated
<1>7. Status \in StatusValues
  <2>1. Status = [observed |-> sts.gen, revision |-> sts.template,
                  replicas |-> Cardinality(owned), updated |-> Cardinality(updated)]
    BY DEF Status, owned, updated
  <2>2. QED BY <1>3, <1>4, <2>1 DEF StatusValues
<1>8. QED BY <1>2, <1>3, <1>5, <1>6, <1>7

(* The StatefulSet controller writes its status; what was true of a        *)
(* generation it has observed stays true.                                  *)
LEMMA StsObservesStep ==
    ASSUME StrategyInv, StsObserves
    PROVE  StrategyInv'
<1> USE DEF StrategyInv
<1>1. UNCHANGED <<stsCache, pods, podCache, queued, update, cleared, changes>>
  BY DEF StsObserves
<1>2. sts \in StatefulSets /\ sts # NoSts /\ sts.gen \in Nat \ {0}
  BY NoneIsNone DEF StrategyTypeOK, StatefulSets
<1>3. /\ Status \in StatusValues /\ Status.observed = sts.gen
      /\ Status.revision = sts.template
      /\ Status.updated \in 0..Status.replicas
      /\ Status.updated = Status.replicas => \A i \in Ordinals :
            pods[i].there /\ pods[i].owner = sts.uid => UpToDate(i)
  BY StatusCounts
<1>4. /\ sts' \in StatefulSets /\ sts'.uid = sts.uid /\ sts'.gen = sts.gen
      /\ sts'.template = sts.template /\ sts'.status = Status
  BY <1>2, <1>3 DEF StsObserves, StatefulSets
<1>5. sts.template \in Templates
  BY <1>2 DEF StatefulSets
<1>6. StrategyTypeOK'
  BY <1>1, <1>2, <1>3, <1>4, <1>5 DEF StrategyTypeOK
<1>7. Observed(sts)' /\ \A i \in Ordinals : UpToDate(i)' <=> UpToDate(i)
  BY <1>1, <1>3, <1>4 DEF Observed, UpToDate
<1>8. StatusesTell'
  <2>1. StatusTells(sts)'
    BY <1>1, <1>3, <1>4, <1>7 DEF StatusTells, Updating
  <2>2. stsCache # NoSts => StatusTells(stsCache)'
    <3>1. SUFFICES ASSUME stsCache # NoSts, Latest(stsCache), Observed(stsCache)
                   PROVE  /\ stsCache.template = sts.template
                          /\ stsCache.status.revision = sts.template
                          /\ ~Updating(stsCache) => \A i \in Ordinals :
                                pods[i].there /\ pods[i].owner = sts.uid => UpToDate(i)
      BY <1>1, <1>4, <1>7 DEF StatusTells, Latest, Observed, Updating
    <3>2. QED BY <3>1 DEF StatusesTell, StatusTells
  <2>3. QED BY <1>1, <1>4, <2>1, <2>2 DEF StatusesTell
<1>9. SamePod' /\ AllAtOnce'
  BY <1>1, <1>4, <1>7 DEF SamePod, AllAtOnce
<1>10. TargetsOutdated'
  BY <1>1, <1>4, <1>7 DEF TargetsOutdated, Latest
<1>11. QED BY <1>6, <1>7, <1>8, <1>9, <1>10

(* The uid of a new Pod is one that nobody remembers.                      *)
LEMMA FreshUidIsFresh ==
    ASSUME StrategyInv, NEW i \in Ordinals
    PROVE  /\ FreshUid(i) \in 1..4 /\ FreshUid(i) \notin {pods[i].uid, podCache[i].uid}
           /\ update # NoUpdate => <<i, FreshUid(i)>> \notin update.rest
<1> USE DEF StrategyInv
<1> DEFINE targets == IF update.pc = "delete"
                      THEN {t[2] : t \in {t \in update.rest : t[1] = i}} ELSE {}
           known == {pods[i].uid, podCache[i].uid} \cup targets
<1>1. update # NoUpdate => update \in Updates /\ update.pc = "delete"
  BY DEF StrategyTypeOK, Updates
<1>2. update = NoUpdate => update.pc # "delete"
  BY DEF NoUpdate
<1>3. \E u : targets \subseteq {u}
  <2>1. CASE update = NoUpdate
    BY <1>2, <2>1
  <2>2. CASE update # NoUpdate
    <3>1. \A t \in update.rest : \A v \in update.rest : t[1] = v[1] => t = v
      BY <2>2 DEF StrategyTypeOK
    <3>2. CASE targets = {}
      BY <3>2
    <3>3. CASE targets # {}
      <4>1. PICK t \in update.rest : t[1] = i
        BY <3>3
      <4>2. targets \subseteq {t[2]}
        BY <3>1, <4>1
      <4>3. QED BY <4>2
    <3>4. QED BY <3>2, <3>3
  <2>3. QED BY <2>1, <2>2
<1>4. PICK u : targets \subseteq {u}
  BY <1>3
<1> HIDE DEF targets
<1>5. \E v \in 1..4 : v \notin known
  <2>1. known \subseteq {pods[i].uid, podCache[i].uid, u}
    BY <1>4
  <2>2. 1 \in 1..4 /\ 2 \in 1..4 /\ 3 \in 1..4 /\ 4 \in 1..4
    OBVIOUS
  <2> HIDE DEF known
  <2>3. QED BY <2>1, <2>2
<1>6. FreshUid(i) = CHOOSE v \in 1..4 : v \notin known
  BY DEF FreshUid, targets
<1>7. FreshUid(i) \in 1..4 /\ FreshUid(i) \notin known
  BY <1>5, <1>6
<1>8. update # NoUpdate /\ <<i, FreshUid(i)>> \in update.rest => FreshUid(i) \in targets
  <2>1. SUFFICES ASSUME update # NoUpdate, <<i, FreshUid(i)>> \in update.rest
                 PROVE  FreshUid(i) \in targets
    OBVIOUS
  <2>2. <<i, FreshUid(i)>>[1] = i /\ <<i, FreshUid(i)>>[2] = FreshUid(i)
    OBVIOUS
  <2>3. QED BY <1>1, <2>1, <2>2 DEF targets
<1>9. QED BY <1>7, <1>8

(* A Pod that is created.                                                  *)
LEMMA NewPodIsPod ==
    ASSUME NEW u \in 1..4, NEW o \in Nat, NEW r \in Templates
    PROVE  /\ NewPod(u, o, r) \in Pods
           /\ NewPod(u, o, r).there /\ NewPod(u, o, r).uid = u
           /\ NewPod(u, o, r).owner = o /\ NewPod(u, o, r).rev = r
<1>1. u \in 0..4 /\ r \in Templates \cup {""}
  <2>1. u \in 0..4
    OBVIOUS
  <2>2. r \in Templates \cup {""}
    BY Zenon
  <2>3. QED BY <2>1, <2>2
<1>2. NewPod(u, o, r).there
  BY Zenon DEF NewPod
<1>3. NewPod(u, o, r) \in Pods
  BY <1>1, Zenon DEF NewPod, Pods
<1>4. NewPod(u, o, r).uid = u /\ NewPod(u, o, r).owner = o /\ NewPod(u, o, r).rev = r
  BY Zenon DEF NewPod
<1>5. QED BY <1>2, <1>3, <1>4

(* A Pod that is created is of the current template.                       *)
LEMMA StsCreatesStep ==
    ASSUME StrategyInv, NEW i \in Ordinals, StsCreates(i)
    PROVE  StrategyInv'
<1> USE DEF StrategyInv
<1>1. UNCHANGED <<sts, stsCache, podCache, queued, update, cleared, changes>>
  BY DEF StsCreates
<1> DEFINE new == NewPod(FreshUid(i), sts.uid, sts.status.revision)
<1>2. pods' = [pods EXCEPT ![i] = new] /\ sts.status.observed # 0 /\ pods \in [Ordinals -> Pods]
  BY DEF StsCreates, StrategyTypeOK
<1>3. /\ FreshUid(i) \in 1..4 /\ FreshUid(i) \notin {pods[i].uid, podCache[i].uid}
      /\ update # NoUpdate => <<i, FreshUid(i)>> \notin update.rest
  BY FreshUidIsFresh
<1>4. sts \in StatefulSets /\ sts # NoSts /\ sts.uid \in Nat \ {0}
  BY NoneIsNone DEF StrategyTypeOK, StatefulSets
<1>5. sts.status.revision \in Templates
  BY <1>2, <1>4 DEF StrategyTypeOK
<1>6. /\ new.there /\ new.uid = FreshUid(i) /\ new.owner = sts.uid
      /\ new.rev = sts.status.revision /\ new \in Pods
  BY <1>3, <1>4, <1>5, NewPodIsPod
<1> HIDE DEF new
<1>7. /\ pods'[i] = new /\ \A j \in Ordinals : j # i => pods'[j] = pods[j]
      /\ pods' \in [Ordinals -> Pods]
  BY <1>2, <1>6
<1>8. StrategyTypeOK'
  <2>1. \A j \in Ordinals : pods'[j].there =>
           pods'[j].uid # 0 /\ pods'[j].owner \in 1..sts.uid /\ pods'[j].rev \in Templates
    BY <1>3, <1>4, <1>5, <1>6, <1>7 DEF StrategyTypeOK
  <2>2. QED BY <1>1, <1>7, <2>1 DEF StrategyTypeOK
<1>9. Observed(sts) => UpToDate(i)'
  <2>1. Observed(sts) => sts.status.revision = sts.template
    BY DEF StatusesTell, StatusTells, Latest
  <2>2. QED BY <1>1, <1>6, <1>7, <2>1 DEF UpToDate
<1>10. \A j \in Ordinals : j # i => (UpToDate(j)' <=> UpToDate(j))
  BY <1>1, <1>7 DEF UpToDate
<1>11. StatusesTell'
  <2>1. StatusTells(sts)'
    BY <1>1, <1>7, <1>9, <1>10 DEF StatusesTell, StatusTells, Latest, Observed, Updating
  <2>2. stsCache # NoSts => StatusTells(stsCache)'
    BY <1>1, <1>7, <1>9, <1>10 DEF StatusesTell, StatusTells, Latest, Observed, Updating
  <2>3. QED BY <1>1, <2>1, <2>2 DEF StatusesTell
<1>12. SamePod'
  BY <1>1, <1>3, <1>6, <1>7 DEF SamePod
<1>13. TargetsOutdated'
  BY <1>1, <1>3, <1>6, <1>7, <1>9, <1>10 DEF TargetsOutdated, Latest, Observed
<1>14. AllAtOnce' /\ (cleared => Observed(sts))'
  BY <1>1, <1>7, <1>9, <1>10 DEF AllAtOnce, Observed
<1>15. QED BY <1>8, <1>11, <1>12, <1>13, <1>14

-----------------------------------------------------------------------------
(* The state in which the operator first starts.                           *)
LEMMA StrategyInitially == StrategyInit => StrategyInv
<1> SUFFICES ASSUME StrategyInit PROVE StrategyInv
  OBVIOUS
<1> DEFINE t == FirstTemplate
           pod == NewPod(1, 1, t)
<1>1. t \in Templates /\ Replicas \in Nat
  BY StrategyAssumption, FS_CardinalityType DEF Replicas
<1>2. pod \in Pods /\ pod.there /\ pod.uid = 1 /\ pod.owner = 1 /\ pod.rev = t
  BY <1>1, NewPodIsPod
<1>3. sts = [uid |-> 1, gen |-> 1, template |-> t,
             status |-> [observed |-> 1, revision |-> t, replicas |-> Replicas,
                         updated |-> Replicas]]
  BY DEF StrategyInit
<1>4. /\ sts \in StatefulSets /\ sts.uid = 1 /\ sts.gen = 1 /\ sts.template = t
      /\ sts.status.observed = 1 /\ sts.status.revision = t
      /\ sts.status.replicas = Replicas /\ sts.status.updated = Replicas
  <2>1. [observed |-> 1, revision |-> t, replicas |-> Replicas, updated |-> Replicas]
           \in StatusValues
    BY <1>1 DEF StatusValues
  <2> HIDE DEF t
  <2>2. QED BY <1>1, <1>3, <2>1 DEF StatefulSets
<1> HIDE DEF pod, t
<1>5. /\ pods \in [Ordinals -> Pods] /\ \A i \in Ordinals : pods[i] = pod
      /\ stsCache = sts /\ podCache = pods
      /\ queued = FALSE /\ update = NoUpdate /\ cleared = FALSE
      /\ changes \in 0 .. MaxChanges
  <2>1. pods = [i \in Ordinals |-> pod]
    BY DEF StrategyInit, pod, t
  <2>2. changes = MaxChanges /\ MaxChanges \in 0 .. MaxChanges
    BY StrategyAssumption DEF StrategyInit
  <2>3. queued = FALSE /\ cleared = FALSE
    BY Zenon DEF StrategyInit
  <2>4. stsCache = sts /\ podCache = pods /\ update = NoUpdate
    BY Zenon DEF StrategyInit
  <2>5. QED BY <1>2, <2>1, <2>2, <2>3, <2>4
<1>6. StrategyTypeOK
  <2>1. sts \in StatefulSets /\ stsCache \in StatefulSets \cup {NoSts} /\ stsCache.uid \in 0..sts.uid
    BY <1>4, <1>5
  <2>2. \A i \in Ordinals : pods[i].there =>
           pods[i].uid # 0 /\ pods[i].owner \in 1..sts.uid /\ pods[i].rev \in Templates
    BY <1>1, <1>2, <1>4, <1>5
  <2>3. /\ sts.status.observed <= sts.gen /\ sts.status.updated \in 0..sts.status.replicas
        /\ sts.status.revision \in Templates
    BY <1>1, <1>4
  <2>4. QED BY <1>5, <2>1, <2>2, <2>3 DEF StrategyTypeOK
<1>7. StatusesTell
  BY <1>2, <1>4, <1>5 DEF StatusesTell, StatusTells, Latest, Observed, UpToDate
<1>8. SamePod /\ TargetsOutdated /\ AllAtOnce
  BY <1>5 DEF SamePod, TargetsOutdated, AllAtOnce
<1>9. QED BY <1>5, <1>6, <1>7, <1>8 DEF StrategyInv

(* StrategyInv is inductive.                                               *)
LEMMA StrategyStep == StrategyInv /\ [StrategyNext]_strategyVars => StrategyInv'
<1> SUFFICES ASSUME StrategyInv, [StrategyNext]_strategyVars PROVE StrategyInv'
  OBVIOUS
<1>1. CASE UNCHANGED strategyVars
  BY <1>1 DEF strategyVars, StrategyInv, StrategyTypeOK, StatusesTell, StatusTells, Latest,
     Observed, Updating, UpToDate, SamePod, TargetsOutdated, AllAtOnce
<1>2. QED BY <1>1, ReadStep, DeleteStep, InformersStep, NewGenerationStep, StsObservesStep,
             StsCreatesStep, EndsStep DEF StrategyNext

(* For any Pods, templates and number of disturbances: a reconcile that    *)
(* has read fresh caches and ended without an error leaves no Pod of an    *)
(* older revision behind that is not being deleted.                        *)
THEOREM StrategyInvariant == StrategySpec => []StrategyInv
<1>1. QED BY StrategyInitially, StrategyStep, PTL DEF StrategySpec

(* For any Pods, templates and number of disturbances: what the RisingWave *)
(* controller takes for a finished rollout is one, even when its copy of   *)
(* the StatefulSet is old, unless the StatefulSet has been changed since.  *)
THEOREM RolledOutIsUpdated == StrategySpec => []RolledOutMeansUpdated
<1>1. StrategyInv => RolledOutMeansUpdated
  <2> SUFFICES ASSUME StrategyInv, IsStatefulSetRolledOut(stsCache),
                      stsCache.uid = sts.uid, stsCache.gen = sts.gen
               PROVE  \A i \in Ordinals : pods[i].there /\ pods[i].owner = sts.uid => UpToDate(i)
    BY DEF RolledOutMeansUpdated
  <2>1. stsCache # NoSts /\ stsCache \in StatefulSets
    BY DEF IsStatefulSetRolledOut, StrategyInv, StrategyTypeOK
  <2>2. /\ stsCache.status.observed \in Nat /\ stsCache.gen \in Nat
        /\ stsCache.status.updated \in Nat /\ stsCache.status.replicas \in Nat
    BY <2>1 DEF StatefulSets, StatusValues
  <2>3. /\ stsCache.status.observed <= stsCache.gen
        /\ stsCache.status.updated <= stsCache.status.replicas
    BY <2>1 DEF StrategyInv, StrategyTypeOK
  <2>4. Latest(stsCache) /\ Observed(stsCache) /\ ~Updating(stsCache)
    BY <2>2, <2>3 DEF IsStatefulSetRolledOut, Latest, Observed, Updating
  <2>5. QED BY <2>1, <2>4 DEF StrategyInv, StatusesTell, StatusTells
<1>2. QED BY <1>1, StrategyInvariant, PTL

(* A step of the strategy that changes a Pod has the uid of one that it    *)
(* read as outdated.                                                       *)
LEMMA SparedStep ==
    ASSUME StrategyInv, [StrategyNext]_strategyVars, NEW i \in Ordinals,
           update.pc = "delete", update' # update, pods'[i] # pods[i]
    PROVE  ~UpToDate(i) \/ update.uid # sts.uid \/ update.gen # sts.gen
<1> USE DEF StrategyInv
<1>1. Delete
  BY DEF StrategyNext, strategyVars, Read, DeliverSts, DeliverPods, Restart, Edit, Recreate,
         StsObserves, StsCreates, StsRolls, PodEnds
<1>2. update \in Updates /\ update # NoUpdate
  BY NoneIsNone DEF StrategyTypeOK, NoUpdate
<1>3. PICK target \in update.rest :
         Precondition(target[1], target[2]) /\ pods' = Deleted(target[1])
  BY <1>1 DEF Delete
<1>4. target[1] \in Ordinals /\ target = <<target[1], target[2]>>
  BY <1>2 DEF Updates
<1>5. pods[target[1]].there /\ target[1] = i
  BY <1>3, <1>4, MarkDeleted DEF Deleted
<1>6. pods[i].uid = target[2]
  BY <1>3, <1>5 DEF Precondition
<1>7. <<i, pods[i].uid>> \in update.rest
  BY <1>3, <1>4, <1>5, <1>6
<1>8. QED BY <1>2, <1>5, <1>7 DEF TargetsOutdated, Latest

(* For any Pods, templates and number of disturbances: the strategy never  *)
(* deletes a Pod that is up to date, unless the StatefulSet has been       *)
(* changed since the reconcile read it.                                    *)
THEOREM PodsSpared == StrategySpec => UpToDatePodsSpared
<1>1. StrategyInv /\ [StrategyNext]_strategyVars =>
         [\A i \in Ordinals :
             update.pc = "delete" /\ update' # update /\ pods'[i] # pods[i] =>
                \/ ~UpToDate(i)
                \/ update.uid # sts.uid
                \/ update.gen # sts.gen]_strategyVars
  BY SparedStep
<1>2. QED BY <1>1, StrategyInvariant, PTL DEF StrategySpec, UpToDatePodsSpared
=============================================================================
