------------------------- MODULE MetaPodRoleLabeler -------------------------
(***************************************************************************)
(* The controller that labels every meta Pod with the role the meta node   *)
(* claims for itself.  It polls each Pod every two seconds, and when a Pod *)
(* turns out to be the new leader it also polls the Pods that are labelled *)
(* leader.  Pods are read from a cache that lags, they are replaced under  *)
(* the same name, the nodes elect leaders and learn of it one by one.      *)
(***************************************************************************)
EXTENDS Integers, FiniteSets

CONSTANTS
    MetaPods,       \* the names of the meta Pods
    MaxTroubles     \* bound: elections while there is a leader, Pods that are
                    \*   replaced, requests to nodes or the API server that fail

ASSUME LabelerAssumption == MaxTroubles \in Nat /\ MetaPods # {}

VARIABLES
    leader,     \* the Pod whose node is the leader, or NoPod
    view,       \* what each node finds about itself in its list of members
    metaPods,   \* the stored Pods: incarnation, label
    metaCache,  \* the Pods the informer shows
    polling,    \* Pods whose poll is in the work queue, now or in two seconds
    poll,       \* the reconcile in progress
    settled,    \* history: Pods polled since the nodes and the Pods changed last
    troubles    \* how many of MaxTroubles are left

labelerVars == <<leader, view, metaPods, metaCache, polling, poll, settled, troubles>>

NoPod == "none"
Roles == {"leader", "follower", "unknown"}
NoRole == ""

\* Pods appear here when they have an address; before, their polls have no
\* effect.  inc 0 stands for a Pod that does not exist.
Removed(n) == [inc |-> 0, last |-> n, label |-> NoRole]
Started(n) == [inc |-> n, last |-> n, label |-> NoRole]
NoPoll == [pc |-> "idle"]

\* the operator has started, and knows the Pods
LabelerInit ==
    /\ leader = CHOOSE p \in MetaPods : TRUE
    /\ view = [p \in MetaPods |-> IF p = leader THEN "leader" ELSE "follower"]
    /\ metaPods = [p \in MetaPods |-> Started(1)] /\ metaCache = metaPods
    /\ polling = MetaPods /\ poll = NoPoll /\ settled = {}
    /\ troubles = MaxTroubles

Trouble == troubles > 0 /\ troubles' = troubles - 1

Role(p) == IF p = leader THEN "leader" ELSE "follower"
Running(p) == metaPods[p].inc # 0

\* the nodes or the Pods change: a poll in progress, or made before, does not count
Unsettled == settled' = {} /\ poll' = IF poll = NoPoll THEN NoPoll ELSE [poll EXCEPT !.counts = FALSE]

-----------------------------------------------------------------------------
(* One reconcile.  known is the label in the copy from the cache, which is *)
(* what decides whether a patch is sent; role is what the node answered.   *)

Reconcile(p) ==
    /\ poll = NoPoll /\ p \in polling
    /\ \/ /\ metaCache[p].inc = 0 /\ polling' = polling \ {p} /\ UNCHANGED poll
       \/ /\ metaCache[p].inc # 0
          /\ poll' = [pc |-> "ask", for |-> p, pod |-> p, inc |-> metaCache[p].inc,
                      known |-> metaCache[p].label, role |-> NoRole, rest |-> {},
                      counts |-> metaCache[p] = metaPods[p]]
          /\ UNCHANGED polling
    /\ UNCHANGED <<leader, view, metaPods, metaCache, settled, troubles>>

\* what the copies of the other Pods that are labelled leader look like
LabelledLeader ==
    {[pod |-> q, inc |-> metaCache[q].inc, known |-> metaCache[q].label] :
        q \in {q \in MetaPods \ {poll.for} :
                  metaCache[q].inc # 0 /\ metaCache[q].label = "leader"}}

NewLeader(role) == poll.pod = poll.for /\ poll.known # "leader" /\ role = "leader"

\* go on with one of the Pods in rest, or end the reconcile
Continue_Demotes(rest, good) ==
    LET counts == poll.counts /\ (good \/ poll.pod # poll.for)
        done == IF good THEN settled ELSE settled \ {poll.pod} IN
    IF rest = {}
    THEN /\ poll' = NoPoll
         /\ settled' = IF counts THEN done \cup {poll.for} ELSE done
    ELSE /\ \E other \in rest :
              poll' = [poll EXCEPT !.pc = "patch", !.role = "follower", !.pod = other.pod, !.inc = other.inc,
                                   !.known = other.known, !.rest = rest \ {other},
                                   !.counts = counts]
         /\ settled' = done
Continue(rest, good) ==
    LET counts == poll.counts /\ (good \/ poll.pod # poll.for)
        done == IF good THEN settled ELSE settled \ {poll.pod} IN
    IF rest = {}
    THEN /\ poll' = NoPoll
         /\ settled' = IF counts THEN done \cup {poll.for} ELSE done
    ELSE /\ \E other \in rest :
              poll' = [poll EXCEPT !.pc = "ask", !.pod = other.pod, !.inc = other.inc,
                                   !.known = other.known, !.rest = rest \ {other},
                                   !.counts = counts]
         /\ settled' = done

Synced(role, good) == Continue(IF NewLeader(role) THEN LabelledLeader ELSE poll.rest, good)

\* The request goes to the address of the copy, so to the incarnation it
\* shows.  Without an answer the role is unknown.
getMetaRole_LabelsOnce ==
    /\ poll.pc = "ask"
    /\ \E answered \in BOOLEAN :
          LET there == metaPods[poll.pod].inc = poll.inc /\ Running(poll.pod)
              role == IF answered THEN view[poll.pod] ELSE "unknown"
              good == answered \/ ~there IN
          /\ answered => there
          /\ IF good THEN UNCHANGED troubles ELSE Trouble
          /\ IF poll.known # NoRole THEN Synced(role, good)
             ELSE /\ poll' = [poll EXCEPT !.pc = "patch", !.role = role,
                                          !.counts = @ /\ (good \/ poll.pod # poll.for)]
                  /\ settled' = IF good THEN settled ELSE settled \ {poll.pod}
    /\ UNCHANGED <<leader, view, metaPods, metaCache, polling>>
getMetaRole ==
    /\ poll.pc = "ask"
    /\ \E answered \in BOOLEAN :
          LET there == metaPods[poll.pod].inc = poll.inc /\ Running(poll.pod)
              role == IF answered THEN view[poll.pod] ELSE "unknown"
              good == answered \/ ~there IN
          /\ answered => there
          /\ IF good THEN UNCHANGED troubles ELSE Trouble
          /\ IF role = poll.known THEN Synced(role, good)
             ELSE /\ poll' = [poll EXCEPT !.pc = "patch", !.role = role,
                                          !.counts = @ /\ (good \/ poll.pod # poll.for)]
                  /\ settled' = IF good THEN settled ELSE settled \ {poll.pod}
    /\ UNCHANGED <<leader, view, metaPods, metaCache, polling>>

\* The patch names the Pod and nothing else, so it hits what has the name
\* now.  An error for the Pod itself ends the reconcile, one for another Pod
\* is logged.
Patch ==
    /\ poll.pc = "patch"
    /\ \/ /\ metaPods[poll.pod].inc # 0
          /\ metaPods' = [metaPods EXCEPT ![poll.pod].label = poll.role]
          /\ Synced(poll.role, TRUE)
          /\ UNCHANGED troubles
       \/ /\ IF metaPods[poll.pod].inc = 0 THEN UNCHANGED troubles ELSE Trouble
          /\ Continue(poll.rest, FALSE)
          /\ UNCHANGED metaPods
    /\ UNCHANGED <<leader, view, metaCache, polling>>

\* the informer delivers; the predicate lets running Pods pass
Deliver(p) ==
    /\ metaCache[p] # metaPods[p]
    /\ metaCache' = [metaCache EXCEPT ![p] = metaPods[p]]
    /\ polling' = IF Running(p) THEN polling \cup {p} ELSE polling
    /\ UNCHANGED <<leader, view, metaPods, poll, settled, troubles>>

-----------------------------------------------------------------------------
(* The meta nodes and the StatefulSet they run in.                         *)

\* after a leader is gone, or because one has lost its lease
Elect(p) ==
    /\ Running(p) /\ leader # p
    /\ leader' = p
    /\ IF leader = NoPod THEN UNCHANGED troubles ELSE Trouble
    /\ Unsettled
    /\ UNCHANGED <<view, metaPods, metaCache, polling>>

Learn(p) ==
    /\ Running(p) /\ leader # NoPod /\ view[p] # Role(p)
    /\ view' = [view EXCEPT ![p] = Role(p)]
    /\ Unsettled
    /\ UNCHANGED <<leader, metaPods, metaCache, polling, troubles>>

StartPod(p) ==
    /\ ~Running(p)
    /\ metaPods' = [metaPods EXCEPT ![p] = Started(@.last + 1)]
    /\ view' = [view EXCEPT ![p] = "unknown"]
    /\ Unsettled
    /\ UNCHANGED <<leader, metaCache, polling, troubles>>

RemovePod(p) ==
    /\ Running(p) /\ Trouble
    /\ metaPods' = [metaPods EXCEPT ![p] = Removed(@.last)]
    /\ leader' = IF leader = p THEN NoPod ELSE leader
    /\ Unsettled
    /\ UNCHANGED <<view, metaCache, polling>>

LabelerNext ==
    \/ getMetaRole \/ Patch
    \/ \E p \in MetaPods : Reconcile(p) \/ Deliver(p) \/ Elect(p) \/ Learn(p)
                              \/ StartPod(p) \/ RemovePod(p)

LabelerSpec == LabelerInit /\ [][LabelerNext]_labelerVars

-----------------------------------------------------------------------------
Labels == Roles \cup {NoRole}
Copies == [inc : Nat, last : Nat, label : Labels]
Polls ==
    [pc : {"ask", "patch"}, for : MetaPods, pod : MetaPods, inc : Nat, known : Labels,
     role : Labels, rest : SUBSET [pod : MetaPods, inc : Nat, known : Labels],
     counts : BOOLEAN]

(* Types of the state.  The Pod whose poll is under way stays scheduled:   *)
(* each reconcile asks for the next one.                                   *)
LabelerTypeOK ==
    /\ leader \in MetaPods \cup {NoPod} /\ view \in [MetaPods -> Roles]
    /\ metaPods \in [MetaPods -> Copies] /\ metaCache \in [MetaPods -> Copies]
    /\ \A c \in {metaPods, metaCache} : \A p \in MetaPods : c[p].inc \in {0, c[p].last}
    /\ polling \subseteq MetaPods /\ settled \subseteq MetaPods
    /\ poll \in Polls \cup {NoPoll}
    /\ poll # NoPoll => poll.for \in polling
    /\ troubles \in 0 .. MaxTroubles

(* Once a Pod has been polled with a fresh copy, and as long as neither    *)
(* nodes nor Pods change and no request fails, its label is what its node  *)
(* claims: later polls, with copies that are out of date again, and polls  *)
(* of other Pods that find a leader, never put a wrong label back.         *)
PolledStaysRight == \A p \in settled : metaPods[p].label = view[p]

\* the cache has caught up with a Pod that counts as polled, and so has the poll
CaughtUp(p) == Running(p) /\ metaCache[p].inc = metaPods[p].inc

PollsCatchUp ==
    /\ \A p \in settled : CaughtUp(p)
    /\ poll # NoPoll =>
          /\ poll.pod \in settled => poll.inc = metaPods[poll.pod].inc
          /\ \A copy \in poll.rest :
                /\ copy.pod # poll.for
                /\ copy.pod \in settled => copy.inc = metaPods[copy.pod].inc

\* what is about to be written to a Pod that counts as polled is right
PatchesRight ==
    poll # NoPoll /\ poll.pc = "patch" /\ poll.pod \in settled => poll.role = view[poll.pod]

\* a poll that will count reads what is stored, and then writes what is right
PollCounts ==
    poll # NoPoll /\ poll.counts =>
        /\ CaughtUp(poll.for)
        /\ poll.pod # poll.for => metaPods[poll.for].label = view[poll.for]
        /\ poll.pod = poll.for /\ poll.pc = "patch" => poll.role = view[poll.for]
        /\ poll.pod = poll.for /\ poll.pc = "ask" =>
              poll.known = metaPods[poll.for].label /\ poll.inc = metaPods[poll.for].inc

(* The types, labels that stay right once they are, and why.               *)
LabelerInv ==
    LabelerTypeOK /\ PolledStaysRight /\ PollsCatchUp /\ PatchesRight /\ PollCounts

LabelsRight == \A p \in MetaPods : metaPods[p].label = Role(p)

=============================================================================
