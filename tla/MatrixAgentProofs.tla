------------------------- MODULE MatrixAgentProofs -------------------------
(***************************************************************************)
(* For any resources, namespaces, names, policies, edits and failures: the *)
(* variables of MatrixAgentOperator keep their types, no resource gets the *)
(* token of an agent that it neither created nor adopted, and a resource   *)
(* goes with the policy and the account that the pass went by.             *)
(***************************************************************************)
EXTENDS MatrixAgentProperties, TLAPS

USE ResourceAssumption, NameAssumption, KindAssumption, LimitAssumption

\* The parts of TypeOK.
ClusterType ==
    /\ res \in [Resources -> ResourceRecord]
    /\ target \in [Resources -> TargetRecord]
    /\ running \in [Resources -> Nat]
ServiceType == agents \in [Names -> AgentRecord] /\ accounts \subseteq Names /\ issued \in Nat
PassType ==
    /\ at \in Labels /\ unlisted \subseteq Namespaces
    /\ view \in [Resources -> ResourceRecord]
    /\ stale \subseteq Resources /\ todo \subseteq Resources
    /\ cur \in Resources \cup {0}
    /\ st \in StatusRecord /\ rec \in AgentRecord
HistoryType ==
    /\ asked \in [Resources -> BOOLEAN]
    /\ granted \subseteq Resources \X Names \X {"created", "adopted"}
    /\ faults \in Nat /\ outside \in Nat

LEMMA TypeParts == TypeOK <=> ClusterType /\ ServiceType /\ PassType /\ HistoryType
BY DEF TypeOK, ClusterType, ServiceType, PassType, HistoryType

\* The records that the steps are made of.
LEMMA Constants ==
  /\ NoStatus \in StatusRecord /\ NoAgent \in AgentRecord /\ FirstAgent \in AgentRecord
  /\ NoTarget \in TargetRecord /\ Missing \in ResourceRecord /\ Gone \in ResourceRecord
<1>1. NoStatus \in StatusRecord
  BY DEF NoStatus, StatusRecord, Phases
<1>2. NoAgent \in AgentRecord /\ FirstAgent \in AgentRecord
  BY DEF NoAgent, FirstAgent, AgentRecord
<1>3. NoTarget \in TargetRecord
  BY DEF NoTarget, TargetRecord
<1>4. Missing \in ResourceRecord /\ Gone \in ResourceRecord
  BY DEF ResourceRecord
<1> QED
  BY <1>1, <1>2, <1>3, <1>4

\* What an object that is there consists of.
LEMMA RealRecord ==
  ASSUME NEW o \in ResourceRecord, Real(o)
  PROVE  /\ o \in [state : {"here", "deleting"}, finalizer : BOOLEAN, spec : SpecRecord,
                   status : StatusRecord]
         /\ o.spec \in SpecRecord /\ o.spec.agent \in Names /\ o.spec.rotation \in Nat
         /\ o.status \in StatusRecord /\ o.status.uid \in Names \cup {None}
<1>1. o \in [state : {"here", "deleting"}, finalizer : BOOLEAN, spec : SpecRecord,
             status : StatusRecord]
  BY DEF ResourceRecord, Real, Missing, Gone
<1>2. o.spec \in SpecRecord /\ o.status \in StatusRecord
  BY <1>1
<1> QED
  BY <1>1, <1>2 DEF SpecRecord, StatusRecord

LEMMA InHand ==
  ASSUME IInv, at \in Working
  PROVE  /\ cur \in Resources /\ Obj \in ResourceRecord /\ Real(Obj)
         /\ Agent \in Names /\ Obj.spec \in SpecRecord /\ Obj.spec.rotation \in Nat
<1>1. cur \in Resources /\ Real(Obj)
  BY DEF IInv, PassOK
<1>2. Obj \in ResourceRecord
  BY <1>1 DEF IInv, TypeOK, Obj
<1> QED
  BY <1>1, <1>2, RealRecord DEF Agent

LEMMA InitInv == Init => IInv
<1> SUFFICES ASSUME Init PROVE IInv
  OBVIOUS
<1>1. PICK a \in Names, policy \in Policies :
          /\ res = [r \in Resources |->
                      IF r \in Established THEN ReadyResource(a, policy) ELSE Missing]
          /\ target \in [Resources ->
                {NoTarget, [state |-> "owned", agent |-> a, token |-> 1, gen |-> 1]}
                  \cup {[NoTarget EXCEPT !.state = "foreign", !.token = t] : t \in 0..1}]
          /\ \A r \in Resources : target[r].state = "owned" <=> r \in Established
          /\ agents \in [Names -> {NoAgent, FirstAgent}] /\ accounts \in SUBSET Names
          /\ granted = Established \X {a} \X {"created"}
  BY DEF Init
<1>2. ClusterType
  <2>1. ReadyResource(a, policy) \in ResourceRecord
    BY DEF ReadyResource, ResourceRecord, SpecRecord, StatusRecord, Phases
  <2>2. res \in [Resources -> ResourceRecord]
    BY <1>1, <2>1, Constants
  <2>3. [state |-> "owned", agent |-> a, token |-> 1, gen |-> 1] \in TargetRecord
    BY DEF TargetRecord
  <2>4. ASSUME NEW t \in 0..1
        PROVE  [NoTarget EXCEPT !.state = "foreign", !.token = t] \in TargetRecord
    <3>1. t \in Nat /\ NoTarget \in TargetRecord
      BY Constants
    <3> QED
      BY <3>1, Constants DEF TargetRecord
  <2>5. \A r \in Resources : target[r] \in TargetRecord
    BY <1>1, <2>3, <2>4, Constants
  <2>6. target \in [Resources -> TargetRecord]
    BY <1>1, <2>5
  <2>7. running \in [Resources -> Nat]
    BY <2>5 DEF Init, TargetRecord
  <2> QED
    BY <2>2, <2>6, <2>7 DEF ClusterType
<1>3. ServiceType
  BY <1>1, Constants DEF Init, ServiceType
<1>4. PassType
  BY Constants DEF Init, PassType, Labels
<1>5. HistoryType
  BY <1>1 DEF Init, HistoryType
<1>6. PassOK
  BY DEF Init, PassOK, Working, Holding
<1>7. ASSUME NEW r \in Established PROVE Took(r, a)
  BY <1>1, <1>7 DEF Took
<1>8. StatusOK
  BY <1>1, <1>7 DEF Init, StatusOK, Real, Missing, ReadyResource
<1>9. NoTakeover
  <2> SUFFICES ASSUME NEW r \in Resources, target[r].state = "owned"
               PROVE  Took(r, target[r].agent)
    BY DEF NoTakeover
  <2>1. NoTarget.state = "absent" /\ \A t : [NoTarget EXCEPT !.state = "foreign", !.token = t].state = "foreign"
    BY DEF NoTarget
  <2>2. target[r] \in {NoTarget, [state |-> "owned", agent |-> a, token |-> 1, gen |-> 1]}
                       \cup {[NoTarget EXCEPT !.state = "foreign", !.token = t] : t \in 0..1}
    BY <1>1
  <2>3. target[r] = [state |-> "owned", agent |-> a, token |-> 1, gen |-> 1]
    BY <2>1, <2>2
  <2>4. target[r].agent = a
    BY <2>3
  <2> QED
    BY <1>1, <1>7, <2>4
<1> QED
  BY <1>2, <1>3, <1>4, <1>5, <1>6, <1>8, <1>9, TypeParts DEF IInv

-----------------------------------------------------------------------------
(* What steps leave alone. *)

\* Taken once the step is done.
TookNext(r, a) == \E how \in {"created", "adopted"} : <<r, a, how>> \in granted'

LEMMA TookGrows ==
  ASSUME granted \subseteq granted' PROVE \A r, a : Took(r, a) => TookNext(r, a)
BY DEF Took, TookNext

LEMMA SameStatus ==
  ASSUME IInv, granted \subseteq granted', UNCHANGED <<res, view>> PROVE StatusOK'
<1>1. ASSUME NEW r \in Resources
      PROVE  /\ Real(res[r]) /\ res[r].status.uid # None => TookNext(r, res[r].status.uid)
             /\ Real(view[r]) /\ view[r].status.uid # None => TookNext(r, view[r].status.uid)
  BY TookGrows DEF IInv, StatusOK
<1> QED
  BY <1>1 DEF StatusOK, Took, TookNext, Real

LEMMA SameTarget ==
  ASSUME IInv, granted \subseteq granted', UNCHANGED target PROVE NoTakeover'
<1>1. ASSUME NEW r \in Resources, target[r].state = "owned" PROVE TookNext(r, target[r].agent)
  BY <1>1, TookGrows DEF IInv, NoTakeover
<1> QED
  BY <1>1 DEF NoTakeover, Took, TookNext

\* The pass goes on with the object in hand.
LEMMA OnwardOK ==
  ASSUME IInv, at \in Working, UNCHANGED <<todo, view, cur>>,
         st'.uid # None => TookNext(cur, st'.uid),
         at' \in Holding => TookNext(cur, Agent)
  PROVE  PassOK'
<1>1. cur \in Resources /\ Real(Obj) /\ \A r \in todo : Real(view[r])
  BY DEF IInv, PassOK
<1> QED
  BY <1>1 DEF PassOK, Obj, Agent, Took, TookNext, Real

LEMMA ProceedOK ==
  ASSUME IInv, granted \subseteq granted', at \in Working, NEW label \in Labels, Proceed(label),
         label \in Holding => TookNext(cur, Agent)
  PROVE  PassOK' /\ PassType'
<1>1. st.uid # None => TookNext(cur, st.uid)
  BY TookGrows DEF IInv, PassOK
<1>2. PassType'
  BY DEF IInv, TypeOK, PassType, Proceed
<1>3. st' = st /\ at' = label /\ UNCHANGED <<todo, view, cur>>
  BY DEF Proceed
<1> QED
  BY <1>1, <1>2, <1>3, OnwardOK

LEMMA ReportOK ==
  ASSUME IInv, granted \subseteq granted', at \in Working, NEW phase \in Phases, Report(phase)
  PROVE  PassOK' /\ PassType'
<1>1. st.uid # None => TookNext(cur, st.uid)
  BY TookGrows DEF IInv, PassOK
<1>2. st' \in StatusRecord /\ st'.uid = st.uid
  BY DEF IInv, TypeOK, Report, StatusRecord
<1>3. PassType'
  BY <1>2 DEF IInv, TypeOK, PassType, Report, Labels
<1>4. at' = "status" /\ at' \notin Holding /\ UNCHANGED <<todo, view, cur>>
  BY DEF Report, Holding
<1> QED
  BY <1>1, <1>2, <1>3, <1>4, OnwardOK

\* What a step of the pass has to show.
LEMMA StepPreserves ==
  ASSUME ClusterType', ServiceType', PassType', HistoryType', PassOK', StatusOK', NoTakeover'
  PROVE  IInv'
BY TypeParts, PTL DEF IInv

-----------------------------------------------------------------------------
(* The list *)

\* A step that touches the cluster, the agents and the history in nothing.
LEMMA QuietTypes ==
  ASSUME IInv, UNCHANGED <<cluster, service, asked>>, faults' \in Nat, outside' \in Nat,
         granted' \subseteq Resources \X Names \X {"created", "adopted"}
  PROVE  ClusterType' /\ ServiceType' /\ HistoryType'
BY DEF IInv, TypeOK, ClusterType, ServiceType, HistoryType, cluster, service

LEMMA FaultType ==
  ASSUME IInv, NEW kind, NoFault \/ Fault(kind) PROVE faults' \in Nat
BY DEF IInv, TypeOK, NoFault, Fault

LEMMA BeginPassStep == ASSUME IInv, BeginPass PROVE IInv'
<1>1. ClusterType' /\ ServiceType' /\ HistoryType'
  BY QuietTypes DEF BeginPass, NoFault, History, Inside, IInv, TypeOK
<1>2. PassType'
  BY DEF IInv, TypeOK, PassType, BeginPass, Labels
<1>3. PassOK'
  BY DEF IInv, PassOK, BeginPass, Working, Holding
<1>4. StatusOK' /\ NoTakeover'
  BY SameStatus, SameTarget DEF BeginPass, cluster, History
<1> QED
  BY <1>1, <1>2, <1>3, <1>4, StepPreserves

LEMMA ListNamespaceStep == ASSUME IInv, ListNamespace PROVE IInv'
<1>1. PICK ns \in unlisted :
          LET found == {r \in Resources : NamespaceOf[r] = ns /\ res[r].state \in {"here", "deleting"}}
          IN  /\ unlisted' = unlisted \ {ns}
              /\ \/ /\ view' = [r \in Resources |-> IF r \in found THEN res[r] ELSE view[r]]
                    /\ todo' = todo \cup found /\ NoFault
                 \/ UNCHANGED <<view, todo>> /\ Fault("list")
  BY DEF ListNamespace
<1> DEFINE found == {r \in Resources : NamespaceOf[r] = ns /\ res[r].state \in {"here", "deleting"}}
<1>2. faults' \in Nat
  BY <1>1, FaultType
<1>3. ClusterType' /\ ServiceType' /\ HistoryType'
  BY <1>2, QuietTypes DEF ListNamespace, History, Inside, IInv, TypeOK
<1>4. \A r \in found : Real(res[r])
  BY DEF Real
<1>5. /\ view' \in [Resources -> ResourceRecord] /\ todo' \subseteq Resources
      /\ \A r \in todo' : Real(view'[r])
      /\ \A r \in Resources : view'[r] \in {view[r], res[r]}
  BY <1>1, <1>4 DEF IInv, TypeOK, PassOK, Real
<1>6. at' \in {"next", "list"} /\ unlisted' \subseteq Namespaces
  BY <1>1 DEF IInv, TypeOK, ListNamespace
<1>7. PassType'
  BY <1>5, <1>6 DEF IInv, TypeOK, PassType, ListNamespace, Labels
<1>8. PassOK'
  BY <1>5, <1>6 DEF PassOK, Working, Holding, Real
<1>9. StatusOK'
  BY <1>5 DEF IInv, StatusOK, ListNamespace, History, cluster, Took, Real
<1>10. NoTakeover'
  BY SameTarget DEF ListNamespace, History, cluster
<1> QED
  BY <1>3, <1>7, <1>8, <1>9, <1>10, StepPreserves

LEMMA ReconcileStep == ASSUME IInv, Reconcile PROVE IInv'
<1>1. PICK r \in todo :
         /\ cur' = r /\ todo' = todo \ {r}
         /\ at' \in Labels \ Holding
         /\ \/ st' = view[r].status
            \/ \E phase \in Phases : st' = [view[r].status EXCEPT !.phase = phase]
  BY DEF Reconcile, Labels, Holding, Phases
<1>2. r \in Resources /\ Real(view[r]) /\ view[r] \in ResourceRecord
  BY DEF IInv, TypeOK, PassOK
<1>3. view[r].status \in StatusRecord
  BY <1>2, RealRecord
<1>4. st' \in StatusRecord /\ st'.uid = view[r].status.uid
  BY <1>1, <1>3 DEF StatusRecord
<1>5. ClusterType' /\ ServiceType' /\ HistoryType'
  BY QuietTypes DEF Reconcile, NoFault, History, Inside, IInv, TypeOK
<1>6. PassType'
  BY <1>1, <1>2, <1>4, Constants DEF IInv, TypeOK, PassType, Reconcile
<1>7. PassOK'
  BY <1>1, <1>2, <1>4 DEF IInv, PassOK, StatusOK, Reconcile, Obj, Took, History, Real
<1>8. StatusOK' /\ NoTakeover'
  BY SameStatus, SameTarget DEF Reconcile, cluster, History
<1> QED
  BY <1>5, <1>6, <1>7, <1>8, StepPreserves

\* The pass is over, or was cut off.
LEMMA AsleepOK ==
  ASSUME IInv, at' = "sleep", todo' = {}, view' = [r \in Resources |-> Missing],
         UNCHANGED <<cluster, granted>>
  PROVE  PassOK' /\ StatusOK' /\ NoTakeover'
<1>1. PassOK'
  BY DEF PassOK, Working, Holding
<1>2. StatusOK'
  BY DEF IInv, StatusOK, Took, Real, Missing, cluster
<1>3. NoTakeover'
  BY SameTarget DEF cluster
<1> QED
  BY <1>1, <1>2, <1>3

LEMMA EndPassStep == ASSUME IInv, EndPass PROVE IInv'
<1>1. ClusterType' /\ ServiceType' /\ HistoryType'
  BY QuietTypes DEF EndPass, NoFault, History, Inside, IInv, TypeOK
<1>2. PassType'
  BY Constants DEF IInv, TypeOK, PassType, EndPass, Labels
<1>3. PassOK' /\ StatusOK' /\ NoTakeover'
  BY AsleepOK DEF EndPass, History
<1> QED
  BY <1>1, <1>2, <1>3, StepPreserves

LEMMA CrashStep == ASSUME IInv, Crash PROVE IInv'
<1>1. faults' \in Nat
  BY FaultType DEF Crash
<1>2. ClusterType' /\ ServiceType' /\ HistoryType'
  BY <1>1, QuietTypes DEF Crash, History, Inside, IInv, TypeOK
<1>3. PassType'
  BY Constants DEF IInv, TypeOK, PassType, Crash, Labels
<1>4. PassOK' /\ StatusOK' /\ NoTakeover'
  BY AsleepOK DEF Crash, History
<1> QED
  BY <1>2, <1>3, <1>4, StepPreserves

-----------------------------------------------------------------------------
(* Writes to a MatrixAgent *)

\* An object with another finalizer, status, spec or state.
LEMMA Edited ==
  ASSUME NEW o \in ResourceRecord, Real(o)
  PROVE  /\ \A f \in BOOLEAN :
               LET e == [o EXCEPT !.finalizer = f] IN
               /\ e \in ResourceRecord /\ Real(e) /\ e.spec = o.spec /\ e.status = o.status
         /\ \A t \in StatusRecord :
               LET e == [o EXCEPT !.status = t] IN e \in ResourceRecord /\ e.status = t
         /\ \A s \in SpecRecord :
               LET e == [o EXCEPT !.spec = s] IN e \in ResourceRecord /\ e.status = o.status
         /\ LET e == [o EXCEPT !.state = "deleting"] IN
            e \in ResourceRecord /\ e.status = o.status
<1>1. o \in [state : {"here", "deleting"}, finalizer : BOOLEAN, spec : SpecRecord,
             status : StatusRecord]
  BY RealRecord
<1> QED
  BY <1>1 DEF ResourceRecord, Real

\* A step writes no status but one whose account was taken.
ResKept ==
    \A r \in Resources :
        Real(res'[r]) => \/ Real(res[r]) /\ res'[r].status = res[r].status
                         \/ res'[r].status.uid # None => Took(r, res'[r].status.uid)
ViewKept ==
    \A r \in Resources : Real(view'[r]) => Real(view[r]) /\ view'[r].status = view[r].status

LEMMA StatusKept ==
  ASSUME IInv, granted \subseteq granted', ResKept, ViewKept PROVE StatusOK'
<1>1. ASSUME NEW r \in Resources
      PROVE  /\ Real(res'[r]) /\ res'[r].status.uid # None => TookNext(r, res'[r].status.uid)
             /\ Real(view'[r]) /\ view'[r].status.uid # None => TookNext(r, view'[r].status.uid)
  BY TookGrows DEF IInv, StatusOK, ResKept, ViewKept
<1> QED
  BY <1>1 DEF StatusOK, Took, TookNext, Real

LEMMA AddFinalizerStep == ASSUME IInv, AddFinalizer PROVE IInv'
<1>1. at = "finalizer" /\ at \in Working
  BY DEF AddFinalizer, Working, Labels
<1>2. cur \in Resources /\ Obj \in ResourceRecord /\ Real(Obj)
  BY <1>1, InHand
<1>3. /\ \/ UNCHANGED res
         \/ Fresh /\ res' = [res EXCEPT ![cur].finalizer = TRUE]
      /\ \/ Abandon
         \/ /\ at' = "read" /\ view' = [view EXCEPT ![cur].finalizer = TRUE]
            /\ UNCHANGED <<unlisted, stale, todo, cur, st, rec>>
      /\ faults' \in Nat
  BY FaultType DEF AddFinalizer, Call
<1>4. res' \in [Resources -> ResourceRecord]
      /\ ResKept
  <2>1. CASE UNCHANGED res
    BY <2>1 DEF IInv, TypeOK, ResKept
  <2>2. CASE Fresh /\ res' = [res EXCEPT ![cur].finalizer = TRUE]
    <3>1. res \in [Resources -> ResourceRecord] /\ res[cur] \in ResourceRecord /\ Real(res[cur])
      BY <1>2, <2>2 DEF IInv, TypeOK, Fresh, Real
    <3>2. [res[cur] EXCEPT !.finalizer = TRUE] \in ResourceRecord
          /\ [res[cur] EXCEPT !.finalizer = TRUE].status = res[cur].status
      BY <3>1, Edited
    <3> QED
      BY <1>2, <2>2, <3>1, <3>2 DEF ResKept
  <2> QED
    BY <1>3, <2>1, <2>2
<1>5. UNCHANGED <<target, running, agents, accounts, issued, asked, granted, outside>>
  BY DEF AddFinalizer, service, History, Inside
<1>6. ClusterType' /\ ServiceType' /\ HistoryType'
  BY <1>3, <1>4, <1>5 DEF IInv, TypeOK, ClusterType, ServiceType, HistoryType
<1>7. NoTakeover'
  BY <1>5, SameTarget
<1>8. CASE Abandon
  <2>1. UNCHANGED view /\ ViewKept
    BY <1>8 DEF Abandon, Proceed, ViewKept
  <2>2. StatusOK'
    BY <1>4, <1>5, <2>1, StatusKept
  <2>3. PassOK' /\ PassType'
    BY <1>1, <1>5, <1>8, ProceedOK DEF Abandon, Labels, Holding
  <2> QED
    BY <1>6, <1>7, <2>2, <2>3, StepPreserves
<1>9. CASE /\ at' = "read" /\ view' = [view EXCEPT ![cur].finalizer = TRUE]
           /\ UNCHANGED <<unlisted, stale, todo, cur, st, rec>>
  <2>1. view \in [Resources -> ResourceRecord] /\ view[cur] \in ResourceRecord /\ Real(view[cur])
    BY <1>2 DEF IInv, TypeOK, Obj
  <2>2. LET e == [view[cur] EXCEPT !.finalizer = TRUE] IN
        e \in ResourceRecord /\ Real(e) /\ e.status = view[cur].status
    BY <2>1, Edited
  <2>3. /\ view' \in [Resources -> ResourceRecord]
        /\ \A r \in Resources : /\ Real(view[r]) <=> Real(view'[r])
                               /\ view'[r].status = view[r].status
        /\ ViewKept
    BY <1>2, <1>9, <2>1, <2>2 DEF ViewKept
  <2>4. StatusOK'
    BY <1>4, <1>5, <2>3, StatusKept
  <2>5. PassType'
    BY <1>9, <2>3 DEF IInv, TypeOK, PassType, Labels
  <2>6. PassOK'
    BY <1>1, <1>2, <1>5, <1>9, <2>3 DEF IInv, TypeOK, PassOK, Obj, Took, Holding, Real
  <2> QED
    BY <1>6, <1>7, <2>4, <2>5, <2>6, StepPreserves
<1> QED
  BY <1>3, <1>8, <1>9

LEMMA WriteStatusStep == ASSUME IInv, WriteStatus PROVE IInv'
<1>1. at \in Working /\ "next" \in Labels /\ "next" \notin Holding
  BY DEF WriteStatus, Working, Labels, Holding
<1>2. cur \in Resources /\ (st.uid # None => Took(cur, st.uid)) /\ st \in StatusRecord
  BY <1>1 DEF IInv, TypeOK, PassOK
<1>3. /\ \/ UNCHANGED res
         \/ Fresh /\ res' = [res EXCEPT ![cur].status = st]
      /\ Abandon /\ faults' \in Nat
  BY FaultType DEF WriteStatus, Call
<1>4. UNCHANGED <<target, running, agents, accounts, issued, asked, granted, outside>>
  BY DEF WriteStatus, service, History, Inside
<1>5. /\ res' \in [Resources -> ResourceRecord]
      /\ ResKept
  <2>1. CASE UNCHANGED res
    BY <2>1 DEF IInv, TypeOK, ResKept
  <2>2. CASE Fresh /\ res' = [res EXCEPT ![cur].status = st]
    <3>1. res \in [Resources -> ResourceRecord] /\ res[cur] \in ResourceRecord /\ Real(res[cur])
      BY <1>2, <2>2 DEF IInv, TypeOK, Fresh, Real
    <3>2. LET e == [res[cur] EXCEPT !.status = st] IN e \in ResourceRecord /\ e.status = st
      BY <1>2, <3>1, Edited
    <3> QED
      BY <1>2, <2>2, <3>1, <3>2 DEF ResKept
  <2> QED
    BY <1>3, <2>1, <2>2
<1>6. ViewKept /\ PassOK' /\ PassType'
  BY <1>1, <1>3, <1>4, ProceedOK DEF Abandon, Proceed, ViewKept
<1>7. StatusOK' /\ NoTakeover'
  BY <1>4, <1>5, <1>6, StatusKept, SameTarget
<1>8. ClusterType' /\ ServiceType' /\ HistoryType'
  BY <1>3, <1>4, <1>5 DEF IInv, TypeOK, ClusterType, ServiceType, HistoryType
<1> QED
  BY <1>6, <1>7, <1>8, StepPreserves

\* An object that is gone takes its Secret with it.
LEMMA VanishOK ==
  ASSUME IInv, NEW r \in Resources, Vanish(r), UNCHANGED <<view, granted, running>>
  PROVE  ClusterType' /\ StatusOK' /\ NoTakeover'
<1>1. /\ res' \in [Resources -> ResourceRecord]
      /\ ResKept /\ ViewKept
  BY Constants DEF IInv, TypeOK, Vanish, Real, Gone, ResKept, ViewKept
<1>2. /\ target' \in [Resources -> TargetRecord]
      /\ \A q \in Resources : target'[q].state = "owned" => target'[q] = target[q]
  BY Constants DEF IInv, TypeOK, Vanish, NoTarget
<1>3. StatusOK'
  BY <1>1, StatusKept
<1>4. NoTakeover'
  BY <1>2 DEF IInv, NoTakeover, Took
<1> QED
  BY <1>1, <1>2, <1>3, <1>4 DEF IInv, TypeOK, ClusterType

LEMMA RemoveFinalizerStep == ASSUME IInv, RemoveFinalizer PROVE IInv'
<1>1. at \in Working /\ "next" \in Labels /\ "next" \notin Holding
  BY DEF RemoveFinalizer, Working, Labels, Holding
<1>2. /\ Vanish(cur) \/ UNCHANGED <<res, target>>
      /\ Abandon /\ faults' \in Nat
  BY FaultType DEF RemoveFinalizer, Call
<1>3. UNCHANGED <<running, agents, accounts, issued, asked, granted, outside>>
  BY DEF RemoveFinalizer, service, History, Inside
<1>4. UNCHANGED view /\ PassOK' /\ PassType'
  BY <1>1, <1>2, <1>3, ProceedOK DEF Abandon, Proceed
<1>5. ClusterType' /\ StatusOK' /\ NoTakeover'
  <2>1. CASE Vanish(cur)
    BY <1>1, <1>3, <1>4, <2>1, InHand, VanishOK
  <2>2. CASE UNCHANGED <<res, target>>
    BY <1>3, <1>4, <2>2, SameStatus, SameTarget DEF IInv, TypeOK, ClusterType
  <2> QED
    BY <1>2, <2>1, <2>2
<1>6. ServiceType' /\ HistoryType'
  BY <1>2, <1>3 DEF IInv, TypeOK, ServiceType, HistoryType
<1> QED
  BY <1>4, <1>5, <1>6, StepPreserves

-----------------------------------------------------------------------------
(* The agent *)

\* Who is not foreign took the agent before, or adopts it now.
LEMMA ReadAgentStep == ASSUME IInv, ReadAgent PROVE IInv'
<1>1. at \in Working /\ "create" \in Labels /\ "create" \notin Holding
      /\ {"Failed", "Conflict"} \subseteq Phases
  BY DEF ReadAgent, Working, Labels, Holding, Phases
<1>2. cur \in Resources /\ Agent \in Names /\ Obj.spec.rotation \in Nat
  BY <1>1, InHand
<1>3. /\ granted' = granted \/ granted' = granted \cup {<<cur, Agent, "adopted">>}
      /\ UNCHANGED <<cluster, service, asked, outside, view>>
  BY DEF ReadAgent, Proceed, Report, Failed, Inside
<1>4. granted \subseteq granted' /\ granted' \subseteq Resources \X Names \X {"created", "adopted"}
  BY <1>2, <1>3 DEF IInv, TypeOK
<1>5. faults' \in Nat
  BY FaultType DEF ReadAgent
<1>6. ClusterType' /\ ServiceType' /\ HistoryType'
  BY <1>3, <1>4, <1>5, QuietTypes DEF IInv, TypeOK
<1>7. StatusOK' /\ NoTakeover'
  BY <1>3, <1>4, SameStatus, SameTarget DEF cluster
<1>8. CASE Failed \/ Report("Conflict")
  BY <1>1, <1>4, <1>6, <1>7, <1>8, ReportOK, StepPreserves DEF Failed
<1>9. CASE Proceed("create")
  BY <1>1, <1>4, <1>6, <1>7, <1>9, ProceedOK, StepPreserves
<1>10. ASSUME NEW label \in {"rotate", "reread"}, ~Foreign(Agent), at' = label,
              st' = IF label = "reread" THEN [st EXCEPT !.rotation = Obj.spec.rotation] ELSE st,
              granted' = IF st.uid = None /\ Obj.spec.adopt
                         THEN granted \cup {<<cur, Agent, "adopted">>} ELSE granted,
              UNCHANGED <<unlisted, view, stale, todo, cur, rec>>
       PROVE  IInv'
  <2>1. st' \in StatusRecord /\ st'.uid = st.uid
    BY <1>2, <1>10 DEF IInv, TypeOK, StatusRecord
  <2>2. st.uid # None => Took(cur, st.uid)
    BY <1>1 DEF IInv, PassOK
  <2>3. TookNext(cur, Agent)
    <3>1. CASE st.uid = None /\ Obj.spec.adopt
      BY <1>10, <3>1 DEF TookNext
    <3>2. CASE st.uid # None /\ st.uid = Agent
      BY <1>4, <2>2, <3>2, TookGrows
    <3> QED
      BY <1>10, <3>1, <3>2 DEF Foreign
  <2>4. st.uid # None => TookNext(cur, st.uid)
    BY <1>4, <2>2, TookGrows
  <2>5. PassOK'
    BY <1>1, <1>10, <2>1, <2>3, <2>4, OnwardOK
  <2>6. PassType'
    BY <1>10, <2>1 DEF IInv, TypeOK, PassType, Labels
  <2> QED
    BY <1>6, <1>7, <2>5, <2>6, StepPreserves
<1> QED
  BY <1>8, <1>9, <1>10 DEF ReadAgent

\* The agent has lost its token.
LEMMA WithdrawnType ==
  ASSUME agents \in [Names -> AgentRecord], NEW a \in Names, NEW s \in {"revoked", "deactivated"}
  PROVE  [agents EXCEPT ![a].status = s, ![a].token = 0] \in [Names -> AgentRecord]
<1> DEFINE r == [agents[a] EXCEPT !.status = s, !.token = 0]
<1>1. agents[a] \in AgentRecord
  OBVIOUS
<1>2. r \in AgentRecord
  BY <1>1 DEF AgentRecord
<1>3. [agents EXCEPT ![a].status = s, ![a].token = 0] = [agents EXCEPT ![a] = r]
  OBVIOUS
<1> HIDE DEF r
<1> QED
  BY <1>2, <1>3

\* The agent has a token again.
LEMMA RenewType ==
  ASSUME IInv, NEW a \in Names, NEW gen \in Nat, Renew(a, gen), accounts' \subseteq Names
  PROVE  ServiceType'
<1>1. issued + 1 \in Nat
  BY DEF IInv, TypeOK
<1>2. [status |-> "active", token |-> issued + 1, gen |-> gen] \in AgentRecord
  BY <1>1 DEF AgentRecord
<1> QED
  BY <1>1, <1>2 DEF IInv, TypeOK, Renew, ServiceType

LEMMA ServedOK ==
  ASSUME IInv, granted \subseteq granted', at \in Working, Served, TookNext(cur, Agent)
  PROVE  PassOK' /\ PassType' /\ asked' \in [Resources -> BOOLEAN]
<1>1. Obj.spec.rotation \in Nat
  BY InHand
<1>2. st' \in StatusRecord /\ st'.uid = st.uid
  BY <1>1 DEF IInv, TypeOK, Served, StatusRecord
<1>3. st.uid # None => TookNext(cur, st.uid)
  BY TookGrows DEF IInv, PassOK
<1>4. PassOK'
  BY <1>2, <1>3, OnwardOK DEF Served
<1>5. PassType'
  BY <1>2 DEF IInv, TypeOK, PassType, Served, Labels
<1> QED
  BY <1>4, <1>5 DEF IInv, TypeOK, Served

\* No step makes an account of a name that is none.
LEMMA AccountsType ==
  ASSUME IInv, NEW a \in Names,
         UNCHANGED accounts \/ accounts' = accounts \cup {a} \/ accounts' = accounts \ {a}
  PROVE  accounts' \subseteq Names
BY DEF IInv, TypeOK

LEMMA CreateAgentStep == ASSUME IInv, CreateAgent PROVE IInv'
<1>1. at \in Working /\ "Failed" \in Phases
  BY DEF CreateAgent, Working, Labels, Phases
<1>2. cur \in Resources /\ Agent \in Names
  BY <1>1, InHand
<1>3. UNCHANGED <<cluster, outside>> /\ faults' \in Nat
  BY FaultType DEF CreateAgent, Inside
<1>4. granted \subseteq granted' /\ granted' \subseteq Resources \X Names \X {"created", "adopted"}
  BY <1>2 DEF IInv, TypeOK, CreateAgent, History
<1>5. UNCHANGED <<res, target, running, view>>
  BY <1>3 DEF CreateAgent, cluster, Served, Failed, Report
<1>6. ClusterType' /\ StatusOK' /\ NoTakeover'
  BY <1>4, <1>5, SameStatus, SameTarget DEF IInv, TypeOK, ClusterType
<1>7. CASE /\ Renew(Agent, 1) /\ accounts' = accounts \cup {Agent} /\ Served
           /\ granted' = granted \cup {<<cur, Agent, "created">>}
  <2>1. TookNext(cur, Agent)
    BY <1>7 DEF TookNext
  <2>2. PassOK' /\ PassType' /\ asked' \in [Resources -> BOOLEAN]
    BY <1>1, <1>4, <1>7, <2>1, ServedOK
  <2>3. ServiceType'
    BY <1>2, <1>7, AccountsType, RenewType
  <2>4. HistoryType'
    BY <1>3, <1>4, <2>2 DEF IInv, TypeOK, HistoryType
  <2> QED
    BY <1>6, <2>2, <2>3, <2>4, StepPreserves
<1>8. CASE Failed /\ History /\ (UNCHANGED service \/ HalfCreated(Agent))
  <2>1. ServiceType'
    <3>1. CASE UNCHANGED service
      BY <3>1 DEF IInv, TypeOK, ServiceType, service
    <3>2. CASE accounts' = accounts \cup {Agent} /\ UNCHANGED <<agents, issued>>
      BY <1>2, <3>2, AccountsType DEF IInv, TypeOK, ServiceType
    <3>3. CASE Renew(Agent, 1) /\ UNCHANGED accounts
      BY <1>2, <3>3, AccountsType, RenewType
    <3> QED
      BY <1>8, <3>1, <3>2, <3>3 DEF HalfCreated
  <2>2. HistoryType'
    BY <1>3, <1>8 DEF IInv, TypeOK, HistoryType, History
  <2>3. PassOK' /\ PassType'
    BY <1>1, <1>4, <1>8, ReportOK DEF Failed
  <2> QED
    BY <1>6, <2>1, <2>2, <2>3, StepPreserves
<1> QED
  BY <1>7, <1>8 DEF CreateAgent

LEMMA RotateAgentStep == ASSUME IInv, RotateAgent PROVE IInv'
<1>1. at \in Working /\ at \in Holding /\ "Failed" \in Phases
  BY DEF RotateAgent, Working, Holding, Labels, Phases
<1>2. cur \in Resources /\ Agent \in Names /\ agents[Agent] \in AgentRecord
  BY <1>1, InHand DEF IInv, TypeOK
<1>3. UNCHANGED <<cluster, accounts, outside, granted>> /\ faults' \in Nat
  BY FaultType DEF RotateAgent, Inside
<1>4. UNCHANGED <<res, target, running, view>>
  BY <1>3 DEF RotateAgent, cluster, Served, Failed, Report
<1>5. ClusterType' /\ StatusOK' /\ NoTakeover'
  BY <1>3, <1>4, SameStatus, SameTarget DEF IInv, TypeOK, ClusterType
<1>6. CASE Renew(Agent, agents[Agent].gen + 1) /\ Served
  <2>1. TookNext(cur, Agent)
    BY <1>1, <1>3, TookGrows DEF IInv, PassOK
  <2>2. PassOK' /\ PassType' /\ asked' \in [Resources -> BOOLEAN]
    BY <1>1, <1>3, <1>6, <2>1, ServedOK
  <2>3. agents[Agent].gen + 1 \in Nat
    BY <1>2 DEF AgentRecord
  <2>4. ServiceType'
    BY <1>2, <1>3, <1>6, <2>3, AccountsType, RenewType
  <2>5. HistoryType'
    BY <1>3, <2>2 DEF IInv, TypeOK, HistoryType
  <2> QED
    BY <1>5, <2>2, <2>4, <2>5, StepPreserves
<1>7. ASSUME NEW gen \in Nat, Failed, UNCHANGED <<issued, asked>>,
             \/ UNCHANGED agents
             \/ agents' = [agents EXCEPT ![Agent] = [status |-> "revoked", token |-> 0, gen |-> gen]]
             \/ agents' = [agents EXCEPT ![Agent] = NoAgent]
      PROVE  IInv'
  <2>1. agents \in [Names -> AgentRecord] /\ issued \in Nat
    BY DEF IInv, TypeOK
  <2>2. agents' \in [Names -> AgentRecord]
    <3>1. [status |-> "revoked", token |-> 0, gen |-> gen] \in AgentRecord
      BY DEF AgentRecord
    <3> QED
      BY <1>7, <2>1, <3>1, Constants
  <2>3. ServiceType' /\ HistoryType'
    BY <1>3, <1>7, <2>1, <2>2 DEF IInv, TypeOK, ServiceType, HistoryType
  <2>4. PassOK' /\ PassType'
    BY <1>1, <1>3, <1>7, ReportOK DEF Failed
  <2> QED
    BY <1>5, <2>3, <2>4, StepPreserves
<1>8. agents[Agent].gen \in Nat /\ agents[Agent].gen + 1 \in Nat
  BY <1>2 DEF AgentRecord
<1> QED
  BY <1>6, <1>7, <1>8 DEF RotateAgent

LEMMA RereadAgentStep == ASSUME IInv, RereadAgent PROVE IInv'
<1>1. at \in Working /\ at \in Holding /\ "Failed" \in Phases
  BY DEF RereadAgent, Working, Holding, Labels, Phases
<1>2. agents[Agent] \in AgentRecord
  BY <1>1, InHand DEF IInv, TypeOK
<1>3. UNCHANGED <<cluster, service, asked, granted, outside, view>> /\ faults' \in Nat
  BY FaultType DEF RereadAgent, History, Inside, Failed, Report
<1>4. ClusterType' /\ ServiceType' /\ HistoryType'
  BY <1>3, QuietTypes DEF IInv, TypeOK
<1>5. StatusOK' /\ NoTakeover'
  BY <1>3, SameStatus, SameTarget DEF cluster
<1>6. CASE at' = "write" /\ rec' = agents[Agent] /\ UNCHANGED <<unlisted, view, stale, todo, cur, st>>
  <2>1. PassType'
    BY <1>2, <1>6 DEF IInv, TypeOK, PassType, Labels
  <2>2. TookNext(cur, Agent) /\ (st.uid # None => TookNext(cur, st.uid))
    BY <1>1, <1>3, TookGrows DEF IInv, PassOK
  <2>3. PassOK'
    BY <1>1, <1>6, <2>2, OnwardOK
  <2> QED
    BY <1>4, <1>5, <2>1, <2>3, StepPreserves
<1>7. CASE Failed
  BY <1>1, <1>3, <1>4, <1>5, <1>7, ReportOK, StepPreserves DEF Failed
<1> QED
  BY <1>6, <1>7 DEF RereadAgent

LEMMA DeactivateAgentStep == ASSUME IInv, DeactivateAgent PROVE IInv'
<1>1. at \in Working /\ "Failed" \in Phases /\ "unfinalize" \in Labels /\ "unfinalize" \notin Holding
  BY DEF DeactivateAgent, Working, Holding, Labels, Phases
<1>2. Agent \in Names /\ agents[Agent] \in AgentRecord /\ agents \in [Names -> AgentRecord]
  BY <1>1, InHand DEF IInv, TypeOK
<1>3. UNCHANGED <<cluster, issued, asked, granted, outside, view>> /\ faults' \in Nat
  BY FaultType DEF DeactivateAgent, History, Inside, Failed, Report, Proceed
<1>4. /\ agents' = agents \/ agents' = [agents EXCEPT ![Agent].status = "deactivated", ![Agent].token = 0]
      /\ accounts' = accounts \/ accounts' = accounts \ {Agent}
  BY DEF DeactivateAgent, Withdraw, service
<1>5. ServiceType'
  <2>1. agents' \in [Names -> AgentRecord] /\ accounts' \subseteq Names
    BY <1>2, <1>4, WithdrawnType, AccountsType
  <2> QED
    BY <1>3, <2>1 DEF IInv, TypeOK, ServiceType
<1>6. ClusterType' /\ HistoryType'
  BY <1>3 DEF IInv, TypeOK, ClusterType, HistoryType, cluster
<1>7. StatusOK' /\ NoTakeover'
  BY <1>3, SameStatus, SameTarget DEF cluster
<1>8. PassOK' /\ PassType'
  BY <1>1, <1>3, ReportOK, ProceedOK DEF DeactivateAgent, Failed
<1> QED
  BY <1>5, <1>6, <1>7, <1>8, StepPreserves

-----------------------------------------------------------------------------
(* The token Secret *)

\* Ready is said of an agent that was taken.
LEMMA FinishReadyOK ==
  ASSUME IInv, granted \subseteq granted', at \in Working, at \in Holding, FinishReady
  PROVE  PassOK' /\ PassType'
<1>1. Agent \in Names /\ TookNext(cur, Agent)
  BY InHand, TookGrows DEF IInv, PassOK
<1>2. st' \in StatusRecord /\ st'.uid = Agent
  BY <1>1 DEF IInv, TypeOK, FinishReady, ReadyStatus, StatusRecord, AgentRecord, Phases
<1>3. PassType'
  BY <1>2 DEF IInv, TypeOK, PassType, FinishReady, Labels
<1>4. PassOK'
  BY <1>1, <1>2, OnwardOK DEF FinishReady, Holding
<1> QED
  BY <1>3, <1>4

LEMMA AfterWriteOK ==
  ASSUME IInv, granted \subseteq granted', at \in Working, at \in Holding,
         NEW changed \in BOOLEAN, AfterWrite(changed)
  PROVE  PassOK' /\ PassType' /\ UNCHANGED view
<1>1. TookNext(cur, Agent)
  BY TookGrows DEF IInv, PassOK
<1>2. CASE Proceed("restart")
  BY <1>1, <1>2, ProceedOK DEF Labels, Proceed
<1>3. CASE FinishReady
  BY <1>3, FinishReadyOK DEF FinishReady
<1> QED
  BY <1>2, <1>3 DEF AfterWrite

\* A Secret is written for an agent that was taken.
LEMMA WriteSecretStep == ASSUME IInv, WriteSecret PROVE IInv'
<1>1. at \in Working /\ at \in Holding /\ "Failed" \in Phases
  BY DEF WriteSecret, Working, Holding, Labels, Phases
<1>2. cur \in Resources /\ Agent \in Names /\ Took(cur, Agent)
  BY <1>1, InHand DEF IInv, PassOK
<1>3. UNCHANGED <<res, agents, accounts, issued, asked, granted, outside>> /\ faults' \in Nat
  BY FaultType DEF WriteSecret, History, Inside, service
<1>4. PassOK' /\ PassType' /\ UNCHANGED view
  <2>1. CASE Failed
    BY <1>1, <1>3, <2>1, ReportOK DEF Failed, Report
  <2>2. ASSUME NEW changed \in BOOLEAN, AfterWrite(changed) PROVE PassOK' /\ PassType' /\ UNCHANGED view
    BY <1>1, <1>3, <2>2, AfterWriteOK
  <2>3. Failed \/ \E changed \in BOOLEAN : AfterWrite(changed)
    BY DEF WriteSecret
  <2> QED
    BY <2>1, <2>2, <2>3
<1>5. \/ UNCHANGED <<target, running>>
      \/ /\ target' = [target EXCEPT ![cur] = Desired]
         /\ running' = IF target[cur].state = "absent" THEN [running EXCEPT ![cur] = rec.token]
                       ELSE running
  BY DEF WriteSecret
<1>6. ClusterType' /\ NoTakeover'
  <2>1. CASE UNCHANGED <<target, running>>
    BY <1>3, <2>1, SameTarget DEF IInv, TypeOK, ClusterType
  <2>2. CASE /\ target' = [target EXCEPT ![cur] = Desired]
             /\ running' = IF target[cur].state = "absent" THEN [running EXCEPT ![cur] = rec.token]
                           ELSE running
    <3>1. /\ rec.token \in Nat /\ Desired \in TargetRecord /\ Desired.agent = Agent
      BY <1>2 DEF IInv, TypeOK, AgentRecord, TargetRecord, Desired
    <3>2. /\ target' \in [Resources -> TargetRecord] /\ running' \in [Resources -> Nat]
          /\ target'[cur] = Desired
          /\ \A r \in Resources \ {cur} : target'[r] = target[r]
      BY <1>2, <2>2, <3>1 DEF IInv, TypeOK
    <3>3. ClusterType'
      BY <1>3, <3>2 DEF IInv, TypeOK, ClusterType
    <3>4. NoTakeover'
      BY <1>2, <1>3, <3>1, <3>2 DEF IInv, NoTakeover, Took
    <3> QED
      BY <3>3, <3>4
  <2> QED
    BY <1>5, <2>1, <2>2
<1>7. StatusOK'
  BY <1>3, <1>4, SameStatus
<1>8. ServiceType' /\ HistoryType'
  BY <1>3 DEF IInv, TypeOK, ServiceType, HistoryType
<1> QED
  BY <1>4, <1>6, <1>7, <1>8, StepPreserves

LEMMA RestartConsumersStep == ASSUME IInv, RestartConsumers PROVE IInv'
<1>1. at \in Working /\ at \in Holding /\ "Failed" \in Phases
  BY DEF RestartConsumers, Working, Holding, Labels, Phases
<1>2. cur \in Resources /\ target[cur].token \in Nat
  BY <1>1, InHand DEF IInv, TypeOK, TargetRecord
<1>3. UNCHANGED <<res, target, agents, accounts, issued, asked, granted, outside, view>> /\ faults' \in Nat
  BY FaultType DEF RestartConsumers, History, Inside, service, FinishReady, Failed, Report
<1>4. PassOK' /\ PassType'
  BY <1>1, <1>3, FinishReadyOK, ReportOK DEF RestartConsumers, Failed
<1>5. running' \in [Resources -> Nat]
  BY <1>2 DEF IInv, TypeOK, RestartConsumers
<1>6. ClusterType' /\ ServiceType' /\ HistoryType'
  BY <1>3, <1>5 DEF IInv, TypeOK, ClusterType, ServiceType, HistoryType
<1>7. StatusOK' /\ NoTakeover'
  BY <1>3, SameStatus, SameTarget
<1> QED
  BY <1>4, <1>6, <1>7, StepPreserves

-----------------------------------------------------------------------------
(* Users and the dashboard *)

\* The pass does not notice what happens outside.
LEMMA UnnoticedOK ==
  ASSUME IInv, UNCHANGED <<at, unlisted, view, todo, cur, st, rec, granted>>, stale' \subseteq Resources
  PROVE  PassOK' /\ PassType' /\ ViewKept
<1>1. PassOK'
  BY DEF IInv, PassOK, Obj, Agent, Took, Real
<1>2. PassType' /\ ViewKept
  BY DEF IInv, TypeOK, PassType, ViewKept
<1> QED
  BY <1>1, <1>2

LEMMA TouchOK ==
  ASSUME IInv, NEW r \in Resources, Touch(r), UNCHANGED granted
  PROVE  PassOK' /\ PassType' /\ ViewKept /\ faults' \in Nat
BY UnnoticedOK DEF IInv, TypeOK, Touch, NoFault

LEMMA OutsideType == ASSUME IInv, Outside PROVE outside' \in Nat
BY DEF IInv, TypeOK, Outside

LEMMA ApplyStep == ASSUME IInv, NEW r \in Resources, Apply(r) PROVE IInv'
<1>1. PICK a \in Names, policy \in Policies, adopt \in {b \in BOOLEAN : b => "adopt" \in Edits} :
          res' = [res EXCEPT ![r] =
                   [state |-> "here", finalizer |-> FALSE, status |-> NoStatus,
                    spec |-> [agent |-> a, adopt |-> adopt, policy |-> policy, rotation |-> 0,
                              valid |-> TRUE]]]
  BY DEF Apply
<1> DEFINE new == [state |-> "here", finalizer |-> FALSE, status |-> NoStatus,
                   spec |-> [agent |-> a, adopt |-> adopt, policy |-> policy, rotation |-> 0,
                             valid |-> TRUE]]
<1>2. adopt \in BOOLEAN
  OBVIOUS
<1>3. [agent |-> a, adopt |-> adopt, policy |-> policy, rotation |-> 0, valid |-> TRUE] \in SpecRecord
  BY <1>2 DEF SpecRecord
<1>4. new \in ResourceRecord /\ new.status.uid = None
  BY <1>3, Constants DEF ResourceRecord, NoStatus
<1> HIDE DEF new
<1>5. res' = [res EXCEPT ![r] = new]
  BY <1>1 DEF new
<1>6. res' \in [Resources -> ResourceRecord] /\ ResKept
  BY <1>4, <1>5 DEF IInv, TypeOK, ResKept
<1>7. UNCHANGED <<target, running, agents, accounts, issued, asked, granted, faults>> /\ outside' \in Nat
  BY OutsideType DEF Apply, service, History, Quietly, NoFault
<1>8. PassOK' /\ PassType' /\ ViewKept
  BY <1>7, UnnoticedOK DEF IInv, TypeOK, Apply, Quietly, pass
<1>9. StatusOK' /\ NoTakeover'
  BY <1>6, <1>7, <1>8, StatusKept, SameTarget
<1>10. ClusterType' /\ ServiceType' /\ HistoryType'
  BY <1>6, <1>7 DEF IInv, TypeOK, ClusterType, ServiceType, HistoryType
<1> QED
  BY <1>8, <1>9, <1>10, StepPreserves

\* An edit of the spec leaves the status as it is.
LEMMA SpecEdit ==
  ASSUME IInv, NEW r \in Resources, Real(res[r]), NEW s \in SpecRecord,
         res' = [res EXCEPT ![r].spec = s]
  PROVE  res' \in [Resources -> ResourceRecord] /\ ResKept
<1>1. res \in [Resources -> ResourceRecord] /\ res[r] \in ResourceRecord
  BY DEF IInv, TypeOK
<1>2. LET e == [res[r] EXCEPT !.spec = s] IN e \in ResourceRecord /\ e.status = res[r].status
  BY <1>1, Edited
<1> QED
  BY <1>1, <1>2 DEF ResKept

LEMMA RealSpec ==
  ASSUME IInv, NEW r \in Resources, Real(res[r])
  PROVE  res[r].spec \in SpecRecord /\ res[r].spec.rotation \in Nat
BY RealRecord DEF IInv, TypeOK

LEMMA EditedSpec ==
  ASSUME NEW s \in SpecRecord
  PROVE  /\ \A n \in Nat : [s EXCEPT !.rotation = n] \in SpecRecord
         /\ \A b \in BOOLEAN : [s EXCEPT !.adopt = b] \in SpecRecord /\ [s EXCEPT !.valid = b] \in SpecRecord
         /\ \A a \in Names : [s EXCEPT !.agent = a] \in SpecRecord
         /\ \A p \in Policies : [s EXCEPT !.policy = p] \in SpecRecord
         /\ s.adopt \in BOOLEAN /\ s.valid \in BOOLEAN
BY DEF SpecRecord

LEMMA RequestRotationStep ==
  ASSUME IInv, NEW r \in Resources, RequestRotation(r) PROVE IInv'
<1> DEFINE s == [res[r].spec EXCEPT !.rotation = @ + 1]
<1>1. Real(res[r]) /\ res' = [res EXCEPT ![r].spec = s]
  BY DEF RequestRotation, Real
<1>2. s \in SpecRecord
  <2>1. res[r].spec \in SpecRecord /\ res[r].spec.rotation + 1 \in Nat
    BY <1>1, RealSpec
  <2> QED
    BY <2>1, EditedSpec
<1> HIDE DEF s
<1>3. res' \in [Resources -> ResourceRecord] /\ ResKept
  BY <1>1, <1>2, SpecEdit
<1>4. UNCHANGED <<target, running, agents, accounts, issued, granted>> /\ outside' \in Nat
  BY OutsideType DEF RequestRotation, service
<1>5. PassOK' /\ PassType' /\ ViewKept /\ faults' \in Nat
  BY <1>4, TouchOK DEF RequestRotation
<1>6. (asked[r] \/ Took(r, res[r].spec.agent)) \in BOOLEAN
  BY DEF IInv, TypeOK
<1>7. asked' \in [Resources -> BOOLEAN]
  BY <1>6 DEF IInv, TypeOK, RequestRotation
<1>8. StatusOK' /\ NoTakeover'
  BY <1>3, <1>4, <1>5, StatusKept, SameTarget
<1>9. ClusterType' /\ ServiceType' /\ HistoryType'
  BY <1>3, <1>4, <1>5, <1>7 DEF IInv, TypeOK, ClusterType, ServiceType, HistoryType
<1> QED
  BY <1>5, <1>8, <1>9, StepPreserves

LEMMA EditSpecStep == ASSUME IInv, NEW r \in Resources, EditSpec(r) PROVE IInv'
<1>1. Real(res[r]) /\ res[r].spec \in SpecRecord
  BY RealSpec DEF EditSpec, Real
<1>2. PICK s \in SpecRecord : res' = [res EXCEPT ![r].spec = s]
  <2>1. CASE res' = [res EXCEPT ![r].spec.adopt = ~@]
    <3>1. (~res[r].spec.adopt) \in BOOLEAN
      OBVIOUS
    <3>2. [res[r].spec EXCEPT !.adopt = ~@] \in SpecRecord
      BY <1>1, <3>1, EditedSpec
    <3> QED
      BY <2>1, <3>2
  <2>2. CASE res' = [res EXCEPT ![r].spec.valid = ~@]
    <3>1. (~res[r].spec.valid) \in BOOLEAN
      OBVIOUS
    <3>2. [res[r].spec EXCEPT !.valid = ~@] \in SpecRecord
      BY <1>1, <3>1, EditedSpec
    <3> QED
      BY <2>2, <3>2
  <2>3. ASSUME NEW a \in Names, res' = [res EXCEPT ![r].spec.agent = a]
        PROVE  \E s \in SpecRecord : res' = [res EXCEPT ![r].spec = s]
    <3>1. [res[r].spec EXCEPT !.agent = a] \in SpecRecord
      BY <1>1, EditedSpec
    <3> QED
      BY <2>3, <3>1
  <2>4. ASSUME NEW p \in Policies, res' = [res EXCEPT ![r].spec.policy = p]
        PROVE  \E s \in SpecRecord : res' = [res EXCEPT ![r].spec = s]
    <3>1. [res[r].spec EXCEPT !.policy = p] \in SpecRecord
      BY <1>1, EditedSpec
    <3> QED
      BY <2>4, <3>1
  <2> QED
    BY <2>1, <2>2, <2>3, <2>4 DEF EditSpec
<1>3. res' \in [Resources -> ResourceRecord] /\ ResKept
  BY <1>1, <1>2, SpecEdit
<1>4. UNCHANGED <<target, running, agents, accounts, issued, asked, granted>> /\ outside' \in Nat
  BY OutsideType DEF EditSpec, service, History
<1>5. PassOK' /\ PassType' /\ ViewKept /\ faults' \in Nat
  BY <1>4, TouchOK DEF EditSpec
<1>6. StatusOK' /\ NoTakeover'
  BY <1>3, <1>4, <1>5, StatusKept, SameTarget
<1>7. ClusterType' /\ ServiceType' /\ HistoryType'
  BY <1>3, <1>4, <1>5 DEF IInv, TypeOK, ClusterType, ServiceType, HistoryType
<1> QED
  BY <1>5, <1>6, <1>7, StepPreserves

LEMMA DeleteStep == ASSUME IInv, NEW r \in Resources, Delete(r) PROVE IInv'
<1>1. UNCHANGED <<running, agents, accounts, issued, asked, granted>> /\ outside' \in Nat
  BY OutsideType DEF Delete, service, History
<1>2. PassOK' /\ PassType' /\ ViewKept /\ faults' \in Nat /\ UNCHANGED view
  BY <1>1, TouchOK DEF Delete, Touch
<1>3. ClusterType' /\ StatusOK' /\ NoTakeover'
  <2>1. CASE Vanish(r)
    BY <1>1, <1>2, <2>1, VanishOK
  <2>2. CASE UNCHANGED target /\ res' = [res EXCEPT ![r].state = "deleting"]
    <3>1. res \in [Resources -> ResourceRecord] /\ res[r] \in ResourceRecord /\ Real(res[r])
      BY DEF IInv, TypeOK, Real, Delete
    <3>2. LET e == [res[r] EXCEPT !.state = "deleting"] IN
          e \in ResourceRecord /\ e.status = res[r].status
      BY <3>1, Edited
    <3>3. res' \in [Resources -> ResourceRecord] /\ ResKept
      BY <2>2, <3>1, <3>2 DEF ResKept
    <3> QED
      BY <1>1, <1>2, <2>2, <3>3, StatusKept, SameTarget DEF IInv, TypeOK, ClusterType
  <2> QED
    BY <2>1, <2>2 DEF Delete
<1>4. ServiceType' /\ HistoryType'
  BY <1>1, <1>2 DEF IInv, TypeOK, ServiceType, HistoryType
<1> QED
  BY <1>2, <1>3, <1>4, StepPreserves

LEMMA OperateStep == ASSUME IInv, NEW a \in Names, Operate(a) PROVE IInv'
<1>1. UNCHANGED <<res, target, running, asked, granted, faults, view>> /\ outside' \in Nat
  BY OutsideType DEF Operate, cluster, History, Quietly, NoFault, pass
<1>2. PassOK' /\ PassType'
  BY <1>1, UnnoticedOK DEF IInv, TypeOK, Operate, Quietly, pass
<1>3. ServiceType'
  <2>1. agents \in [Names -> AgentRecord] /\ agents[a] \in AgentRecord /\ issued \in Nat
    BY DEF IInv, TypeOK
  <2>2. agents[a].gen + 1 \in Nat
    BY <2>1 DEF AgentRecord
  <2>3. accounts' \subseteq Names
    BY AccountsType DEF Operate
  <2>4. CASE Renew(a, 1) \/ Renew(a, agents[a].gen + 1)
    BY <2>2, <2>3, <2>4, RenewType
  <2>5. ASSUME NEW s \in {"revoked", "deactivated"}, UNCHANGED issued,
               agents' = [agents EXCEPT ![a].status = s, ![a].token = 0]
        PROVE  ServiceType'
    BY <2>1, <2>3, <2>5, WithdrawnType DEF ServiceType
  <2>6. CASE agents' = [agents EXCEPT ![a] = NoAgent] /\ UNCHANGED issued
    BY <2>1, <2>3, <2>6, Constants DEF ServiceType
  <2> QED
    BY <2>4, <2>5, <2>6 DEF Operate, Withdraw
<1>4. ClusterType' /\ HistoryType'
  BY <1>1 DEF IInv, TypeOK, ClusterType, HistoryType
<1>5. StatusOK' /\ NoTakeover'
  BY <1>1, SameStatus, SameTarget
<1> QED
  BY <1>2, <1>3, <1>4, <1>5, StepPreserves

-----------------------------------------------------------------------------
(* The theorems *)

LEMMA PassStepInv == ASSUME IInv, PassStep PROVE IInv'
<1>1. CASE BeginPass \/ ListNamespace \/ Reconcile \/ EndPass
  BY <1>1, BeginPassStep, ListNamespaceStep, ReconcileStep, EndPassStep
<1>2. CASE AddFinalizer \/ ReadAgent \/ CreateAgent \/ RotateAgent \/ RereadAgent
  BY <1>2, AddFinalizerStep, ReadAgentStep, CreateAgentStep, RotateAgentStep, RereadAgentStep
<1>3. CASE WriteSecret \/ RestartConsumers \/ WriteStatus
  BY <1>3, WriteSecretStep, RestartConsumersStep, WriteStatusStep
<1>4. CASE DeactivateAgent \/ RemoveFinalizer
  BY <1>4, DeactivateAgentStep, RemoveFinalizerStep
<1> QED
  BY <1>1, <1>2, <1>3, <1>4 DEF PassStep

LEMMA StutterInv == ASSUME IInv, UNCHANGED vars PROVE IInv'
<1>1. /\ UNCHANGED <<cluster, service, asked, granted, view, faults, outside>>
      /\ UNCHANGED <<at, unlisted, todo, cur, st, rec, stale, res, target>>
  BY DEF vars, cluster, service
<1>2. ClusterType' /\ ServiceType' /\ HistoryType'
  BY <1>1, QuietTypes DEF IInv, TypeOK
<1>3. PassOK' /\ PassType'
  BY <1>1, UnnoticedOK DEF IInv, TypeOK
<1>4. StatusOK' /\ NoTakeover'
  BY <1>1, SameStatus, SameTarget
<1> QED
  BY <1>2, <1>3, <1>4, StepPreserves

LEMMA NextInv == IInv /\ [Next]_vars => IInv'
<1> SUFFICES ASSUME IInv, [Next]_vars PROVE IInv'
  OBVIOUS
<1>1. CASE PassStep
  BY <1>1, PassStepInv
<1>2. ASSUME NEW r \in Resources, Apply(r) \/ RequestRotation(r) \/ EditSpec(r) \/ Delete(r)
      PROVE  IInv'
  BY <1>2, ApplyStep, RequestRotationStep, EditSpecStep, DeleteStep
<1>3. ASSUME NEW a \in Names, Operate(a) PROVE IInv'
  BY <1>3, OperateStep
<1>4. CASE Crash
  BY <1>4, CrashStep
<1>5. CASE UNCHANGED vars
  BY <1>5, StutterInv
<1> QED
  BY <1>1, <1>2, <1>3, <1>4, <1>5 DEF Next, Environment

\* operator.go: what a pass relies on is true in every reachable state.
THEOREM PassInvariance == Spec => []IInv
BY InitInv, NextInv, PTL DEF Spec

\* operator.go: every variable keeps its type, whatever users do while a pass is at work.
THEOREM OperatorTypes == Spec => []TypeOK
<1>1. IInv => TypeOK
  BY DEF IInv
<1> QED
  BY <1>1, PassInvariance, PTL

\* operator.go:7-9 and 249-254: a resource's Secret holds the token of an agent only when
\* the resource created or adopted it at some time, for any resources, renames,
\* failures and crashes and whatever the dashboard removes and makes again.
THEOREM NobodyTakesOver == Spec => []NoTakeover
<1>1. IInv => NoTakeover
  BY DEF IInv
<1> QED
  BY <1>1, PassInvariance, PTL

-----------------------------------------------------------------------------
(* What the copies of a pass are worth. *)

LEMMA InPlayReal ==
  ASSUME FinalInv
  PROVE  \A r \in InPlay : r \in Resources /\ Real(view[r])
<1>1. \A r \in todo : r \in Resources /\ Real(view[r])
  BY DEF FinalInv, IInv, TypeOK, PassOK
<1>2. at \in Working => cur \in Resources /\ Real(view[cur])
  BY DEF FinalInv, IInv, PassOK, Obj
<1> QED
  BY <1>1, <1>2 DEF InPlay

\* A call of the pass that leaves the objects and the copies alone.
LEMMA OnwardSynced ==
  ASSUME FinalInv, at \in Working, UNCHANGED <<res, view, stale, todo, cur>>
  PROVE  Synced' /\ TakenOnce'
<1>1. \A r \in InPlay' : r \in InPlay
  BY DEF InPlay
<1>2. Synced'
  BY <1>1 DEF FinalInv, Synced
<1> QED
  BY <1>2 DEF FinalInv, TakenOnce

\* The object in hand is written, and the pass is done with it.
LEMMA DoneSynced ==
  ASSUME FinalInv, at \in Working, at' = "next", UNCHANGED <<view, stale, todo, cur>>,
         \A r \in Resources : r # cur => res'[r] = res[r]
  PROVE  Synced' /\ TakenOnce'
<1>1. at' \notin Working
  BY DEF Working
<1>2. ASSUME NEW r \in InPlay', r \notin stale' PROVE res'[r] = view'[r]
  <2>1. r \in todo /\ r \in InPlay
    BY <1>1, <1>2 DEF InPlay
  <2>2. r # cur /\ r \in Resources
    BY <2>1 DEF FinalInv, TakenOnce, IInv, TypeOK
  <2> QED
    BY <1>2, <2>1, <2>2 DEF FinalInv, Synced
<1>3. Synced'
  BY <1>2 DEF Synced
<1> QED
  BY <1>1, <1>3 DEF TakenOnce

LEMMA InWorking ==
  /\ {"finalizer", "read", "create", "rotate", "reread", "write", "restart", "status",
      "deactivate", "unfinalize"} \subseteq Working
  /\ "next" \notin Working /\ "list" \notin Working /\ "sleep" \notin Working
BY DEF Working, Labels

\* The calls of a reconciliation between the finalizer and the status.
LEMMA OnwardFinal ==
  ASSUME FinalInv,
         ReadAgent \/ CreateAgent \/ RotateAgent \/ RereadAgent \/ WriteSecret \/ RestartConsumers
  PROVE  Synced' /\ TakenOnce'
<1>1. at \in Working
  BY InWorking DEF ReadAgent, CreateAgent, RotateAgent, RereadAgent, WriteSecret, RestartConsumers
<1>2. UNCHANGED <<res, view, stale, todo, cur>>
  <2>1. ASSUME Failed \/ Report("Conflict") PROVE UNCHANGED <<view, stale, todo, cur>>
    BY <2>1 DEF Failed, Report
  <2>2. ASSUME NEW label \in {"create", "restart"}, Proceed(label)
        PROVE  UNCHANGED <<view, stale, todo, cur>>
    BY <2>2 DEF Proceed
  <2>3. ASSUME NEW changed \in BOOLEAN, AfterWrite(changed)
        PROVE  UNCHANGED <<view, stale, todo, cur>>
    BY <2>2, <2>3 DEF AfterWrite, FinishReady
  <2>4. CASE ReadAgent
    BY <2>1, <2>2, <2>4 DEF ReadAgent, cluster
  <2>5. CASE CreateAgent \/ RotateAgent
    BY <2>1, <2>5 DEF CreateAgent, RotateAgent, Served, cluster
  <2>6. CASE RereadAgent
    BY <2>1, <2>6 DEF RereadAgent, cluster
  <2>7. CASE WriteSecret
    BY <2>1, <2>3, <2>7 DEF WriteSecret
  <2>8. CASE RestartConsumers
    BY <2>1, <2>8 DEF RestartConsumers, FinishReady
  <2> QED
    BY <2>4, <2>5, <2>6, <2>7, <2>8
<1> QED
  BY <1>1, <1>2, OnwardSynced

LEMMA DeactivateFinal == ASSUME FinalInv, DeactivateAgent PROVE Synced' /\ TakenOnce'
<1>1. at = "deactivate" /\ at \in Working
  BY InWorking DEF DeactivateAgent
<1>2. UNCHANGED <<res, view, stale, todo, cur>>
  BY DEF DeactivateAgent, Proceed, Failed, Report, cluster
<1> QED
  BY <1>1, <1>2, OnwardSynced

\* The pass has the object that it wrote as the API has it, or leaves it.
LEMMA AddFinalizerFinal == ASSUME FinalInv, AddFinalizer PROVE Synced' /\ TakenOnce'
<1>1. /\ at = "finalizer" /\ at \in Working /\ cur \in Resources
      /\ res \in [Resources -> ResourceRecord] /\ view \in [Resources -> ResourceRecord]
  BY InWorking, InHand DEF AddFinalizer, FinalInv, IInv, TypeOK
<1>2. CASE Abandon
  <2>1. at' = "next" /\ UNCHANGED <<view, stale, todo, cur>>
    BY <1>2 DEF Abandon, Proceed
  <2>2. \A r \in Resources : r # cur => res'[r] = res[r]
    BY <1>1 DEF AddFinalizer, Call
  <2> QED
    BY <1>1, <2>1, <2>2, DoneSynced
<1>3. CASE /\ Fresh /\ res' = [res EXCEPT ![cur].finalizer = TRUE]
           /\ at' = "read" /\ view' = [view EXCEPT ![cur].finalizer = TRUE]
           /\ UNCHANGED <<unlisted, stale, todo, cur, st, rec>>
  <2>1. \A r \in InPlay' : r \in InPlay /\ r \in Resources
    BY <1>1, <1>3, InPlayReal DEF InPlay
  <2>2. cur \notin stale /\ res[cur] = view[cur]
    BY <1>1, <1>3 DEF Fresh, FinalInv, Synced, InPlay
  <2>3. res'[cur] = view'[cur]
    BY <1>1, <1>3, <2>2
  <2>4. \A r \in Resources : r # cur => res'[r] = res[r] /\ view'[r] = view[r]
    BY <1>1, <1>3
  <2>5. Synced'
    BY <1>3, <2>1, <2>3, <2>4 DEF FinalInv, Synced
  <2> QED
    BY <1>1, <1>3, <2>5 DEF FinalInv, TakenOnce
<1> QED
  BY <1>2, <1>3 DEF AddFinalizer, Call

LEMMA LastWriteFinal ==
  ASSUME FinalInv, WriteStatus \/ RemoveFinalizer PROVE Synced' /\ TakenOnce'
<1>1. at \in Working
  BY InWorking DEF WriteStatus, RemoveFinalizer
<1>2. cur \in Resources /\ res \in [Resources -> ResourceRecord]
  BY <1>1, InHand DEF FinalInv, IInv, TypeOK
<1>3. Abandon
  BY DEF WriteStatus, RemoveFinalizer, Call
<1>4. \A r \in Resources : r # cur => res'[r] = res[r]
  BY <1>2 DEF WriteStatus, RemoveFinalizer, Call, Vanish
<1>5. at' = "next" /\ UNCHANGED <<view, stale, todo, cur>>
  BY <1>3 DEF Abandon, Proceed
<1> QED
  BY <1>1, <1>4, <1>5, DoneSynced

\* The list, the next object, and the end of a pass.
LEMMA ListFinal ==
  ASSUME FinalInv, BeginPass \/ ListNamespace \/ EndPass \/ Crash
  PROVE  Synced' /\ TakenOnce'
<1>1. at' \notin Working
  BY InWorking DEF BeginPass, ListNamespace, EndPass, Crash
<1>2. \A r \in InPlay' : r \in todo'
  BY <1>1 DEF InPlay
<1>3. Synced'
  <2>1. CASE BeginPass
    <3>1. UNCHANGED <<res, view, stale, todo>>
      BY <2>1 DEF BeginPass, cluster
    <3>2. \A r \in todo : r \in InPlay
      BY DEF InPlay
    <3> QED
      BY <1>2, <3>1, <3>2 DEF FinalInv, Synced
  <2>2. CASE ListNamespace
    <3>1. PICK found \in SUBSET Resources :
              \/ /\ view' = [r \in Resources |-> IF r \in found THEN res[r] ELSE view[r]]
                 /\ todo' = todo \cup found
              \/ UNCHANGED <<view, todo>>
      BY <2>2 DEF ListNamespace
    <3>2. UNCHANGED <<res, stale>> /\ todo \subseteq Resources
      BY <2>2 DEF ListNamespace, cluster, FinalInv, IInv, TypeOK
    <3>3. \A r \in todo : r \notin stale => res[r] = view[r]
      BY DEF FinalInv, Synced, InPlay
    <3>4. \A r \in todo' : r \notin stale' => res'[r] = view'[r]
      BY <3>1, <3>2, <3>3
    <3> QED
      BY <1>2, <3>4 DEF Synced
  <2>3. CASE EndPass \/ Crash
    <3>1. todo' = {}
      BY <2>3 DEF EndPass, Crash
    <3> QED
      BY <1>2, <3>1 DEF Synced
  <2> QED
    BY <2>1, <2>2, <2>3
<1> QED
  BY <1>1, <1>3 DEF TakenOnce

LEMMA ReconcileFinal == ASSUME FinalInv, Reconcile PROVE Synced' /\ TakenOnce'
<1>1. PICK r \in todo : cur' = r /\ todo' = todo \ {r}
  BY DEF Reconcile
<1>2. UNCHANGED <<res, view, stale>>
  BY DEF Reconcile, cluster
<1>3. \A q \in InPlay' : q \in InPlay
  BY <1>1 DEF InPlay
<1>4. Synced'
  BY <1>2, <1>3 DEF FinalInv, Synced
<1> QED
  BY <1>1, <1>4 DEF TakenOnce

\* Users write an object: the copy that a pass has of it is old from then on.
LEMMA UserFinal ==
  ASSUME FinalInv, NEW r \in Resources,
         Apply(r) \/ RequestRotation(r) \/ EditSpec(r) \/ Delete(r)
  PROVE  Synced' /\ TakenOnce'
<1>1. UNCHANGED <<at, view, todo, cur>> /\ \A q \in Resources : q # r => res'[q] = res[q]
  <2>1. res \in [Resources -> ResourceRecord]
    BY DEF FinalInv, IInv, TypeOK
  <2> QED
    BY <2>1 DEF Apply, RequestRotation, EditSpec, Delete, Touch, Vanish, Quietly, pass, service
<1>2. InPlay' = InPlay
  BY <1>1 DEF InPlay
<1>3. stale \subseteq stale' /\ (r \in InPlay => r \in stale')
  <2>1. CASE Apply(r)
    <3>1. UNCHANGED stale /\ res[r] = Missing /\ ~Real(Missing)
      BY <2>1 DEF Apply, Quietly, pass, Missing, Real
    <3> QED
      BY <3>1, InPlayReal DEF FinalInv, Synced
  <2>2. CASE Touch(r)
    BY <2>2, InPlayReal DEF Touch, Real
  <2> QED
    BY <2>1, <2>2 DEF RequestRotation, EditSpec, Delete
<1>4. ASSUME NEW q \in InPlay', q \notin stale' PROVE res'[q] = view'[q]
  <2>1. q \in Resources /\ q # r /\ q \in InPlay /\ q \notin stale
    BY <1>2, <1>3, <1>4, InPlayReal
  <2> QED
    BY <1>1, <2>1 DEF FinalInv, Synced
<1>5. Synced'
  BY <1>4 DEF Synced
<1> QED
  BY <1>1, <1>5 DEF FinalInv, TakenOnce

LEMMA OperateFinal ==
  ASSUME FinalInv, NEW a \in Names, Operate(a) PROVE Synced' /\ TakenOnce'
<1>1. UNCHANGED <<res, at, view, stale, todo, cur>>
  BY DEF Operate, cluster, Quietly, pass
<1>2. InPlay' = InPlay
  BY <1>1 DEF InPlay
<1> QED
  BY <1>1, <1>2 DEF FinalInv, Synced, TakenOnce

LEMMA FinalInit == Init => FinalInv
<1> SUFFICES ASSUME Init PROVE FinalInv
  OBVIOUS
<1>1. at = "sleep" /\ todo = {}
  BY DEF Init
<1>2. InPlay = {} /\ at \notin Working
  BY <1>1, InWorking DEF InPlay
<1> QED
  BY <1>1, <1>2, InitInv DEF FinalInv, Synced, TakenOnce

LEMMA FinalNext ==
  ASSUME FinalInv, [Next]_vars PROVE FinalInv'
<1>1. IInv'
  BY NextInv DEF FinalInv
<1>2. Synced' /\ TakenOnce'
  <2>1. CASE PassStep
    BY <2>1, OnwardFinal, DeactivateFinal, AddFinalizerFinal, LastWriteFinal, ListFinal,
       ReconcileFinal DEF PassStep
  <2>2. ASSUME NEW r \in Resources, Apply(r) \/ RequestRotation(r) \/ EditSpec(r) \/ Delete(r)
        PROVE  Synced' /\ TakenOnce'
    BY <2>2, UserFinal
  <2>3. ASSUME NEW a \in Names, Operate(a) PROVE Synced' /\ TakenOnce'
    BY <2>3, OperateFinal
  <2>4. CASE Crash
    BY <2>4, ListFinal
  <2>5. CASE UNCHANGED vars
    <3>1. UNCHANGED <<res, at, view, stale, todo, cur>>
      BY <2>5 DEF vars
    <3>2. InPlay' = InPlay
      BY <3>1 DEF InPlay
    <3> QED
      BY <3>1, <3>2 DEF FinalInv, Synced, TakenOnce
  <2> QED
    BY <2>1, <2>2, <2>3, <2>4, <2>5 DEF Next, Environment
<1> QED
  BY <1>1, <1>2 DEF FinalInv

\* An object whose deletion goes through was not written since it was listed: the policy
\* and the account that the pass went by are those it has now.
LEMMA GoesAsListed ==
  ASSUME FinalInv, [Next]_vars, NEW r \in Resources, res[r].state = "deleting", res'[r] = Gone
  PROVE  at = "unfinalize" /\ cur = r /\ res[r] = Obj
<1>1. Gone.state = "gone" /\ res'[r] # res[r] /\ res \in [Resources -> ResourceRecord]
  BY DEF Gone, FinalInv, IInv, TypeOK
<1>2. CASE RemoveFinalizer
  <2>1. at = "unfinalize" /\ cur = r /\ Fresh
    BY <1>1, <1>2 DEF RemoveFinalizer, Call, Vanish
  <2> QED
    BY <2>1, InWorking DEF Fresh, FinalInv, Synced, InPlay, Obj
<1>3. ~(AddFinalizer \/ WriteStatus)
  <2>1. ASSUME NEW q \in Resources, NEW x,
               \/ res' = [res EXCEPT ![q].finalizer = x] \/ res' = [res EXCEPT ![q].status = x]
        PROVE  res'[r].state = res[r].state
    <3>1. Real(res[r]) /\ res[r] \in [state : {"here", "deleting"}, finalizer : BOOLEAN,
                                      spec : SpecRecord, status : StatusRecord]
      BY <1>1, RealRecord DEF Real
    <3> QED
      BY <1>1, <2>1, <3>1
  <2>2. AddFinalizer \/ WriteStatus => cur \in Resources
    BY InHand, InWorking DEF FinalInv, AddFinalizer, WriteStatus
  <2> QED
    BY <1>1, <2>1, <2>2 DEF AddFinalizer, WriteStatus, Call
<1>4. \A q \in Resources : ~(Apply(q) \/ RequestRotation(q) \/ EditSpec(q) \/ Delete(q))
  <2> SUFFICES ASSUME NEW q \in Resources, Apply(q) \/ RequestRotation(q) \/ EditSpec(q) \/ Delete(q)
               PROVE  FALSE
    OBVIOUS
  <2>1. q = r
    BY <1>1 DEF Apply, RequestRotation, EditSpec, Delete, Vanish
  <2>2. ~Apply(q) /\ ~RequestRotation(q) /\ ~Delete(q)
    BY <2>1 DEF Apply, RequestRotation, Delete, Missing
  <2>3. ~EditSpec(q)
    <3>1. Real(res[r]) /\ res[r] \in [state : {"here", "deleting"}, finalizer : BOOLEAN,
                                      spec : SpecRecord, status : StatusRecord]
      BY <1>1, RealRecord DEF Real
    <3> QED
      BY <1>1, <2>1, <3>1 DEF EditSpec
  <2> QED
    BY <2>2, <2>3
<1>5. ASSUME \/ BeginPass \/ ListNamespace \/ Reconcile \/ EndPass \/ ReadAgent \/ CreateAgent
             \/ RotateAgent \/ RereadAgent \/ WriteSecret \/ RestartConsumers
             \/ DeactivateAgent \/ Crash \/ UNCHANGED vars \/ \E a \in Names : Operate(a)
      PROVE  FALSE
  BY <1>1, <1>5 DEF BeginPass, ListNamespace, Reconcile, EndPass, ReadAgent, CreateAgent,
     RotateAgent, RereadAgent, WriteSecret, RestartConsumers, DeactivateAgent, Crash, Operate,
     vars, cluster
<1> QED
  BY <1>2, <1>3, <1>4, <1>5 DEF Next, PassStep, Environment
=============================================================================
