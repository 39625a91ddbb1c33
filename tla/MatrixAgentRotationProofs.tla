--------------------- MODULE MatrixAgentRotationProofs ---------------------
(***************************************************************************)
(* What holds for any resources, names and failures as long as users leave *)
(* something alone.  When nobody sets adoptExisting, a status that has     *)
(* taken note of a rotationToken means that a token was issued since it    *)
(* was asked for.  When nobody renames a claim, an account that goes with  *)
(* a resource is its own; when no agent is made anew either, the pods of a *)
(* resource that has been Ready have the token its status speaks of; and   *)
(* when no account loses its Secret, it is closed before its resource goes.*)
(***************************************************************************)
EXTENDS MatrixAgentProofs

\* What a step has to show besides FinalInv.
RotationStep == Counted' /\ Behind' /\ HandServed' /\ RotationHonoured'

\* A step that leaves the mark of a resource alone: what it was asked for, and what its
\* status has taken note of.
Marked(r) ==
    /\ Real(res'[r]) => /\ Real(res[r])
                        /\ res'[r].status.rotation = res[r].status.rotation
                        /\ res'[r].spec.rotation = res[r].spec.rotation
                        /\ res'[r].spec.adopt = res[r].spec.adopt
    /\ res'[r].state = "here" => res[r].state = "here"
    /\ res'[r] = Missing => res[r] = Missing

LEMMA MarksKept ==
  ASSUME RotationInv, UNCHANGED asked, \A r \in Resources : Marked(r)
  PROVE  Counted' /\ RotationHonoured'
<1>1. ASSUME NEW r \in Resources
      PROVE  /\ Real(res'[r]) => res'[r].status.rotation <= res'[r].spec.rotation /\ ~res'[r].spec.adopt
             /\ res'[r] = Missing => ~asked'[r]
             /\ res'[r].state = "here" /\ res'[r].status.rotation = res'[r].spec.rotation => ~asked'[r]
  <2>1. Marked(r) /\ (res'[r].state = "here" => Real(res'[r]))
    BY DEF Real
  <2> QED
    BY <2>1 DEF RotationInv, Counted, RotationHonoured, Marked
<1> QED
  BY <1>1 DEF Counted, RotationHonoured, Real

\* The copies stay, and nothing comes into play.
LEMMA BehindKept ==
  ASSUME RotationInv, \A r \in InPlay' : r \in InPlay /\ Marked(r),
         \A r \in InPlay' : view'[r].spec = view[r].spec
  PROVE  Behind'
<1>1. ASSUME NEW r \in InPlay'
      PROVE  /\ res'[r] # Missing
             /\ Real(res'[r]) => /\ res'[r].status.rotation <= view'[r].spec.rotation
                                 /\ view'[r].spec.rotation <= res'[r].spec.rotation
  <2>1. r \in InPlay /\ Marked(r) /\ view'[r].spec = view[r].spec
    OBVIOUS
  <2> QED
    BY <2>1 DEF RotationInv, Behind, Marked
<1> QED
  BY <1>1 DEF Behind, Real

LEMMA SameMarks == ASSUME UNCHANGED res PROVE \A r : Marked(r)
BY DEF Marked, Real

\* What the status in hand is worth when nobody wrote the object.
LEMMA HandFresh ==
  ASSUME RotationInv, at \in Working
  PROVE  /\ cur \in InPlay /\ cur \in Resources /\ Real(Obj) /\ Obj.spec.rotation \in Nat
         /\ cur \notin stale => res[cur] = Obj /\ ~Obj.spec.adopt
<1>1. cur \in InPlay /\ cur \in Resources /\ Real(Obj) /\ Obj.spec.rotation \in Nat
  BY InHand DEF RotationInv, FinalInv, InPlay
<1>2. cur \notin stale => res[cur] = Obj
  BY <1>1 DEF RotationInv, FinalInv, Synced, Obj
<1> QED
  BY <1>1, <1>2 DEF RotationInv, Counted

\* The pass is past the objects, or between two.
LEMMA IdleRotation ==
  ASSUME RotationInv, at' \notin Working, UNCHANGED asked, \A r \in Resources : Marked(r),
         \A r \in todo' : r \in todo /\ view'[r] = view[r]
  PROVE  RotationStep
<1>1. \A r \in InPlay' : r \in InPlay /\ r \in Resources /\ view'[r] = view[r]
  <2>1. \A r \in InPlay' : r \in todo'
    BY DEF InPlay
  <2>2. \A r \in todo : r \in InPlay /\ r \in Resources
    BY DEF InPlay, RotationInv, FinalInv, IInv, TypeOK
  <2> QED
    BY <2>1, <2>2
<1>2. Behind'
  BY <1>1, BehindKept
<1> QED
  BY <1>2, MarksKept DEF RotationStep, HandServed

\* The pass goes on with the object in hand, and with what its status says of rotations.
LEMMA OnwardRotation ==
  ASSUME RotationInv, at \in Working, UNCHANGED <<res, asked, view, stale, todo, cur>>,
         cur \notin stale => st'.rotation = st.rotation
  PROVE  RotationStep
<1>1. \A r : Marked(r)
  BY SameMarks
<1>2. \A r \in InPlay' : r \in InPlay
  BY DEF InPlay
<1>3. Counted' /\ RotationHonoured' /\ Behind'
  BY <1>1, <1>2, MarksKept, BehindKept
<1>4. HandServed'
  BY DEF RotationInv, HandServed, Obj
<1> QED
  BY <1>3, <1>4 DEF RotationStep

-----------------------------------------------------------------------------
(* The list *)

LEMMA ListRotation ==
  ASSUME RotationInv, BeginPass \/ EndPass \/ Crash PROVE RotationStep
<1>1. at' \notin Working /\ UNCHANGED <<res, asked>>
  BY InWorking DEF BeginPass, EndPass, Crash, cluster, History
<1>2. \A r \in todo' : r \in todo /\ view'[r] = view[r]
  BY DEF BeginPass, EndPass, Crash
<1> QED
  BY <1>1, <1>2, SameMarks, IdleRotation

LEMMA ListNamespaceRotation == ASSUME RotationInv, ListNamespace PROVE RotationStep
<1>1. at' \notin Working /\ UNCHANGED <<res, asked>>
  BY InWorking DEF ListNamespace, cluster, History
<1>2. PICK found \in SUBSET {r \in Resources : Real(res[r])} :
          \/ /\ view' = [r \in Resources |-> IF r \in found THEN res[r] ELSE view[r]]
             /\ todo' = todo \cup found
          \/ UNCHANGED <<view, todo>>
  BY DEF ListNamespace, Real
<1>3. Counted' /\ RotationHonoured'
  BY <1>1, SameMarks, MarksKept
<1>4. ASSUME NEW r \in InPlay'
      PROVE  /\ res[r] # Missing
             /\ Real(res[r]) => /\ res[r].status.rotation <= view'[r].spec.rotation
                                /\ view'[r].spec.rotation <= res[r].spec.rotation
  <2>1. r \in todo' /\ r \in Resources
    BY <1>1, <1>2, <1>4 DEF InPlay, RotationInv, FinalInv, IInv, TypeOK
  <2>2. CASE r \in todo /\ view'[r] = view[r]
    BY <2>2 DEF InPlay, RotationInv, Behind
  <2>3. CASE Real(res[r]) /\ view'[r] = res[r]
    <3>1. res[r].spec.rotation \in Nat /\ res[r] # Missing
      BY <2>1, <2>3, RealSpec DEF RotationInv, FinalInv, Real, Missing
    <3> QED
      BY <2>1, <2>3, <3>1 DEF RotationInv, Counted
  <2> QED
    BY <1>2, <2>1, <2>2, <2>3
<1>5. Behind'
  BY <1>1, <1>4 DEF Behind, Real
<1> QED
  BY <1>1, <1>3, <1>5 DEF RotationStep, HandServed

LEMMA ReconcileRotation == ASSUME RotationInv, Reconcile PROVE RotationStep
<1>1. PICK r \in todo :
         /\ cur' = r /\ todo' = todo \ {r}
         /\ \/ st' = view[r].status
            \/ \E phase \in Phases : st' = [view[r].status EXCEPT !.phase = phase]
  BY DEF Reconcile, Phases
<1>2. UNCHANGED <<res, asked, view, stale>>
  BY DEF Reconcile, cluster, History
<1>3. r \in InPlay /\ r \in Resources /\ Real(view[r]) /\ view[r].status \in StatusRecord
  <2>1. r \in InPlay /\ r \in Resources /\ Real(view[r])
    BY InPlayReal DEF InPlay, RotationInv
  <2>2. view[r] \in ResourceRecord
    BY <2>1 DEF RotationInv, FinalInv, IInv, TypeOK
  <2> QED
    BY <2>1, <2>2, RealRecord
<1>4. st'.rotation = view[r].status.rotation
  BY <1>1, <1>3 DEF StatusRecord
<1>5. \A q \in InPlay' : q \in InPlay
  BY <1>1, <1>3 DEF InPlay
<1>6. Counted' /\ RotationHonoured' /\ Behind'
  BY <1>2, <1>5, SameMarks, MarksKept, BehindKept
<1>7. HandServed'
  <2>1. r \notin stale => res[r] = view[r]
    BY <1>3 DEF RotationInv, FinalInv, Synced
  <2>2. r \notin stale => /\ view[r].status.rotation <= view[r].spec.rotation
                          /\ view[r].state = "here" /\ view[r].status.rotation = view[r].spec.rotation
                                => ~asked[r]
    BY <1>3, <2>1 DEF RotationInv, Counted, RotationHonoured
  <2> QED
    BY <1>1, <1>2, <1>4, <2>2 DEF HandServed, Obj
<1> QED
  BY <1>6, <1>7 DEF RotationStep

-----------------------------------------------------------------------------
(* reconcile *)

\* A status that is built has the rotation of the one before.
LEMMA BuiltRotation ==
  ASSUME RotationInv, at \in Working
  PROVE  /\ \A phase : Report(phase) => st'.rotation = st.rotation
         /\ FinishReady => st'.rotation = st.rotation
<1>1. st \in StatusRecord
  BY DEF RotationInv, FinalInv, IInv, TypeOK
<1> QED
  BY <1>1 DEF Report, FinishReady, ReadyStatus, StatusRecord

\* The agent of an object that does not adopt is read on only when it is the resource's
\* own; and a value that is not the one the status knows is a request.
LEMMA ReadAgentRotation == ASSUME RotationInv, ReadAgent PROVE RotationStep
<1>1. at \in Working
  BY InWorking DEF ReadAgent
<1>2. UNCHANGED <<res, asked, view, stale, todo, cur>>
  BY DEF ReadAgent, cluster, Failed, Report, Proceed
<1>3. ASSUME cur \notin stale PROVE st'.rotation = st.rotation
  <2>1. ~Obj.spec.adopt
    BY <1>1, <1>3, HandFresh
  <2>2. CASE Failed \/ Report("Conflict") \/ UNCHANGED st
    BY <1>1, <2>2, BuiltRotation DEF Failed
  <2>3. CASE ~Foreign(Agent) /\ ~Requested(Agent)
               /\ st' = [st EXCEPT !.rotation = Obj.spec.rotation]
    <3>1. Obj.spec.rotation = st.rotation /\ st \in StatusRecord
      BY <2>1, <2>3 DEF Foreign, Requested, RotationInv, FinalInv, IInv, TypeOK
    <3> QED
      BY <2>3, <3>1 DEF StatusRecord
  <2> QED
    BY <2>2, <2>3 DEF ReadAgent, Proceed
<1> QED
  BY <1>1, <1>2, <1>3, OnwardRotation

\* A token was issued: the value that was listed is served, and the resource asks for
\* no more unless users have changed it since.
LEMMA ServedRotation ==
  ASSUME RotationInv, at \in Working, Served, UNCHANGED res PROVE RotationStep
<1>1. /\ UNCHANGED <<view, stale, todo, cur>> /\ st'.rotation = Obj.spec.rotation
      /\ asked' = [asked EXCEPT ![cur] = (res[cur].state = "here"
                                          /\ res[cur].spec.rotation # Obj.spec.rotation)]
  <2>1. st \in StatusRecord
    BY DEF RotationInv, FinalInv, IInv, TypeOK
  <2> QED
    BY <2>1 DEF Served, StatusRecord
<1>2. cur \in InPlay /\ cur \in Resources /\ Obj.spec.rotation \in Nat
  BY HandFresh
<1>3. asked \in [Resources -> BOOLEAN]
  BY DEF RotationInv, FinalInv, IInv, TypeOK
<1>4. /\ \A r \in Resources : r # cur => asked'[r] = asked[r]
      /\ asked'[cur] <=> res[cur].state = "here" /\ res[cur].spec.rotation # Obj.spec.rotation
  BY <1>1, <1>2, <1>3
<1>5. res[cur] # Missing
  BY <1>2 DEF RotationInv, Behind
<1>6. ASSUME res[cur].state = "here", res[cur].status.rotation = res[cur].spec.rotation
      PROVE  res[cur].spec.rotation = Obj.spec.rotation
  <2>1. Real(res[cur])
    BY <1>6 DEF Real
  <2>2. res[cur].status.rotation <= Obj.spec.rotation /\ Obj.spec.rotation <= res[cur].spec.rotation
    BY <1>2, <2>1 DEF RotationInv, Behind, Obj
  <2>3. res[cur].spec.rotation \in Nat
    BY <1>2, <2>1, RealSpec DEF RotationInv, FinalInv
  <2> QED
    BY <1>2, <1>6, <2>2, <2>3
<1>7. Counted'
  BY <1>4, <1>5 DEF RotationInv, Counted, Real
<1>8. RotationHonoured'
  BY <1>4, <1>6 DEF RotationInv, RotationHonoured
<1>9. Behind'
  <2>1. \A r \in InPlay' : r \in InPlay
    BY <1>1 DEF InPlay
  <2> QED
    BY <1>1, <2>1, SameMarks, BehindKept
<1>10. HandServed'
  <2>1. cur \notin stale => res[cur] = Obj
    BY HandFresh
  <2>2. Obj' = Obj
    BY <1>1 DEF Obj
  <2> QED
    BY <1>1, <1>2, <1>4, <2>1, <2>2 DEF HandServed
<1> QED
  BY <1>7, <1>8, <1>9, <1>10 DEF RotationStep

\* The other calls of a reconciliation.
LEMMA CallRotation ==
  ASSUME RotationInv,
         CreateAgent \/ RotateAgent \/ RereadAgent \/ WriteSecret \/ RestartConsumers \/ DeactivateAgent
  PROVE  RotationStep
<1>1. at \in Working
  BY InWorking DEF CreateAgent, RotateAgent, RereadAgent, WriteSecret, RestartConsumers, DeactivateAgent
<1>2. UNCHANGED res
  BY DEF CreateAgent, RotateAgent, RereadAgent, WriteSecret, RestartConsumers, DeactivateAgent, cluster
<1>3. CASE Served
  BY <1>1, <1>2, <1>3, ServedRotation
<1>4. CASE ~Served
  <2>1. UNCHANGED asked
    BY <1>4 DEF CreateAgent, RotateAgent, RereadAgent, WriteSecret, RestartConsumers,
       DeactivateAgent, History
  <2>2. /\ Failed \/ FinishReady \/ UNCHANGED st
        /\ UNCHANGED <<view, stale, todo, cur>>
    <3>1. ASSUME NEW changed \in BOOLEAN, AfterWrite(changed)
          PROVE  (FinishReady \/ UNCHANGED st) /\ UNCHANGED <<view, stale, todo, cur>>
      BY <3>1 DEF AfterWrite, Proceed, FinishReady
    <3>2. Failed => UNCHANGED <<view, stale, todo, cur>>
      BY DEF Failed, Report
    <3>3. CASE CreateAgent \/ RotateAgent
      BY <1>4, <3>2, <3>3 DEF CreateAgent, RotateAgent
    <3>4. CASE RereadAgent
      BY <3>2, <3>4 DEF RereadAgent
    <3>5. CASE WriteSecret
      BY <3>1, <3>2, <3>5 DEF WriteSecret
    <3>6. CASE RestartConsumers
      BY <3>2, <3>6 DEF RestartConsumers, FinishReady
    <3>7. CASE DeactivateAgent
      BY <3>2, <3>7 DEF DeactivateAgent, Proceed
    <3> QED
      BY <3>3, <3>4, <3>5, <3>6, <3>7
  <2>3. st'.rotation = st.rotation
    BY <1>1, <2>2, BuiltRotation DEF Failed
  <2> QED
    BY <1>1, <1>2, <2>1, <2>2, <2>3, OnwardRotation
<1> QED
  BY <1>3, <1>4

-----------------------------------------------------------------------------
(* Writes to a MatrixAgent *)

\* An object that is written in one place is the same in the others.
LEMMA Rewritten ==
  ASSUME NEW o \in ResourceRecord, Real(o)
  PROVE  /\ \A f : LET e == [o EXCEPT !.finalizer = f]
                   IN  e.state = o.state /\ e.spec = o.spec /\ e.status = o.status
         /\ \A s : LET e == [o EXCEPT !.spec = s]
                   IN  e.state = o.state /\ e.spec = s /\ e.status = o.status
         /\ \A t : LET e == [o EXCEPT !.status = t]
                   IN  e.state = o.state /\ e.spec = o.spec /\ e.status = t
         /\ LET e == [o EXCEPT !.state = "deleting"]
            IN  e.state = "deleting" /\ e.spec = o.spec /\ e.status = o.status
<1>1. o \in [state : {"here", "deleting"}, finalizer : BOOLEAN, spec : SpecRecord,
             status : StatusRecord]
  BY RealRecord
<1> QED
  BY <1>1

\* What the API has of a resource.
LEMMA Kinds ==
  ASSUME FinalInv
  PROVE  /\ res \in [Resources -> ResourceRecord]
         /\ \A r \in Resources : res[r] \in ResourceRecord
         /\ Missing.state = "none" /\ Gone.state = "gone"
         /\ \A o : Real(o) <=> o.state \in {"here", "deleting"}
BY DEF FinalInv, IInv, TypeOK, Missing, Gone, Real

LEMMA Stored ==
  ASSUME RotationInv
  PROVE  /\ res \in [Resources -> ResourceRecord]
         /\ \A r \in Resources : res[r] \in ResourceRecord
         /\ Missing.state = "none" /\ Gone.state = "gone"
         /\ \A o : Real(o) <=> o.state \in {"here", "deleting"}
BY Kinds DEF RotationInv

LEMMA AddFinalizerRotation == ASSUME RotationInv, AddFinalizer PROVE RotationStep
<1>1. at \in Working /\ cur \in Resources /\ Real(Obj) /\ UNCHANGED asked
  BY InWorking, HandFresh DEF AddFinalizer, History
<1>2. \A r \in Resources : Marked(r)
  <2>1. CASE UNCHANGED res
    BY <2>1, SameMarks
  <2>2. CASE Fresh /\ res' = [res EXCEPT ![cur].finalizer = TRUE]
    <3>1. Real(res[cur]) /\ res[cur] \in ResourceRecord
      BY <1>1, <2>2, Stored DEF Fresh
    <3>2. /\ res'[cur].state = res[cur].state /\ res'[cur].spec = res[cur].spec
          /\ res'[cur].status = res[cur].status
      BY <1>1, <2>2, <3>1, Stored, Rewritten
    <3>3. \A r \in Resources : r # cur => res'[r] = res[r]
      BY <2>2, Stored
    <3>4. Marked(cur)
      BY <3>1, <3>2, Stored DEF Marked
    <3> QED
      BY <3>3, <3>4 DEF Marked, Real
  <2> QED
    BY <2>1, <2>2 DEF AddFinalizer, Call
<1>3. CASE Abandon
  <2>1. at' \notin Working /\ UNCHANGED <<todo, view>>
    BY <1>3, InWorking DEF Abandon, Proceed
  <2> QED
    BY <1>1, <1>2, <2>1, IdleRotation
<1>4. CASE /\ at' = "read" /\ view' = [view EXCEPT ![cur].finalizer = TRUE]
           /\ UNCHANGED <<unlisted, stale, todo, cur, st, rec>>
  <2>1. view \in [Resources -> ResourceRecord] /\ view[cur] \in ResourceRecord /\ Real(view[cur])
    BY <1>1 DEF Obj, RotationInv, FinalInv, IInv, TypeOK
  <2>2. view'[cur].state = view[cur].state /\ view'[cur].spec = view[cur].spec
    BY <1>1, <1>4, <2>1, Rewritten
  <2>3. \A r \in Resources : view'[r].spec = view[r].spec
    BY <1>4, <2>1, <2>2
  <2>4. \A r \in InPlay' : r \in InPlay /\ r \in Resources
    BY <1>1, <1>4, InPlayReal DEF InPlay, RotationInv
  <2>5. Counted' /\ RotationHonoured' /\ Behind'
    BY <1>1, <1>2, <2>3, <2>4, MarksKept, BehindKept
  <2>6. HandServed'
    BY <1>1, <1>4, <2>2 DEF RotationInv, HandServed, Obj
  <2> QED
    BY <2>5, <2>6 DEF RotationStep
<1> QED
  BY <1>3, <1>4 DEF AddFinalizer, Call

\* An update that is accepted finds the object as it was listed.
LEMMA WriteStatusRotation == ASSUME RotationInv, WriteStatus PROVE RotationStep
<1>1. at \in Working /\ cur \in Resources /\ cur \in InPlay /\ UNCHANGED asked
  BY InWorking, HandFresh DEF WriteStatus, History
<1>2. Abandon /\ (UNCHANGED res \/ (Fresh /\ res' = [res EXCEPT ![cur].status = st]))
  BY DEF WriteStatus, Call
<1>3. at' \notin Working /\ UNCHANGED <<todo, view>>
  BY <1>2, InWorking DEF Abandon, Proceed
<1>4. CASE UNCHANGED res
  BY <1>1, <1>3, <1>4, SameMarks, IdleRotation
<1>5. CASE Fresh /\ res' = [res EXCEPT ![cur].status = st]
  <2>1. /\ Real(res[cur]) /\ res[cur] \in ResourceRecord
        /\ cur \notin stale /\ res[cur] = Obj /\ ~Obj.spec.adopt
    BY <1>1, <1>5, Stored, HandFresh DEF Fresh
  <2>2. res'[cur].state = Obj.state /\ res'[cur].spec = Obj.spec /\ res'[cur].status = st
    BY <1>1, <1>5, <2>1, Stored, Rewritten
  <2>3. \A r \in Resources : r # cur => res'[r] = res[r]
    BY <1>5, Stored
  <2>4. /\ st.rotation <= Obj.spec.rotation
        /\ Obj.state = "here" /\ st.rotation = Obj.spec.rotation => ~asked[cur]
    BY <1>1, <2>1 DEF RotationInv, HandServed
  <2>5. res'[cur] # Missing
    BY <2>1, <2>2, Stored
  <2>6. Counted'
    BY <1>1, <2>1, <2>2, <2>3, <2>4, <2>5 DEF RotationInv, Counted, Real
  <2>7. RotationHonoured'
    BY <1>1, <2>2, <2>3, <2>4 DEF RotationInv, RotationHonoured
  <2>8. Behind'
    <3>1. \A r \in InPlay' : r \in todo
      BY <1>3 DEF InPlay
    <3>2. \A r \in todo : r \in InPlay /\ r \in Resources /\ r # cur
      BY <1>1 DEF InPlay, RotationInv, FinalInv, TakenOnce, IInv, TypeOK
    <3>3. \A r \in InPlay' : r \in InPlay /\ Marked(r)
      BY <2>3, <3>1, <3>2 DEF Marked, Real
    <3> QED
      BY <1>3, <3>3, BehindKept
  <2> QED
    BY <1>3, <2>6, <2>7, <2>8 DEF RotationStep, HandServed
<1> QED
  BY <1>2, <1>4, <1>5

LEMMA VanishMarks ==
  ASSUME RotationInv, NEW r \in Resources, Vanish(r) PROVE \A q \in Resources : Marked(q)
<1>1. \A q \in Resources : res'[q] = res[q] \/ res'[q] = Gone
  BY Stored DEF Vanish
<1> QED
  BY <1>1, Stored DEF Marked

LEMMA RemoveFinalizerRotation == ASSUME RotationInv, RemoveFinalizer PROVE RotationStep
<1>1. at \in Working /\ cur \in Resources /\ UNCHANGED asked
  BY InWorking, HandFresh DEF RemoveFinalizer, History
<1>2. Abandon /\ (UNCHANGED res \/ Vanish(cur))
  BY DEF RemoveFinalizer, Call
<1>3. at' \notin Working /\ UNCHANGED <<todo, view>>
  BY <1>2, InWorking DEF Abandon, Proceed
<1>4. \A r \in Resources : Marked(r)
  BY <1>1, <1>2, SameMarks, VanishMarks
<1> QED
  BY <1>1, <1>3, <1>4, IdleRotation

-----------------------------------------------------------------------------
(* Users and the dashboard *)

\* The pass does not notice, and what was asked for stays.
LEMMA UnnoticedRotation ==
  ASSUME RotationInv, UNCHANGED <<at, view, todo, cur, st, asked>>, stale \subseteq stale',
         \A r \in Resources : Marked(r)
  PROVE  RotationStep
<1>1. \A r \in InPlay' : r \in InPlay /\ r \in Resources
  BY InPlayReal DEF InPlay, RotationInv
<1>2. Counted' /\ RotationHonoured' /\ Behind'
  BY <1>1, MarksKept, BehindKept
<1>3. HandServed'
  BY DEF RotationInv, HandServed, Obj
<1> QED
  BY <1>2, <1>3 DEF RotationStep

\* A resource that comes has no request and is in no pass.
LEMMA ApplyRotation ==
  ASSUME "adopt" \notin Edits, RotationInv, NEW r \in Resources, Apply(r) PROVE RotationStep
<1>1. PICK new :
         /\ res' = [res EXCEPT ![r] = new]
         /\ new.state = "here" /\ new.status.rotation = 0 /\ new.spec.rotation = 0 /\ ~new.spec.adopt
  <2>1. PICK a \in Names, policy \in Policies, adopt \in {b \in BOOLEAN : b => "adopt" \in Edits} :
            res' = [res EXCEPT ![r] =
                     [state |-> "here", finalizer |-> FALSE, status |-> NoStatus,
                      spec |-> [agent |-> a, adopt |-> adopt, policy |-> policy, rotation |-> 0,
                                valid |-> TRUE]]]
    BY DEF Apply
  <2> DEFINE o == [state |-> "here", finalizer |-> FALSE, status |-> NoStatus,
                   spec |-> [agent |-> a, adopt |-> adopt, policy |-> policy, rotation |-> 0,
                             valid |-> TRUE]]
  <2>2. o.state = "here" /\ o.status.rotation = 0 /\ o.spec.rotation = 0 /\ ~o.spec.adopt
    BY DEF NoStatus
  <2> QED
    BY <2>1, <2>2
<1>2. res[r] = Missing /\ UNCHANGED <<asked, at, view, stale, todo, cur, st>>
  BY DEF Apply, History, Quietly, pass
<1>3. res'[r] = new /\ new # Missing /\ \A q \in Resources : q # r => res'[q] = res[q]
  BY <1>1, Stored
<1>4. ~asked[r] /\ r \notin InPlay
  BY <1>2 DEF RotationInv, Counted, Behind
<1>5. Counted'
  BY <1>1, <1>2, <1>3 DEF RotationInv, Counted, Real
<1>6. RotationHonoured'
  BY <1>2, <1>3, <1>4 DEF RotationInv, RotationHonoured
<1>7. InPlay' = InPlay
  BY <1>2 DEF InPlay
<1>8. Behind'
  <2>1. \A q \in InPlay' : q \in InPlay /\ Marked(q)
    <3>1. \A q \in InPlay : q \in Resources /\ q # r
      BY <1>4, InPlayReal DEF RotationInv
    <3> QED
      BY <1>3, <1>7, <3>1 DEF Marked, Real
  <2> QED
    BY <1>2, <2>1, BehindKept
<1>9. HandServed'
  BY <1>2 DEF RotationInv, HandServed, Obj
<1> QED
  BY <1>5, <1>6, <1>8, <1>9 DEF RotationStep

\* The value goes up, past what any status knows; and the copy of the pass is old.
LEMMA RequestRotationRotation ==
  ASSUME RotationInv, NEW r \in Resources, RequestRotation(r) PROVE RotationStep
<1> DEFINE s == [res[r].spec EXCEPT !.rotation = @ + 1]
<1>1. res[r].state = "here" /\ Real(res[r]) /\ res' = [res EXCEPT ![r].spec = s]
  BY DEF RequestRotation, Real
<1>2. /\ res[r] \in ResourceRecord /\ res[r].spec \in SpecRecord /\ res[r].spec.rotation \in Nat
      /\ res[r].status.rotation \in Nat
  <2>1. res[r] \in ResourceRecord
    BY Stored
  <2> QED
    BY <1>1, <2>1, RealRecord DEF StatusRecord
<1>3. s.rotation = res[r].spec.rotation + 1 /\ s.adopt = res[r].spec.adopt
  BY <1>2 DEF SpecRecord
<1> HIDE DEF s
<1>4. /\ res'[r].state = "here" /\ res'[r].spec = s /\ res'[r].status = res[r].status
      /\ \A q \in Resources : q # r => res'[q] = res[q]
  BY <1>1, <1>2, Stored, Rewritten
<1>5. res[r].status.rotation <= res[r].spec.rotation /\ ~res[r].spec.adopt
  BY <1>1 DEF RotationInv, Counted
<1>6. /\ UNCHANGED <<at, view, todo, cur, st>> /\ stale \subseteq stale'
      /\ r \in InPlay => r \in stale'
      /\ \A q \in Resources : q # r => asked'[q] = asked[q]
  <2>1. asked \in [Resources -> BOOLEAN]
    BY DEF RotationInv, FinalInv, IInv, TypeOK
  <2> QED
    BY <2>1, InPlayReal DEF RotationInv, RequestRotation, Touch, Real
<1>7. res'[r] # Missing
  BY <1>4, Stored
<1>8. Counted'
  <2>1. res'[r].status.rotation <= res'[r].spec.rotation /\ ~res'[r].spec.adopt
    BY <1>2, <1>3, <1>4, <1>5
  <2> QED
    BY <1>4, <1>6, <1>7, <2>1 DEF RotationInv, Counted, Real
<1>9. RotationHonoured'
  <2>1. res'[r].status.rotation # res'[r].spec.rotation
    BY <1>2, <1>3, <1>4, <1>5
  <2> QED
    BY <1>4, <1>6, <2>1 DEF RotationInv, RotationHonoured
<1>10. InPlay' = InPlay /\ \A q \in InPlay : q \in Resources
  BY <1>6, InPlayReal DEF InPlay, RotationInv
<1>11. Behind'
  <2>1. ASSUME NEW q \in InPlay'
        PROVE  /\ res'[q] # Missing
               /\ Real(res'[q]) => /\ res'[q].status.rotation <= view[q].spec.rotation
                                   /\ view[q].spec.rotation <= res'[q].spec.rotation
    <3>1. q \in InPlay /\ q \in Resources
      BY <1>10, <2>1
    <3>2. CASE q # r
      <4>1. res'[q] = res[q]
        BY <1>4, <3>1, <3>2
      <4> QED
        BY <3>1, <4>1 DEF RotationInv, Behind
    <3>3. CASE q = r
      <4>1. res[r].status.rotation <= view[r].spec.rotation /\ view[r].spec.rotation <= res[r].spec.rotation
        BY <1>1, <3>1, <3>3 DEF RotationInv, Behind
      <4>2. view[r].spec.rotation \in Nat
        <5>1. Real(view[r]) /\ view[r] \in ResourceRecord
          BY <3>1, <3>3, InPlayReal DEF RotationInv, FinalInv, IInv, TypeOK
        <5> QED
          BY <5>1, RealRecord
      <4> QED
        BY <1>2, <1>3, <1>4, <1>7, <3>3, <4>1, <4>2
    <3> QED
      BY <3>2, <3>3
  <2> QED
    BY <1>6, <2>1 DEF Behind, Real
<1>12. HandServed'
  <2>1. at \in Working => cur \in InPlay /\ cur \in Resources
    BY HandFresh
  <2>2. at \in Working /\ cur \notin stale' => cur # r
    BY <1>6, <2>1
  <2> QED
    BY <1>6, <2>1, <2>2 DEF RotationInv, HandServed, Obj
<1> QED
  BY <1>8, <1>9, <1>11, <1>12 DEF RotationStep

\* The other edits, and a deletion, leave the mark alone.
LEMMA EditRotation ==
  ASSUME "adopt" \notin Edits, RotationInv, NEW r \in Resources, EditSpec(r) \/ Delete(r)
  PROVE  RotationStep
<1>1. UNCHANGED <<at, view, todo, cur, st, asked>> /\ stale \subseteq stale'
  BY DEF EditSpec, Delete, Touch, History
<1>2. \A q \in Resources : Marked(q)
  <2>1. Real(res[r]) /\ res[r] \in ResourceRecord
    BY Stored DEF EditSpec, Delete
  <2>2. res[r].spec \in SpecRecord
    BY <2>1, RealRecord
  <2>3. CASE EditSpec(r)
    <3>1. PICK s : /\ res' = [res EXCEPT ![r].spec = s]
                   /\ s.rotation = res[r].spec.rotation /\ s.adopt = res[r].spec.adopt
      <4>1. ASSUME res' = [res EXCEPT ![r].spec.valid = ~@]
            PROVE  \E s : /\ res' = [res EXCEPT ![r].spec = s]
                          /\ s.rotation = res[r].spec.rotation /\ s.adopt = res[r].spec.adopt
        <5>1. /\ [res[r].spec EXCEPT !.valid = ~@].rotation = res[r].spec.rotation
              /\ [res[r].spec EXCEPT !.valid = ~@].adopt = res[r].spec.adopt
          BY <2>2 DEF SpecRecord
        <5> QED
          BY <4>1, <5>1
      <4>2. ASSUME NEW x, res' = [res EXCEPT ![r].spec.agent = x]
            PROVE  \E s : /\ res' = [res EXCEPT ![r].spec = s]
                          /\ s.rotation = res[r].spec.rotation /\ s.adopt = res[r].spec.adopt
        <5>1. /\ [res[r].spec EXCEPT !.agent = x].rotation = res[r].spec.rotation
              /\ [res[r].spec EXCEPT !.agent = x].adopt = res[r].spec.adopt
          BY <2>2 DEF SpecRecord
        <5> QED
          BY <4>2, <5>1
      <4>3. ASSUME NEW x, res' = [res EXCEPT ![r].spec.policy = x]
            PROVE  \E s : /\ res' = [res EXCEPT ![r].spec = s]
                          /\ s.rotation = res[r].spec.rotation /\ s.adopt = res[r].spec.adopt
        <5>1. /\ [res[r].spec EXCEPT !.policy = x].rotation = res[r].spec.rotation
              /\ [res[r].spec EXCEPT !.policy = x].adopt = res[r].spec.adopt
          BY <2>2 DEF SpecRecord
        <5> QED
          BY <4>3, <5>1
      <4> QED
        BY <2>3, <4>1, <4>2, <4>3 DEF EditSpec
    <3>2. /\ res'[r].state = res[r].state /\ res'[r].spec = s /\ res'[r].status = res[r].status
          /\ \A q \in Resources : q # r => res'[q] = res[q]
      BY <2>1, <3>1, Stored, Rewritten
    <3>3. Marked(r)
      BY <2>1, <3>1, <3>2, Stored DEF Marked
    <3> QED
      BY <3>2, <3>3 DEF Marked, Real
  <2>4. CASE Delete(r) /\ Vanish(r)
    BY <2>4, VanishMarks
  <2>5. CASE res' = [res EXCEPT ![r].state = "deleting"]
    <3>1. /\ res'[r].state = "deleting" /\ res'[r].spec = res[r].spec /\ res'[r].status = res[r].status
          /\ \A q \in Resources : q # r => res'[q] = res[q]
      BY <2>1, <2>5, Stored, Rewritten
    <3>2. Marked(r)
      BY <2>1, <3>1, Stored DEF Marked
    <3> QED
      BY <3>1, <3>2 DEF Marked, Real
  <2> QED
    BY <2>3, <2>4, <2>5 DEF Delete
<1> QED
  BY <1>1, <1>2, UnnoticedRotation

LEMMA OperateRotation ==
  ASSUME RotationInv, (\E a \in Names : Operate(a)) \/ UNCHANGED vars PROVE RotationStep
<1>1. UNCHANGED <<res, asked, at, view, stale, todo, cur, st>>
  BY DEF Operate, cluster, History, Quietly, pass, vars
<1> QED
  BY <1>1, SameMarks, UnnoticedRotation

-----------------------------------------------------------------------------

LEMMA RotationInit == Init => RotationInv
<1> SUFFICES ASSUME Init PROVE RotationInv
  OBVIOUS
<1>1. PICK a \in Names, policy \in Policies :
          res = [r \in Resources |-> IF r \in Established THEN ReadyResource(a, policy) ELSE Missing]
  BY DEF Init
<1>2. \A r \in Resources : res[r] = ReadyResource(a, policy) \/ res[r] = Missing
  BY <1>1
<1>3. \A r \in Resources : ~asked[r]
  BY DEF Init
<1>4. Counted /\ RotationHonoured
  BY <1>2, <1>3 DEF Counted, RotationHonoured, ReadyResource, Missing, Real
<1>5. InPlay = {} /\ at \notin Working
  BY InWorking DEF Init, InPlay
<1> QED
  BY <1>4, <1>5, FinalInit DEF RotationInv, Behind, HandServed

LEMMA RotationNext ==
  ASSUME "adopt" \notin Edits, RotationInv, [Next]_vars PROVE RotationInv'
<1>1. FinalInv'
  BY FinalNext DEF RotationInv
<1>2. RotationStep
  <2>1. CASE PassStep
    BY <2>1, ListRotation, ListNamespaceRotation, ReconcileRotation, ReadAgentRotation, CallRotation,
       AddFinalizerRotation, WriteStatusRotation, RemoveFinalizerRotation DEF PassStep
  <2>2. ASSUME NEW r \in Resources, Apply(r) \/ RequestRotation(r) \/ EditSpec(r) \/ Delete(r)
        PROVE  RotationStep
    BY <2>2, ApplyRotation, RequestRotationRotation, EditRotation
  <2>3. CASE (\E a \in Names : Operate(a)) \/ UNCHANGED vars
    BY <2>3, OperateRotation
  <2>4. CASE Crash
    BY <2>4, ListRotation
  <2> QED
    BY <2>1, <2>2, <2>3, <2>4 DEF Next, Environment
<1> QED
  BY <1>1, <1>2 DEF RotationInv, RotationStep

\* operator.go:258-274 and crds/matrixagents.yaml, rotationToken: for any resources,
\* edits, failures and crashes, and whatever users change while the pass works from the
\* copy it listed, a status that names the rotationToken of the spec is of a token that
\* was issued since it was asked for; unless resources adopt agents, which takes the
\* value that is there then for one that is served.
THEOREM RequestsServed ==
  ASSUME "adopt" \notin Edits PROVE Spec => []RotationHonoured
<1>1. RotationInv /\ [Next]_vars => RotationInv'
  BY RotationNext
<1>2. RotationInv => RotationHonoured
  BY DEF RotationInv
<1> QED
  BY RotationInit, <1>1, <1>2, PTL DEF Spec


-----------------------------------------------------------------------------
(* RestartsFollow: what a step does to an agent, to a resource, and to a Secret *)

LEMMA FollowsSame == \A x : Follows(x, x)
BY DEF Follows

LEMMA FollowsOn ==
  ASSUME NEW x \in AgentRecord, NEW y \in AgentRecord, NEW z, z.gen \in Nat,
         Follows(x, y), Follows(y, z)
  PROVE  Follows(x, z)
<1>1. x.gen \in Nat /\ y.gen \in Nat
  BY DEF AgentRecord
<1> QED
  BY <1>1 DEF Follows

\* Nobody makes an agent anew that is there.
AgentsFollow ==
    \A a \in Names : agents[a] # NoAgent => agents'[a] # NoAgent /\ Follows(agents'[a], agents[a])

LEMMA SameAgents == ASSUME UNCHANGED agents PROVE AgentsFollow
BY FollowsSame DEF AgentsFollow

\* A token more: of an agent that was not there, or of a higher generation.
LEMMA RenewFollows ==
  ASSUME IInv, NEW a \in Names, NEW gen \in Nat, Renew(a, gen),
         agents[a] = NoAgent \/ agents[a].gen < gen
  PROVE  AgentsFollow
<1> DEFINE fresh == [status |-> "active", token |-> issued + 1, gen |-> gen]
<1>1. fresh # NoAgent /\ fresh.gen = gen
  BY DEF NoAgent
<1>2. agents' = [agents EXCEPT ![a] = fresh] /\ agents \in [Names -> AgentRecord]
  BY DEF IInv, TypeOK, Renew
<1> HIDE DEF fresh
<1>3. agents'[a] = fresh /\ \A b \in Names : b # a => agents'[b] = agents[b]
  BY <1>2
<1>4. agents[a] # NoAgent => Follows(agents'[a], agents[a])
  BY <1>1, <1>3 DEF Follows
<1> QED
  BY <1>1, <1>3, <1>4, FollowsSame DEF AgentsFollow

\* The token is taken away.
LEMMA WithdrawFollows ==
  ASSUME IInv, NEW a \in Names, NEW s \in {"revoked", "deactivated"},
         agents' = [agents EXCEPT ![a].status = s, ![a].token = 0]
  PROVE  AgentsFollow
<1> DEFINE less == [agents[a] EXCEPT !.status = s, !.token = 0]
<1>1. agents \in [Names -> AgentRecord] /\ agents[a] \in AgentRecord
  BY DEF IInv, TypeOK
<1>2. less.status = s /\ less.token = 0 /\ less.gen = agents[a].gen
  BY <1>1 DEF AgentRecord
<1>3. less # NoAgent
  BY <1>2 DEF NoAgent
<1>4. agents' = [agents EXCEPT ![a] = less]
  OBVIOUS
<1> HIDE DEF less
<1>5. agents'[a] = less /\ \A b \in Names : b # a => agents'[b] = agents[b]
  BY <1>1, <1>4
<1>6. Follows(less, agents[a])
  BY <1>2 DEF Follows
<1> QED
  BY <1>3, <1>5, <1>6, FollowsSame DEF AgentsFollow

LEMMA AgentsStep ==
  ASSUME "remove" \notin Dashboard, "purge" \notin Faults, IInv, [Next]_vars
  PROVE  AgentsFollow
<1>1. \A a \in Names : agents[a] \in AgentRecord /\ agents[a].gen \in Nat
  BY DEF IInv, TypeOK, AgentRecord
<1>2. ASSUME at \in Working PROVE Agent \in Names
  BY <1>2, InHand
<1>3. CASE CreateAgent
  <2>1. Agent \in Names
    BY <1>2, <1>3, InWorking DEF CreateAgent
  <2>2. UNCHANGED agents \/ (agents[Agent] = NoAgent /\ Renew(Agent, 1))
    BY <1>3 DEF CreateAgent, HalfCreated, Free, service
  <2> QED
    BY <2>1, <2>2, SameAgents, RenewFollows
<1>4. CASE RotateAgent
  <2>1. Agent \in Names
    BY <1>2, <1>4, InWorking DEF RotateAgent
  <2>2. \/ UNCHANGED agents \/ Renew(Agent, agents[Agent].gen + 1)
        \/ \E gen \in {agents[Agent].gen, agents[Agent].gen + 1} :
              agents' = [agents EXCEPT ![Agent] = [status |-> "revoked", token |-> 0, gen |-> gen]]
    BY <1>4 DEF RotateAgent, Fault
  <2>3. CASE Renew(Agent, agents[Agent].gen + 1)
    BY <1>1, <2>1, <2>3, RenewFollows
  <2>4. ASSUME NEW gen \in {agents[Agent].gen, agents[Agent].gen + 1},
               agents' = [agents EXCEPT ![Agent] = [status |-> "revoked", token |-> 0, gen |-> gen]]
        PROVE  AgentsFollow
    <3> DEFINE less == [status |-> "revoked", token |-> 0, gen |-> gen]
    <3>1. less # NoAgent /\ Follows(less, agents[Agent])
      BY <1>1, <2>1 DEF NoAgent, Follows
    <3> HIDE DEF less
    <3>2. agents' = [agents EXCEPT ![Agent] = less] /\ agents \in [Names -> AgentRecord]
      BY <2>4 DEF less, IInv, TypeOK
    <3>3. agents'[Agent] = less /\ \A b \in Names : b # Agent => agents'[b] = agents[b]
      BY <2>1, <3>2
    <3> QED
      BY <3>1, <3>3, FollowsSame DEF AgentsFollow
  <2> QED
    BY <2>2, <2>3, <2>4, SameAgents
<1>5. CASE DeactivateAgent
  <2>1. Agent \in Names
    BY <1>2, <1>5, InWorking DEF DeactivateAgent
  <2>2. \/ UNCHANGED agents
        \/ agents' = [agents EXCEPT ![Agent].status = "deactivated", ![Agent].token = 0]
    BY <1>5 DEF DeactivateAgent, Withdraw, service
  <2> QED
    BY <2>1, <2>2, SameAgents, WithdrawFollows
<1>6. ASSUME NEW a \in Names, Operate(a) PROVE AgentsFollow
  <2>1. \/ agents[a] = NoAgent /\ Renew(a, 1)
        \/ Renew(a, agents[a].gen + 1)
        \/ \E s \in {"revoked", "deactivated"} :
              agents' = [agents EXCEPT ![a].status = s, ![a].token = 0]
    BY <1>6 DEF Operate, Free, Withdraw
  <2>2. CASE Renew(a, agents[a].gen + 1)
    BY <1>1, <2>2, RenewFollows
  <2> QED
    BY <2>1, <2>2, RenewFollows, WithdrawFollows
<1>7. CASE UNCHANGED agents
  BY <1>7, SameAgents
<1>8. CASE UNCHANGED vars
  BY <1>7, <1>8 DEF vars
<1>9. CASE PassStep
  <2>1. \/ CreateAgent \/ RotateAgent \/ DeactivateAgent \/ UNCHANGED agents
    BY <1>9 DEF PassStep, BeginPass, ListNamespace, Reconcile, EndPass, AddFinalizer, ReadAgent,
       RereadAgent, WriteSecret, RestartConsumers, WriteStatus, RemoveFinalizer, service
  <2> QED
    BY <2>1, <1>3, <1>4, <1>5, <1>7
<1>10. CASE Environment
  <2>1. (\E a \in Names : Operate(a)) \/ UNCHANGED agents
    BY <1>10 DEF Environment, Apply, RequestRotation, EditSpec, Delete, Crash, service
  <2> QED
    BY <2>1, <1>6, <1>7
<1> QED
  BY <1>8, <1>9, <1>10 DEF Next

\* A resource stays what it was, but for its policy and the like; or goes.
Stays(r) ==
    /\ res'[r] # Missing
    /\ Real(res'[r]) => /\ Real(res[r])
                        /\ res'[r].spec.agent = res[r].spec.agent
                        /\ res'[r].status = res[r].status

LEMMA SameStays ==
  ASSUME FinalInv, NEW r \in Resources, res[r] # Missing, res'[r] = res[r] \/ res'[r] = Gone
  PROVE  Stays(r)
BY Kinds DEF Stays

\* A user edits the object, or deletes it.
LEMMA UserStays ==
  ASSUME "rename" \notin Edits, FinalInv, NEW r \in Resources,
         RequestRotation(r) \/ EditSpec(r) \/ Delete(r),
         NEW q \in Resources, res[q] # Missing
  PROVE  Stays(q)
<1>1. Real(res[r]) /\ res[r] \in ResourceRecord
  BY Kinds DEF RequestRotation, EditSpec, Delete
<1>2. res[r].spec \in SpecRecord
  BY <1>1, RealRecord
<1>3. ASSUME NEW s, res' = [res EXCEPT ![r].spec = s], s.agent = res[r].spec.agent PROVE Stays(q)
  <2>1. /\ res'[r].state = res[r].state /\ res'[r].spec = s /\ res'[r].status = res[r].status
        /\ \A p \in Resources : p # r => res'[p] = res[p]
    BY <1>1, <1>3, Kinds, Rewritten
  <2>2. Stays(r)
    BY <1>1, <1>3, <2>1, Kinds DEF Stays
  <2> QED
    BY <2>1, <2>2, SameStays
<1>4. CASE Vanish(r)
  <2>1. res'[q] = res[q] \/ res'[q] = Gone
    BY <1>4, Kinds DEF Vanish
  <2> QED
    BY <2>1, SameStays
<1>5. CASE res' = [res EXCEPT ![r].state = "deleting"]
  <2>1. /\ res'[r].state = "deleting" /\ res'[r].spec = res[r].spec /\ res'[r].status = res[r].status
        /\ \A p \in Resources : p # r => res'[p] = res[p]
    BY <1>1, <1>5, Kinds, Rewritten
  <2>2. Stays(r)
    BY <1>1, <2>1, Kinds DEF Stays
  <2> QED
    BY <2>1, <2>2, SameStays
<1>6. CASE RequestRotation(r)
  <2> DEFINE s == [res[r].spec EXCEPT !.rotation = @ + 1]
  <2>1. res' = [res EXCEPT ![r].spec = s]
    BY <1>6 DEF RequestRotation
  <2>2. s.agent = res[r].spec.agent
    BY <1>2 DEF SpecRecord
  <2> QED
    BY <1>3, <2>1, <2>2
<1>7. CASE EditSpec(r)
  <2>1. ASSUME res' = [res EXCEPT ![r].spec.adopt = ~@] PROVE Stays(q)
    <3> DEFINE s == [res[r].spec EXCEPT !.adopt = ~@]
    <3>1. res' = [res EXCEPT ![r].spec = s] /\ s.agent = res[r].spec.agent
      BY <1>2, <2>1 DEF SpecRecord
    <3> QED
      BY <1>3, <3>1
  <2>2. ASSUME res' = [res EXCEPT ![r].spec.valid = ~@] PROVE Stays(q)
    <3> DEFINE s == [res[r].spec EXCEPT !.valid = ~@]
    <3>1. res' = [res EXCEPT ![r].spec = s] /\ s.agent = res[r].spec.agent
      BY <1>2, <2>2 DEF SpecRecord
    <3> QED
      BY <1>3, <3>1
  <2>3. ASSUME NEW p, res' = [res EXCEPT ![r].spec.policy = p] PROVE Stays(q)
    <3> DEFINE s == [res[r].spec EXCEPT !.policy = p]
    <3>1. res' = [res EXCEPT ![r].spec = s] /\ s.agent = res[r].spec.agent
      BY <1>2, <2>3 DEF SpecRecord
    <3> QED
      BY <1>3, <3>1
  <2> QED
    BY <1>7, <2>1, <2>2, <2>3 DEF EditSpec
<1> QED
  BY <1>4, <1>5, <1>6, <1>7 DEF Delete

\* The status is written when the object is what was listed.
StatusWritten == WriteStatus /\ Fresh /\ res' = [res EXCEPT ![cur].status = st]

LEMMA ResourceStep ==
  ASSUME "rename" \notin Edits, FinalInv, [Next]_vars, NEW r \in Resources, res[r] # Missing
  PROVE  Stays(r) \/ (StatusWritten /\ r = cur)
<1>1. CASE AddFinalizer
  <2>1. cur \in Resources
    BY <1>1, InHand, InWorking DEF AddFinalizer, FinalInv
  <2>2. CASE Fresh /\ res' = [res EXCEPT ![cur].finalizer = TRUE]
    <3>1. Real(res[cur]) /\ res[cur] \in ResourceRecord
      BY <2>1, <2>2, Kinds DEF Fresh
    <3>2. /\ res'[cur].state = res[cur].state /\ res'[cur].spec = res[cur].spec
          /\ res'[cur].status = res[cur].status
          /\ \A q \in Resources : q # cur => res'[q] = res[q]
      BY <2>1, <2>2, <3>1, Kinds, Rewritten
    <3>3. Stays(cur)
      BY <3>1, <3>2, Kinds DEF Stays
    <3> QED
      BY <3>2, <3>3, SameStays
  <2>3. UNCHANGED res \/ (Fresh /\ res' = [res EXCEPT ![cur].finalizer = TRUE])
    BY <1>1 DEF AddFinalizer, Call
  <2> QED
    BY <2>2, <2>3, SameStays
<1>2. CASE WriteStatus
  <2>1. UNCHANGED res \/ (Fresh /\ res' = [res EXCEPT ![cur].status = st])
    BY <1>2 DEF WriteStatus, Call
  <2>2. CASE Fresh /\ res' = [res EXCEPT ![cur].status = st] /\ r # cur
    <3>1. res'[r] = res[r]
      BY <2>2, Kinds
    <3> QED
      BY <3>1, SameStays
  <2> QED
    BY <1>2, <2>1, <2>2, SameStays DEF StatusWritten
<1>3. CASE RemoveFinalizer
  <2>1. UNCHANGED res \/ Vanish(cur)
    BY <1>3 DEF RemoveFinalizer, Call
  <2>2. res'[r] = res[r] \/ res'[r] = Gone
    BY <2>1, Kinds DEF Vanish
  <2> QED
    BY <2>2, SameStays
<1>4. ASSUME NEW q \in Resources, Apply(q) PROVE Stays(r)
  <2>1. q # r /\ \E new : res' = [res EXCEPT ![q] = new]
    BY <1>4 DEF Apply
  <2>2. res'[r] = res[r]
    BY <2>1, Kinds
  <2> QED
    BY <2>2, SameStays
<1>5. CASE UNCHANGED res
  BY <1>5, SameStays
<1>6. CASE UNCHANGED vars
  BY <1>5, <1>6 DEF vars
<1>7. CASE PassStep
  <2>1. AddFinalizer \/ WriteStatus \/ RemoveFinalizer \/ UNCHANGED res
    BY <1>7 DEF PassStep, BeginPass, ListNamespace, Reconcile, EndPass, ReadAgent, CreateAgent,
       RotateAgent, RereadAgent, WriteSecret, RestartConsumers, DeactivateAgent, cluster
  <2> QED
    BY <2>1, <1>1, <1>2, <1>3, <1>5
<1>8. CASE Environment
  <2>1. \/ \E q \in Resources : Apply(q) \/ RequestRotation(q) \/ EditSpec(q) \/ Delete(q)
        \/ UNCHANGED res
    BY <1>8 DEF Environment, Operate, Crash, cluster
  <2> QED
    BY <2>1, <1>4, <1>5, UserStays
<1> QED
  BY <1>6, <1>7, <1>8 DEF Next

\* A Secret goes with its resource, and the pass writes that of the resource in hand.
LEMMA SecretStep ==
  ASSUME FinalInv, [Next]_vars, NEW r \in Resources, Real(res'[r]),
         ~(r = cur /\ (WriteSecret \/ RestartConsumers))
  PROVE  target'[r] = target[r] /\ running'[r] = running[r]
<1>1. ASSUME NEW q \in Resources, Vanish(q), UNCHANGED running PROVE target'[r] = target[r]
  <2>1. q # r
    BY <1>1, Kinds DEF Vanish
  <2> QED
    BY <1>1, <2>1 DEF Vanish, FinalInv, IInv, TypeOK
<1>2. CASE WriteSecret \/ RestartConsumers
  <2>1. r # cur
    BY <1>2
  <2> QED
    BY <1>2, <2>1 DEF WriteSecret, RestartConsumers, FinalInv, IInv, TypeOK
<1>3. CASE UNCHANGED <<target, running>>
  BY <1>3
<1>4. CASE UNCHANGED vars
  BY <1>3, <1>4 DEF vars
<1>5. CASE RemoveFinalizer
  <2>1. cur \in Resources
    BY <1>5, InHand, InWorking DEF RemoveFinalizer, FinalInv
  <2>2. UNCHANGED running /\ (UNCHANGED target \/ Vanish(cur))
    BY <1>5 DEF RemoveFinalizer, Call
  <2> QED
    BY <1>1, <2>1, <2>2
<1>6. CASE PassStep
  <2>1. WriteSecret \/ RestartConsumers \/ RemoveFinalizer \/ UNCHANGED <<target, running>>
    BY <1>6 DEF PassStep, BeginPass, ListNamespace, Reconcile, EndPass, AddFinalizer, ReadAgent,
       CreateAgent, RotateAgent, RereadAgent, WriteStatus, DeactivateAgent, cluster
  <2> QED
    BY <2>1, <1>2, <1>3, <1>5
<1>7. ASSUME NEW q \in Resources, Delete(q) PROVE UNCHANGED running /\ (UNCHANGED target \/ Vanish(q))
  BY <1>7 DEF Delete
<1>8. CASE Environment
  <2>1. (\E q \in Resources : Delete(q)) \/ UNCHANGED <<target, running>>
    BY <1>8 DEF Environment, Apply, RequestRotation, EditSpec, Operate, Crash, cluster
  <2> QED
    BY <2>1, <1>1, <1>3, <1>7
<1> QED
  BY <1>4, <1>6, <1>8 DEF Next

-----------------------------------------------------------------------------
(* RestartsFollow: the copies of the pass *)

\* What comes into play was just listed; the other copies differ in a finalizer.
LEMMA PlayStep ==
  ASSUME FinalInv, [Next]_vars, NEW r \in InPlay'
  PROVE  \/ /\ r \in InPlay
            /\ r # cur \/ ~WriteStatus
            /\ view'[r].spec = view[r].spec /\ view'[r].status = view[r].status
         \/ Real(res[r]) /\ res'[r] = res[r] /\ view'[r] = res[r]
<1>1. \A q \in todo : q \in InPlay /\ q \in Resources /\ (at \in Working => q # cur)
  BY DEF InPlay, FinalInv, IInv, TypeOK, TakenOnce
<1>2. CASE ListNamespace
  <2>1. PICK found \in SUBSET {q \in Resources : Real(res[q])} :
            \/ /\ view' = [q \in Resources |-> IF q \in found THEN res[q] ELSE view[q]]
               /\ todo' = todo \cup found
            \/ UNCHANGED <<view, todo>>
    BY <1>2 DEF ListNamespace, Real
  <2>2. at' \notin Working /\ UNCHANGED res /\ ~WriteStatus
    BY <1>2, InWorking DEF ListNamespace, cluster, WriteStatus
  <2>3. r \in todo' /\ r \in Resources
    BY <1>1, <2>1, <2>2 DEF InPlay
  <2>4. (r \in todo /\ view'[r] = view[r]) \/ (Real(res[r]) /\ view'[r] = res[r])
    BY <2>1, <2>3
  <2> QED
    BY <1>1, <2>2, <2>4
<1>3. CASE Reconcile
  <2>1. /\ cur' \in todo /\ todo' \subseteq todo /\ UNCHANGED view /\ ~WriteStatus
    BY <1>3 DEF Reconcile, WriteStatus
  <2> QED
    BY <1>1, <2>1 DEF InPlay
<1>4. CASE AddFinalizer
  <2>1. at \in Working /\ cur \in Resources /\ cur \in InPlay /\ ~WriteStatus
    BY <1>4, InHand, InWorking DEF AddFinalizer, FinalInv, InPlay, WriteStatus
  <2>2. view \in [Resources -> ResourceRecord] /\ view[cur] \in ResourceRecord /\ Real(view[cur])
    BY <2>1, InHand DEF FinalInv, IInv, TypeOK, Obj
  <2>3. UNCHANGED view \/ view' = [view EXCEPT ![cur].finalizer = TRUE]
    BY <1>4 DEF AddFinalizer, Call, Abandon, Proceed
  <2>4. view'[cur].spec = view[cur].spec /\ view'[cur].status = view[cur].status
    <3>1. CASE view' = [view EXCEPT ![cur].finalizer = TRUE]
      BY <2>1, <2>2, <3>1, Rewritten
    <3> QED
      BY <2>3, <3>1
  <2>5. UNCHANGED <<todo, cur>>
    BY <1>4 DEF AddFinalizer, Call, Abandon, Proceed
  <2>6. r \in InPlay /\ r \in Resources
    BY <1>1, <2>1, <2>5 DEF InPlay
  <2>7. r # cur => view'[r] = view[r]
    BY <2>2, <2>3, <2>6
  <2> QED
    BY <2>1, <2>4, <2>6, <2>7
<1>5. CASE WriteStatus
  <2>1. at' \notin Working /\ at \in Working /\ UNCHANGED <<todo, view>>
    BY <1>5, InWorking DEF WriteStatus, Call, Abandon, Proceed
  <2> QED
    BY <1>1, <2>1 DEF InPlay
<1>6. CASE BeginPass \/ EndPass \/ Crash
  <2>1. at' \notin Working /\ ~WriteStatus
    <3>1. WriteStatus => at' = "next"
      BY DEF WriteStatus, Call, Abandon, Proceed
    <3> QED
      BY <1>6, <3>1, InWorking DEF BeginPass, EndPass, Crash
  <2>2. r \in todo'
    BY <2>1 DEF InPlay
  <2>3. UNCHANGED <<todo, view>>
    BY <1>6, <2>2 DEF BeginPass, EndPass, Crash
  <2> QED
    BY <1>1, <2>1, <2>2, <2>3
<1>7. CASE UNCHANGED <<todo, view, cur>> /\ (at \in Working \/ UNCHANGED at) /\ ~WriteStatus
  BY <1>1, <1>7 DEF InPlay
<1>8. ASSUME WriteStatus, UNCHANGED at PROVE FALSE
  <2>1. at \in Working /\ at' = "next"
    BY <1>8, InWorking DEF WriteStatus, Call, Abandon, Proceed
  <2> QED
    BY <1>8, <2>1, InWorking
<1>9. CASE PassStep
  <2>1. \A phase : Report(phase) => UNCHANGED <<todo, view, cur>>
    BY DEF Report
  <2>2. \A changed : AfterWrite(changed) => UNCHANGED <<todo, view, cur>>
    BY DEF AfterWrite, Proceed, FinishReady
  <2>3. ASSUME ReadAgent \/ CreateAgent \/ RotateAgent \/ RereadAgent
        PROVE  UNCHANGED <<todo, view, cur>> /\ at \in Working /\ ~WriteStatus
    <3>1. at \in Working /\ ~WriteStatus
      BY <2>3, InWorking DEF ReadAgent, CreateAgent, RotateAgent, RereadAgent, WriteStatus
    <3>2. Served \/ Failed => UNCHANGED <<todo, view, cur>>
      BY <2>1 DEF Served, Failed
    <3>3. CASE ReadAgent
      BY <2>1, <3>1, <3>2, <3>3 DEF ReadAgent, Proceed
    <3> QED
      BY <2>3, <3>1, <3>2, <3>3 DEF CreateAgent, RotateAgent, RereadAgent
  <2>4. ASSUME WriteSecret \/ RestartConsumers \/ DeactivateAgent \/ RemoveFinalizer
        PROVE  UNCHANGED <<todo, view, cur>> /\ at \in Working /\ ~WriteStatus
    BY <2>1, <2>2, <2>4, InWorking DEF WriteSecret, RestartConsumers, DeactivateAgent,
       RemoveFinalizer, FinishReady, Failed, Proceed, Abandon, Call, WriteStatus
  <2> QED
    BY <1>2, <1>3, <1>4, <1>5, <1>6, <1>7, <1>9, <2>3, <2>4 DEF PassStep
<1>10. CASE Environment
  <2>1. CASE Crash
    BY <1>6, <2>1
  <2>2. CASE ~Crash
    <3>1. UNCHANGED <<todo, view, cur, at>>
      BY <1>10, <2>2 DEF Environment, Apply, RequestRotation, EditSpec, Delete, Operate, Touch,
         Quietly, pass
    <3>2. ~WriteStatus
      BY <1>8, <3>1
    <3> QED
      BY <1>7, <3>1, <3>2
  <2> QED
    BY <2>1, <2>2
<1>11. CASE UNCHANGED vars
  BY <1>7, <1>8, <1>11 DEF vars
<1> QED
  BY <1>9, <1>10, <1>11 DEF Next


LEMMA SameAgentStep ==
  ASSUME "rename" \notin Edits, FollowInv, [Next]_vars, NEW r \in Established, r \in InPlay'
  PROVE  SameAgent(r)'
<1>1. FinalInv /\ Followed(r) /\ res[r] # Missing /\ r \in Resources
  BY ResourceAssumption DEF FollowInv, Followed
<1>2. Stays(r) \/ (StatusWritten /\ r = cur)
  BY <1>1, ResourceStep
<1>3. CASE Real(res[r]) /\ res'[r] = res[r] /\ view'[r] = res[r]
  BY <1>1, <1>3 DEF Followed, SameAgent, Real
<1>4. CASE /\ r \in InPlay
           /\ r # cur \/ ~WriteStatus
           /\ view'[r].spec = view[r].spec /\ view'[r].status = view[r].status
  <2>1. SameAgent(r)
    BY <1>4 DEF FollowInv
  <2>2. Stays(r)
    BY <1>2, <1>4 DEF StatusWritten
  <2> QED
    BY <1>4, <2>1, <2>2 DEF SameAgent, Stays, Real
<1> QED
  BY <1>1, <1>3, <1>4, PlayStep

-----------------------------------------------------------------------------
(* RestartsFollow: the Secret, the status and the pods *)

\* What Followed says of a resource that is there.
LEMMA FollowedReal ==
  ASSUME FollowInv, NEW r \in Established, Real(res[r])
  PROVE  /\ r \in Resources /\ res[r].spec.agent \in Names
         /\ target[r].gen \in Nat /\ target[r].token \in Nat /\ res[r].status.restarted \in Nat
         /\ agents[res[r].spec.agent] \in AgentRecord
<1>1. r \in Resources /\ res[r] \in ResourceRecord
  BY ResourceAssumption, Kinds DEF FollowInv
<1>2. res[r].spec.agent \in Names /\ res[r].status \in StatusRecord
  BY <1>1, RealRecord
<1>3. target[r] \in TargetRecord /\ agents \in [Names -> AgentRecord]
  BY <1>1 DEF FollowInv, FinalInv, IInv, TypeOK
<1> QED
  BY <1>1, <1>2, <1>3 DEF TargetRecord, StatusRecord

\* The agent goes on.
LEMMA AgentFollowed ==
  ASSUME FollowInv, IInv', AgentsFollow, NEW r \in Established, Real(res[r])
  PROVE  LET a == res[r].spec.agent
         IN  agents'[a] # NoAgent /\ agents'[a] \in AgentRecord /\ Follows(agents'[a], agents[a])
               /\ Follows(agents'[a], target[r])
<1> DEFINE a == res[r].spec.agent
<1>1. a \in Names /\ agents[a] \in AgentRecord /\ target[r].gen \in Nat
  BY FollowedReal
<1>2. agents'[a] \in AgentRecord
  BY <1>1 DEF IInv, TypeOK
<1>3. agents[a] # NoAgent /\ Follows(agents[a], target[r])
  BY DEF FollowInv, Followed
<1>4. agents'[a] # NoAgent /\ Follows(agents'[a], agents[a])
  BY <1>1, <1>3 DEF AgentsFollow
<1>5. Follows(agents'[a], target[r])
  BY <1>1, <1>2, <1>3, <1>4, FollowsOn
<1> QED
  BY <1>2, <1>4, <1>5

LEMMA FollowedStays ==
  ASSUME FollowInv, IInv', AgentsFollow, NEW r \in Established, Stays(r),
         Real(res'[r]) => target'[r] = target[r] /\ running'[r] = running[r]
  PROVE  Followed(r)'
<1>1. CASE Real(res'[r])
  <2>1. /\ Real(res[r]) /\ res'[r].spec.agent = res[r].spec.agent
        /\ res'[r].status.restarted = res[r].status.restarted
        /\ target'[r] = target[r] /\ running'[r] = running[r]
    BY <1>1 DEF Stays
  <2>2. Followed(r)
    BY DEF FollowInv
  <2>3. /\ agents'[res'[r].spec.agent] # NoAgent
        /\ Follows(agents'[res'[r].spec.agent], target'[r])
    BY <2>1, AgentFollowed
  <2> QED
    BY <2>1, <2>2, <2>3 DEF Followed, Stays, Real
<1> QED
  BY <1>1 DEF Followed, Stays, Real

\* The status names the generation that the pods were started with.
LEMMA FollowedStatus ==
  ASSUME FollowInv, IInv', AgentsFollow, cur \in Established, StatusWritten
  PROVE  Followed(cur)'
<1>1. at = "status" /\ at \in Working /\ cur \in Resources /\ cur \notin stale /\ Real(res[cur])
  BY ResourceAssumption, InWorking DEF StatusWritten, WriteStatus, Fresh, Real
<1>2. res[cur] = Obj /\ res[cur] \in ResourceRecord
  BY <1>1, Kinds DEF FollowInv, FinalInv, Synced, InPlay, Obj
<1>3. /\ res'[cur].state = res[cur].state /\ res'[cur].spec = res[cur].spec /\ res'[cur].status = st
  BY <1>1, <1>2, Kinds, Rewritten DEF StatusWritten, FollowInv
<1>4. Followed(cur)
  BY DEF FollowInv
<1>5. /\ agents'[res[cur].spec.agent] # NoAgent
      /\ Follows(agents'[res[cur].spec.agent], target[cur])
  BY <1>1, AgentFollowed
<1>6. /\ st.restarted # 0 /\ st.restarted <= target[cur].gen
      /\ target[cur].token # 0 /\ st.restarted = target[cur].gen => running[cur] = target[cur].token
  <2>1. CASE st.restarted = Obj.status.restarted
    BY <1>1, <1>2, <1>4, <2>1 DEF Followed
  <2>2. CASE /\ st.restarted = target[cur].gen
             /\ target[cur].token # 0 => running[cur] = target[cur].token
    <3>1. res[cur].status.restarted # 0 /\ res[cur].status.restarted <= target[cur].gen
      BY <1>1, <1>4 DEF Followed
    <3>2. target[cur].gen \in Nat /\ res[cur].status.restarted \in Nat
      BY <1>1, FollowedReal
    <3> QED
      BY <2>2, <3>1, <3>2
  <2> QED
    BY <1>1, <2>1, <2>2 DEF FollowInv, HandFollows
<1>7. target[cur].state = "owned"
  BY <1>1, <1>4 DEF Followed
<1>8. res'[cur] # Missing
  BY <1>1, <1>3, Kinds DEF FollowInv
<1>9. cur' = cur /\ UNCHANGED <<target, running>>
  BY DEF StatusWritten, WriteStatus, Call, Abandon, Proceed
<1>10. res'[cur].spec.agent = res[cur].spec.agent /\ res'[cur].status.restarted = st.restarted
  BY <1>3
<1> QED
  BY <1>5, <1>6, <1>7, <1>8, <1>9, <1>10 DEF Followed, Real


\* Where the record in hand is, against the Secret and the pods.
LEMMA AtWrite ==
  ASSUME FollowInv, cur \in Established, at = "write", Real(res[cur])
  PROVE  /\ cur \in Resources /\ rec.gen \in Nat
         /\ target[cur].state = "owned"
         /\ Agent = res[cur].spec.agent /\ Follows(agents[Agent], rec)
         /\ target[cur].gen <= rec.gen
         /\ rec.gen = target[cur].gen => rec.token \in {target[cur].token, 0}
         /\ res[cur].status.restarted # 0 /\ res[cur].status.restarted <= target[cur].gen
         /\ res[cur].status.restarted \in Nat /\ target[cur].gen \in Nat
         /\ target[cur].token # 0 /\ res[cur].status.restarted = target[cur].gen
              => running[cur] = target[cur].token
         /\ st.restarted = Obj.status.restarted /\ st.restarted # 0
         /\ cur \notin stale => res[cur] = Obj
<1>1. at \in Working \ {"status"} /\ cur \in InPlay
  BY InWorking DEF InPlay
<1>2. Agent = res[cur].spec.agent /\ Obj.status.restarted # 0
  BY <1>1 DEF FollowInv, SameAgent, Agent, Obj
<1>3. /\ Follows(agents[Agent], rec) /\ Follows(rec, target[cur])
      /\ st.restarted = Obj.status.restarted
  BY <1>1 DEF FollowInv, HandFollows
<1>4. rec.gen \in Nat
  BY DEF FollowInv, FinalInv, IInv, TypeOK, AgentRecord
<1>5. target[cur].gen \in Nat /\ res[cur].status.restarted \in Nat /\ cur \in Resources
  BY FollowedReal
<1>6. target[cur].gen <= rec.gen /\ (rec.gen = target[cur].gen => rec.token \in {target[cur].token, 0})
  BY <1>3, <1>4, <1>5 DEF Follows
<1>7. Followed(cur)
  BY DEF FollowInv
<1>8. cur \notin stale => res[cur] = Obj
  BY <1>1 DEF FollowInv, FinalInv, Synced, Obj
<1> QED
  BY <1>2, <1>3, <1>4, <1>5, <1>6, <1>7, <1>8 DEF Followed

\* The Secret as the pass leaves it.
Rewrites ==
    /\ target' = [target EXCEPT ![cur] = Desired]
    /\ running' = IF target[cur].state = "absent" THEN [running EXCEPT ![cur] = rec.token] ELSE running

LEMMA WriteOutcome ==
  ASSUME WriteSecret
  PROVE  /\ at = "write" /\ UNCHANGED <<res, agents, view, stale, todo, cur, rec>>
         /\ Rewrites \/ UNCHANGED <<target, running>>
         /\ \/ Failed
            \/ target[cur] = Desired /\ UNCHANGED <<target, running>> /\ AfterWrite(FALSE)
            \/ Rewrites /\ AfterWrite(target[cur].state = "absent" \/ target[cur].token # rec.token)
<1>1. ASSUME Failed PROVE UNCHANGED <<view, stale, todo, cur, rec>>
  BY <1>1 DEF Failed, Report
<1>2. ASSUME NEW changed, AfterWrite(changed) PROVE UNCHANGED <<view, stale, todo, cur, rec>>
  BY <1>2 DEF AfterWrite, Proceed, FinishReady
<1> QED
  BY <1>1, <1>2 DEF WriteSecret, Rewrites, service

LEMMA RewriteFollowed ==
  ASSUME FollowInv, cur \in Established, at = "write", Rewrites, UNCHANGED <<res, agents, cur>>,
         Real(res[cur])
  PROVE  /\ target'[cur].state = "owned" /\ target'[cur].gen = rec.gen /\ target'[cur].token = rec.token
         /\ running'[cur] = running[cur]
         /\ res[cur].status.restarted <= rec.gen
         /\ rec.token # 0 /\ res[cur].status.restarted = rec.gen => running[cur] = rec.token
<1>1. target'[cur] = Desired /\ running' = running
  BY AtWrite DEF Rewrites, FollowInv, FinalInv, IInv, TypeOK
<1>2. Desired.state = "owned" /\ Desired.gen = rec.gen /\ Desired.token = rec.token
  BY DEF Desired
<1>3. res[cur].status.restarted <= rec.gen
  BY AtWrite
<1>4. ASSUME rec.token # 0, res[cur].status.restarted = rec.gen PROVE running[cur] = rec.token
  <2>1. rec.gen = target[cur].gen
    BY <1>4, AtWrite
  <2>2. rec.token = target[cur].token
    BY <1>4, <2>1, AtWrite
  <2> QED
    BY <1>4, <2>1, <2>2, AtWrite
<1> QED
  BY <1>1, <1>2, <1>3, <1>4

LEMMA FollowedSecret ==
  ASSUME FollowInv, cur \in Established, WriteSecret \/ RestartConsumers PROVE Followed(cur)'
<1>1. UNCHANGED <<res, agents, cur>>
  BY WriteOutcome DEF RestartConsumers, FinishReady, Failed, Report, service
<1>2. Followed(cur)
  BY DEF FollowInv
<1>3. CASE UNCHANGED <<target, running>>
  BY <1>1, <1>2, <1>3 DEF Followed, Real, Follows
<1>4. CASE RestartConsumers /\ ~UNCHANGED running
  <2>1. UNCHANGED target /\ running' = [running EXCEPT ![cur] = target[cur].token]
    BY <1>4 DEF RestartConsumers
  <2>2. running'[cur] = target[cur].token
    BY ResourceAssumption, <2>1 DEF FollowInv, FinalInv, IInv, TypeOK
  <2> QED
    BY <1>1, <1>2, <2>1, <2>2 DEF Followed, Real, Follows
<1>5. CASE WriteSecret /\ Rewrites /\ Real(res[cur])
  <2>1. at = "write"
    BY <1>5, WriteOutcome
  <2>2. /\ target'[cur].state = "owned" /\ target'[cur].gen = rec.gen /\ target'[cur].token = rec.token
        /\ running'[cur] = running[cur]
        /\ res[cur].status.restarted <= rec.gen
        /\ rec.token # 0 /\ res[cur].status.restarted = rec.gen => running[cur] = rec.token
    BY <1>1, <1>5, <2>1, RewriteFollowed
  <2>3. Follows(agents[res[cur].spec.agent], rec)
    BY <1>5, <2>1, AtWrite
  <2>4. Follows(agents[res[cur].spec.agent], target'[cur])
    BY <2>2, <2>3 DEF Follows
  <2>5. /\ res[cur] # Missing /\ agents[res[cur].spec.agent] # NoAgent
        /\ res[cur].status.restarted # 0
    BY <1>2, <1>5 DEF Followed
  <2> QED
    BY <1>1, <2>2, <2>4, <2>5 DEF Followed, Follows
<1>6. CASE ~Real(res[cur])
  BY <1>1, <1>2, <1>6 DEF Followed, Real
<1>7. RestartConsumers => UNCHANGED target
  BY DEF RestartConsumers
<1> QED
  BY <1>3, <1>4, <1>5, <1>6, <1>7, WriteOutcome


LEMMA FollowedStep ==
  ASSUME "rename" \notin Edits, "remove" \notin Dashboard, "purge" \notin Faults,
         FollowInv, [Next]_vars, NEW r \in Established
  PROVE  Followed(r)'
<1>1. FinalInv /\ IInv /\ IInv' /\ AgentsFollow /\ r \in Resources
  BY ResourceAssumption, AgentsStep, NextInv DEF FollowInv, FinalInv
<1>2. res[r] # Missing
  BY DEF FollowInv, Followed
<1>3. CASE r = cur /\ (WriteSecret \/ RestartConsumers)
  <2>1. cur' = cur
    BY <1>3, WriteOutcome DEF RestartConsumers, FinishReady, Failed, Report
  <2>2. Followed(cur)'
    BY <1>3, FollowedSecret
  <2> QED
    BY <1>3, <2>1, <2>2 DEF Followed
<1>4. CASE StatusWritten /\ r = cur
  <2>1. cur' = cur
    BY <1>4 DEF StatusWritten, WriteStatus, Call, Abandon, Proceed
  <2>2. Followed(cur)'
    BY <1>1, <1>4, FollowedStatus
  <2> QED
    BY <1>4, <2>1, <2>2 DEF Followed
<1>5. CASE Stays(r) /\ ~(r = cur /\ (WriteSecret \/ RestartConsumers))
  <2>1. Real(res'[r]) => target'[r] = target[r] /\ running'[r] = running[r]
    BY <1>1, <1>5, SecretStep
  <2> QED
    BY <1>1, <1>5, <2>1, FollowedStays
<1> QED
  BY <1>1, <1>2, <1>3, <1>4, <1>5, ResourceStep

-----------------------------------------------------------------------------
(* RestartsFollow: the status and the record in hand *)

\* The pass goes on with the object, towards its next call or its status.
LEMMA HandOnward ==
  ASSUME FollowInv, at \in Working \ {"status"}, at' \notin {"write", "restart"},
         cur' = cur, view'[cur].status = view[cur].status, st'.restarted = st.restarted
  PROVE  HandFollows'
<1>1. st'.restarted = Obj'.status.restarted
  BY DEF FollowInv, HandFollows, Obj
<1> QED
  BY <1>1 DEF HandFollows

\* The pass is between two objects.
LEMMA HandIdle == ASSUME at' \notin Working PROVE HandFollows'
BY InWorking DEF HandFollows

\* What Reconcile makes of the status that was listed.
LEMMA ReconcileHand == ASSUME FollowInv, Reconcile PROVE HandFollows'
<1>1. PICK r \in todo :
         /\ cur' = r /\ at' \notin {"write", "restart"}
         /\ \/ st' = view[r].status
            \/ \E phase \in Phases : st' = [view[r].status EXCEPT !.phase = phase]
  BY DEF Reconcile, Phases
<1>2. view' = view /\ view[r].status \in StatusRecord
  <2>1. r \in Resources /\ Real(view[r]) /\ view[r] \in ResourceRecord
    BY DEF FollowInv, FinalInv, IInv, TypeOK, PassOK
  <2> QED
    BY <2>1, RealRecord DEF Reconcile
<1>3. st'.restarted = Obj'.status.restarted
  BY <1>1, <1>2 DEF StatusRecord, Obj
<1> QED
  BY <1>1, <1>3 DEF HandFollows

\* A status that ends in no Ready has the generation of the one before.
LEMMA ReportHand ==
  ASSUME FollowInv, at \in Working \ {"status"}, NEW phase, Report(phase) PROVE HandFollows'
<1>1. st'.restarted = st.restarted
  BY DEF FollowInv, FinalInv, IInv, TypeOK, Report, StatusRecord
<1> QED
  BY <1>1, HandOnward DEF Report

\* The calls before the Secret is written.
LEMMA CallHand ==
  ASSUME FollowInv, ReadAgent \/ CreateAgent \/ RotateAgent \/ DeactivateAgent PROVE HandFollows'
<1>1. at \in Working \ {"status"}
  BY InWorking DEF ReadAgent, CreateAgent, RotateAgent, DeactivateAgent
<1>2. ASSUME Failed PROVE HandFollows'
  BY <1>1, <1>2, ReportHand DEF Failed
<1>3. ASSUME NEW label \in {"create", "unfinalize"}, Proceed(label) PROVE HandFollows'
  BY <1>1, <1>3, HandOnward DEF Proceed
<1>4. CASE Served
  <2>1. st'.restarted = st.restarted
    BY <1>4 DEF FollowInv, FinalInv, IInv, TypeOK, Served, StatusRecord
  <2> QED
    BY <1>1, <1>4, <2>1, HandOnward DEF Served
<1>5. CASE ReadAgent
  <2>1. ASSUME Report("Conflict") PROVE HandFollows'
    BY <1>1, <2>1, ReportHand
  <2>2. CASE /\ at' \in {"rotate", "reread"}
             /\ st' = [st EXCEPT !.rotation = Obj.spec.rotation] \/ st' = st
             /\ UNCHANGED <<view, cur>>
    <3>1. st'.restarted = st.restarted
      BY <2>2 DEF FollowInv, FinalInv, IInv, TypeOK, StatusRecord
    <3> QED
      BY <1>1, <2>2, <3>1, HandOnward
  <2> QED
    BY <1>2, <1>3, <1>5, <2>1, <2>2 DEF ReadAgent
<1>6. CASE CreateAgent
  BY <1>2, <1>4, <1>6 DEF CreateAgent
<1>7. CASE RotateAgent
  BY <1>2, <1>4, <1>7 DEF RotateAgent
<1>8. CASE DeactivateAgent
  BY <1>2, <1>3, <1>8 DEF DeactivateAgent
<1> QED
  BY <1>5, <1>6, <1>7, <1>8

\* The record in hand is what the agent has now.
LEMMA RereadHand == ASSUME FollowInv, RereadAgent PROVE HandFollows'
<1>1. at \in Working \ {"status"} /\ UNCHANGED <<res, target, agents>>
  BY InWorking DEF RereadAgent, cluster, service
<1>2. CASE Failed
  BY <1>1, <1>2, ReportHand DEF Failed
<1>3. CASE at' = "write" /\ rec' = agents[Agent] /\ UNCHANGED <<unlisted, view, stale, todo, cur, st>>
  <2>1. st'.restarted = Obj'.status.restarted
    BY <1>1, <1>3 DEF FollowInv, HandFollows, Obj
  <2>2. ASSUME cur \in Established, Real(res[cur]) PROVE Follows(agents[Agent], target[cur])
    <3>1. Agent = res[cur].spec.agent
      BY <1>1, <2>2 DEF FollowInv, SameAgent, InPlay, Agent, Obj
    <3> QED
      BY <2>2, <3>1 DEF FollowInv, Followed
  <2>3. Agent' = Agent
    BY <1>3 DEF Agent, Obj
  <2> QED
    BY <1>1, <1>3, <2>1, <2>2, <2>3 DEF HandFollows, Follows, Real
<1> QED
  BY <1>2, <1>3 DEF RereadAgent


\* The pass has written the Secret: it restarts the pods next, or they have the token.
LEMMA SecretHand == ASSUME FollowInv, WriteSecret PROVE HandFollows'
<1>1. /\ at = "write" /\ at \in Working \ {"status"}
      /\ UNCHANGED <<res, agents, view, stale, todo, cur, rec>>
  BY WriteOutcome, InWorking
<1>2. CASE Failed
  BY <1>1, <1>2, ReportHand DEF Failed
<1>3. ASSUME NEW changed, AfterWrite(changed),
             cur \in Established /\ Real(res[cur]) =>
                /\ target'[cur].gen = rec.gen
                /\ ~changed => target'[cur].token = rec.token
                /\ ~changed /\ rec.token # 0 /\ res[cur].status.restarted = rec.gen
                      => running'[cur] = rec.token
      PROVE  HandFollows'
  <2>1. CASE Proceed("restart")
    <3>1. st'.restarted = Obj'.status.restarted
      BY <1>1, <2>1 DEF FollowInv, HandFollows, Proceed, Obj
    <3> QED
      BY <1>1, <1>3, <2>1, <3>1 DEF HandFollows, Proceed, Real
  <2>2. CASE FinishReady /\ ~RestartDue(changed)
    <3>1. at' = "status" /\ st'.restarted = rec.gen
      BY <2>2 DEF FinishReady, ReadyStatus
    <3>2. ASSUME cur \in Established \ stale
          PROVE  /\ rec.gen = target'[cur].gen
                 /\ target'[cur].token # 0 => running'[cur] = target'[cur].token
      <4>1. res[cur] = Obj /\ Real(res[cur])
        BY <1>1, <3>2 DEF FollowInv, FinalInv, Synced, InPlay, IInv, PassOK, Obj
      <4>2. st.restarted = res[cur].status.restarted /\ st.restarted # 0
        BY <1>1, <3>2, <4>1, AtWrite
      <4>3. ~changed /\ st.restarted = rec.gen
        BY <2>2, <4>2 DEF RestartDue
      <4> QED
        BY <1>3, <3>2, <4>1, <4>2, <4>3
    <3> QED
      BY <1>1, <3>1, <3>2 DEF HandFollows
  <2> QED
    BY <1>3, <2>1, <2>2 DEF AfterWrite
<1>4. CASE target[cur] = Desired /\ UNCHANGED <<target, running>> /\ AfterWrite(FALSE)
  <2>1. target'[cur].gen = rec.gen /\ target'[cur].token = rec.token
    BY <1>4 DEF Desired
  <2>2. ASSUME cur \in Established, Real(res[cur]), rec.token # 0, res[cur].status.restarted = rec.gen
        PROVE  running'[cur] = rec.token
    BY <1>1, <1>4, <2>1, <2>2, AtWrite
  <2> QED
    BY <1>3, <1>4, <2>1, <2>2
<1>5. CASE Rewrites /\ AfterWrite(target[cur].state = "absent" \/ target[cur].token # rec.token)
  <2>1. ASSUME cur \in Established, Real(res[cur])
        PROVE  /\ target'[cur].gen = rec.gen /\ target'[cur].token = rec.token
               /\ rec.token # 0 /\ res[cur].status.restarted = rec.gen => running'[cur] = rec.token
    BY <1>1, <1>5, <2>1, RewriteFollowed
  <2> DEFINE changed == target[cur].state = "absent" \/ target[cur].token # rec.token
  <2>2. AfterWrite(changed)
    BY <1>5
  <2> HIDE DEF changed
  <2> QED
    BY <1>3, <2>1, <2>2
<1> QED
  BY <1>2, <1>4, <1>5, WriteOutcome

LEMMA RestartHand == ASSUME FollowInv, RestartConsumers PROVE HandFollows'
<1>1. at = "restart" /\ at \in Working \ {"status"} /\ UNCHANGED <<res, target>>
  BY InWorking DEF RestartConsumers
<1>2. CASE Failed
  BY <1>1, <1>2, ReportHand DEF Failed
<1>3. CASE running' = [running EXCEPT ![cur] = target[cur].token] /\ FinishReady
  <2>1. at' = "status" /\ st'.restarted = rec.gen /\ UNCHANGED <<stale, cur>>
    BY <1>3 DEF FinishReady, ReadyStatus
  <2>2. ASSUME cur \in Established \ stale
        PROVE  rec.gen = target'[cur].gen /\ running'[cur] = target'[cur].token
    <3>1. Real(res[cur])
      BY <1>1, <2>2 DEF FollowInv, FinalInv, Synced, InPlay, IInv, PassOK, Obj
    <3>2. rec.gen = target[cur].gen
      BY <1>1, <2>2, <3>1 DEF FollowInv, HandFollows
    <3>3. running'[cur] = target[cur].token
      BY ResourceAssumption, <1>3, <2>2 DEF FollowInv, FinalInv, IInv, TypeOK
    <3> QED
      BY <1>1, <3>2, <3>3
  <2> QED
    BY <2>1, <2>2 DEF HandFollows
<1> QED
  BY <1>2, <1>3 DEF RestartConsumers

LEMMA WriteHand ==
  ASSUME FollowInv, AddFinalizer \/ WriteStatus \/ RemoveFinalizer PROVE HandFollows'
<1>1. CASE Abandon
  BY <1>1, HandIdle, InWorking DEF Abandon, Proceed
<1>2. CASE /\ AddFinalizer /\ at' = "read" /\ view' = [view EXCEPT ![cur].finalizer = TRUE]
           /\ UNCHANGED <<unlisted, stale, todo, cur, st, rec>>
  <2>1. at \in Working \ {"status"} /\ cur \in Resources /\ Real(view[cur])
    BY <1>2, InHand, InWorking DEF AddFinalizer, FollowInv, FinalInv, Obj
  <2>2. view \in [Resources -> ResourceRecord] /\ view[cur] \in ResourceRecord
    BY <2>1 DEF FollowInv, FinalInv, IInv, TypeOK
  <2>3. view'[cur].status = view[cur].status
    BY <1>2, <2>1, <2>2, Rewritten
  <2> QED
    BY <1>2, <2>1, <2>3, HandOnward
<1> QED
  BY <1>1, <1>2 DEF AddFinalizer, WriteStatus, RemoveFinalizer, Call

\* The pass does not notice what users and the dashboard do.
LEMMA UnnoticedHand ==
  ASSUME "rename" \notin Edits, "remove" \notin Dashboard, "purge" \notin Faults,
         FollowInv, [Next]_vars, UNCHANGED <<at, view, cur, st, rec>>, stale \subseteq stale',
         at = "status" /\ cur \in Established \ stale' => target'[cur] = target[cur] /\ running' = running,
         ~(WriteSecret \/ RestartConsumers \/ WriteStatus)
  PROVE  HandFollows'
<1>1. IInv /\ IInv' /\ AgentsFollow
  BY AgentsStep, NextInv DEF FollowInv, FinalInv
<1>2. ASSUME cur \in Established, Real(res'[cur])
      PROVE  Real(res[cur]) /\ target'[cur] = target[cur]
  <2>1. Followed(cur) /\ cur \in Resources
    BY ResourceAssumption, <1>2 DEF FollowInv
  <2>2. Stays(cur)
    BY <2>1, ResourceStep DEF FollowInv, Followed, StatusWritten
  <2>3. target'[cur] = target[cur]
    BY <1>2, <2>1, SecretStep DEF FollowInv
  <2> QED
    BY <1>2, <2>2, <2>3 DEF Stays
<1>3. ASSUME cur \in Established, Real(res[cur]), at = "write" PROVE Follows(agents'[Agent], rec)
  <2>1. Agent = res[cur].spec.agent /\ Follows(agents[Agent], rec) /\ rec.gen \in Nat
    BY <1>3, AtWrite
  <2>2. /\ agents'[Agent] \in AgentRecord /\ Follows(agents'[Agent], agents[Agent])
        /\ agents[Agent] \in AgentRecord
    BY <1>1, <1>3, <2>1, AgentFollowed, FollowedReal
  <2> QED
    BY <2>1, <2>2, FollowsOn
<1>4. Agent' = Agent /\ Obj' = Obj
  BY DEF Agent, Obj
<1>5. at' \in Working \ {"status"} => st'.restarted = Obj'.status.restarted
  BY <1>4 DEF FollowInv, HandFollows
<1>6. cur' \in Established /\ Real(res'[cur']) =>
         /\ at' = "write" => Follows(agents'[Agent'], rec') /\ Follows(rec', target'[cur'])
         /\ at' = "restart" => rec'.gen = target'[cur'].gen
  BY <1>2, <1>3, <1>4 DEF FollowInv, HandFollows
<1>7. at' = "status" /\ cur' \in Established \ stale' =>
         \/ st'.restarted = Obj'.status.restarted
         \/ /\ st'.restarted = target'[cur'].gen
            /\ target'[cur'].token # 0 => running'[cur'] = target'[cur'].token
  BY <1>4 DEF FollowInv, HandFollows
<1> QED
  BY <1>5, <1>6, <1>7 DEF HandFollows, Real, Follows


\* A Secret that goes takes its resource with it, which makes the copy of it old.
LEMMA EnvironmentHand ==
  ASSUME "rename" \notin Edits, "remove" \notin Dashboard, "purge" \notin Faults,
         FollowInv, Environment \/ UNCHANGED vars
  PROVE  HandFollows'
<1>1. CASE Crash
  BY <1>1, HandIdle, InWorking DEF Crash
<1>2. CASE ~Crash
  <2>1. UNCHANGED <<at, view, cur, st, rec, running>> /\ stale \subseteq stale'
    BY <1>2 DEF Environment, Apply, RequestRotation, EditSpec, Delete, Operate, Touch, Quietly,
       pass, cluster, vars
  <2>2. ~(WriteSecret \/ RestartConsumers \/ WriteStatus)
    <3>1. RestartConsumers => at = "restart" /\ at' = "status"
      BY DEF RestartConsumers, FinishReady, Failed, Report
    <3>2. WriteStatus => at = "status" /\ at' = "next"
      BY DEF WriteStatus, Call, Abandon, Proceed
    <3>3. WriteSecret => at = "write" /\ at' \in {"restart", "status"}
      BY WriteOutcome DEF AfterWrite, Proceed, FinishReady, Failed, Report
    <3> QED
      BY <2>1, <3>1, <3>2, <3>3
  <2>3. ASSUME at = "status", cur \in Established \ stale' PROVE target'[cur] = target[cur]
    <3>1. Real(view[cur]) /\ cur \in Resources
      BY <2>3, InHand, InWorking DEF FollowInv, FinalInv, Obj
    <3>2. ASSUME NEW r \in Resources, Delete(r) PROVE target'[cur] = target[cur]
      <4>1. r # cur
        BY <2>3, <3>1, <3>2 DEF Delete, Touch, Real
      <4>2. UNCHANGED target \/ Vanish(r)
        BY <3>2 DEF Delete
      <4> QED
        BY <3>1, <4>1, <4>2 DEF Vanish, FollowInv, FinalInv, IInv, TypeOK
    <3>3. (\E r \in Resources : Delete(r)) \/ UNCHANGED target
      BY <1>2 DEF Environment, Apply, RequestRotation, EditSpec, Operate, cluster, vars
    <3> QED
      BY <3>2, <3>3
  <2> QED
    BY <2>1, <2>2, <2>3, UnnoticedHand DEF Next
<1> QED
  BY <1>1, <1>2

LEMMA FollowInit == Init => FollowInv
<1> SUFFICES ASSUME Init PROVE FollowInv
  OBVIOUS
<1>1. PICK a \in Names, policy \in Policies :
          /\ res = [r \in Resources |->
                      IF r \in Established THEN ReadyResource(a, policy) ELSE Missing]
          /\ target \in [Resources ->
                {NoTarget, [state |-> "owned", agent |-> a, token |-> 1, gen |-> 1]}
                  \cup {[NoTarget EXCEPT !.state = "foreign", !.token = t] : t \in 0..1}]
          /\ \A r \in Resources : target[r].state = "owned" <=> r \in Established
          /\ Established # {} => agents[a] = FirstAgent
  BY DEF Init
<1>2. ASSUME NEW r \in Established PROVE Followed(r)
  <2>1. r \in Resources /\ target[r].state = "owned"
    BY ResourceAssumption, <1>1
  <2>2. res[r] = ReadyResource(a, policy) /\ res[r] # Missing
    BY <1>1, <2>1 DEF ReadyResource, Missing
  <2>3. target[r] = [state |-> "owned", agent |-> a, token |-> 1, gen |-> 1]
    <3>1. \/ target[r] = NoTarget
          \/ target[r] = [state |-> "owned", agent |-> a, token |-> 1, gen |-> 1]
          \/ \E t \in 0..1 : target[r] = [NoTarget EXCEPT !.state = "foreign", !.token = t]
      BY <1>1, <2>1
    <3>2. ASSUME NEW t \in 0..1, target[r] = [NoTarget EXCEPT !.state = "foreign", !.token = t]
          PROVE  FALSE
      BY <2>1, <3>2 DEF NoTarget
    <3>3. target[r] # NoTarget
      BY <2>1 DEF NoTarget
    <3> QED
      BY <3>1, <3>2, <3>3
  <2>4. running[r] = target[r].token
    BY <2>1 DEF Init
  <2>5. agents[a] = FirstAgent /\ FirstAgent # NoAgent
    BY <1>1, <1>2 DEF FirstAgent, NoAgent
  <2>6. res[r].spec.agent = a /\ res[r].status.restarted = 1
    BY <2>2 DEF ReadyResource
  <2>7. Follows(agents[a], target[r])
    BY <2>3, <2>5 DEF Follows, FirstAgent
  <2> QED
    BY <2>1, <2>2, <2>3, <2>4, <2>5, <2>6, <2>7 DEF Followed
<1>3. InPlay = {} /\ at = "sleep" /\ at \notin Working
  BY InWorking DEF Init, InPlay
<1>4. HandFollows
  BY <1>3, HandIdle DEF HandFollows
<1> QED
  BY <1>2, <1>3, <1>4, FinalInit DEF FollowInv

LEMMA FollowNext ==
  ASSUME "rename" \notin Edits, "remove" \notin Dashboard, "purge" \notin Faults,
         FollowInv, [Next]_vars
  PROVE  FollowInv'
<1>1. FinalInv'
  BY FinalNext DEF FollowInv
<1>2. \A r \in Established : Followed(r)'
  BY FollowedStep
<1>3. ASSUME NEW r \in Established, r \in InPlay' PROVE SameAgent(r)'
  BY <1>3, SameAgentStep
<1>4. HandFollows'
  <2>1. ASSUME BeginPass \/ ListNamespace \/ EndPass PROVE HandFollows'
    BY <2>1, HandIdle, InWorking DEF BeginPass, ListNamespace, EndPass
  <2>2. CASE PassStep
    BY <2>1, <2>2, ReconcileHand, CallHand, RereadHand, SecretHand, RestartHand, WriteHand
    DEF PassStep
  <2> QED
    BY <2>2, EnvironmentHand DEF Next
<1> QED
  BY <1>1, <1>2, <1>3, <1>4 DEF FollowInv

\* operator.go:285-286, for any resources, users and failures: once a resource has been
\* Ready, a status that names the generation in its Secret is of pods that were started
\* with its token, also after a pass that was cut off or refused between the Secret, the
\* restart and the status; while nobody renames the claim, and no agent is removed and
\* made again.
THEOREM ReadyRestartsFollow ==
  ASSUME "rename" \notin Edits, "remove" \notin Dashboard, "purge" \notin Faults
  PROVE  Spec => [](\A r \in Established : RestartFollows(r))
<1>1. FollowInv /\ [Next]_vars => FollowInv'
  BY FollowNext
<1>2. FollowInv => \A r \in Established : RestartFollows(r)
  BY DEF FollowInv, Followed, RestartFollows, Real
<1> QED
  BY FollowInit, <1>1, <1>2, PTL DEF Spec

\* The same for a cluster of such resources.
THEOREM PodsHaveTheToken ==
  ASSUME "rename" \notin Edits, "remove" \notin Dashboard, "purge" \notin Faults,
         Established = Resources
  PROVE  Spec => []RestartsFollow
<1>1. (\A r \in Established : RestartFollows(r)) => RestartsFollow
  BY DEF RestartsFollow
<1> QED
  BY <1>1, ReadyRestartsFollow, PTL


-----------------------------------------------------------------------------
(* ClosesOwnAccount *)

\* A resource that comes has no status yet.
LEMMA ApplyOwnName ==
  ASSUME FinalInv, OwnName, NEW r \in Resources, Apply(r)
  PROVE  \A q \in Resources : Real(res'[q]) => res'[q].status.uid \in {None, res'[q].spec.agent}
<1>1. PICK new : res' = [res EXCEPT ![r] = new] /\ new.status.uid = None
  <2>1. PICK a \in Names, policy \in Policies, adopt \in {b \in BOOLEAN : b => "adopt" \in Edits} :
            res' = [res EXCEPT ![r] =
                     [state |-> "here", finalizer |-> FALSE, status |-> NoStatus,
                      spec |-> [agent |-> a, adopt |-> adopt, policy |-> policy, rotation |-> 0,
                                valid |-> TRUE]]]
    BY DEF Apply
  <2> DEFINE o == [state |-> "here", finalizer |-> FALSE, status |-> NoStatus,
                   spec |-> [agent |-> a, adopt |-> adopt, policy |-> policy, rotation |-> 0,
                             valid |-> TRUE]]
  <2>2. o.status.uid = None
    BY DEF NoStatus
  <2> QED
    BY <2>1, <2>2
<1>2. res'[r] = new /\ \A q \in Resources : q # r => res'[q] = res[q]
  BY <1>1, Kinds
<1> QED
  BY <1>1, <1>2 DEF OwnName, Real

\* Nothing else brings a resource.
LEMMA OnlyApplied ==
  ASSUME FinalInv, [Next]_vars, NEW r \in Resources, res[r] = Missing, \A q \in Resources : ~Apply(q)
  PROVE  ~Real(res'[r])
<1>1. ~Real(res[r]) /\ res \in [Resources -> ResourceRecord]
  BY Kinds
<1>2. CASE UNCHANGED res
  BY <1>1, <1>2
<1>3. ASSUME NEW q \in Resources,
             Vanish(q) \/ (Real(res[q]) /\ \E new : res' = [res EXCEPT ![q] = new])
      PROVE  ~Real(res'[r])
  BY <1>1, <1>3, Kinds DEF Vanish
<1>4. CASE PassStep
  <2>1. AddFinalizer \/ WriteStatus \/ RemoveFinalizer \/ UNCHANGED res
    BY <1>4 DEF PassStep, BeginPass, ListNamespace, Reconcile, EndPass, ReadAgent, CreateAgent,
       RotateAgent, RereadAgent, WriteSecret, RestartConsumers, DeactivateAgent, cluster
  <2>2. AddFinalizer \/ WriteStatus \/ RemoveFinalizer => cur \in Resources
    BY InHand, InWorking DEF FinalInv, AddFinalizer, WriteStatus, RemoveFinalizer
  <2>3. ASSUME AddFinalizer \/ WriteStatus
        PROVE  UNCHANGED res \/ (Real(res[cur]) /\ \E new : res' = [res EXCEPT ![cur] = new])
    BY <2>3 DEF AddFinalizer, WriteStatus, Call, Fresh, Real
  <2>4. RemoveFinalizer => UNCHANGED res \/ Vanish(cur)
    BY DEF RemoveFinalizer, Call
  <2> QED
    BY <1>2, <1>3, <2>1, <2>2, <2>3, <2>4
<1>5. CASE Environment \/ UNCHANGED vars
  <2>1. \/ \E q \in Resources : RequestRotation(q) \/ EditSpec(q) \/ Delete(q)
        \/ UNCHANGED res
    BY <1>5 DEF Environment, Operate, Crash, cluster, vars
  <2>2. ASSUME NEW q \in Resources, RequestRotation(q) \/ EditSpec(q) \/ Delete(q)
        PROVE  Vanish(q) \/ (Real(res[q]) /\ \E new : res' = [res EXCEPT ![q] = new])
    <3>1. Real(res[q])
      BY <2>2 DEF RequestRotation, EditSpec, Delete, Real
    <3>2. Vanish(q) \/ \E new : res' = [res EXCEPT ![q] = new]
      BY <2>2 DEF RequestRotation, EditSpec, Delete
    <3> QED
      BY <3>1, <3>2
  <2> QED
    BY <1>2, <1>3, <2>1, <2>2
<1> QED
  BY <1>4, <1>5 DEF Next

LEMMA StoredOwnName ==
  ASSUME "rename" \notin Edits, FinalInv, OwnName, [Next]_vars, NEW r \in Resources, Real(res'[r])
  PROVE  res'[r].status.uid \in {None, res'[r].spec.agent}
<1>1. CASE res[r] = Missing
  BY <1>1, OnlyApplied, ApplyOwnName
<1>2. CASE StatusWritten /\ r = cur
  <2>1. at \in Working /\ cur \in InPlay /\ cur \notin stale /\ Real(res[cur])
    BY <1>2, InWorking DEF StatusWritten, WriteStatus, Fresh, InPlay, Real
  <2>2. res[cur] = Obj /\ res[cur] \in ResourceRecord
    BY <1>2, <2>1, Kinds DEF FinalInv, Synced, Obj
  <2>3. res'[cur].spec = res[cur].spec /\ res'[cur].status = st
    BY <1>2, <2>1, <2>2, Kinds, Rewritten DEF StatusWritten
  <2> QED
    BY <1>2, <2>1, <2>2, <2>3 DEF OwnName, Agent
<1>3. CASE Stays(r)
  BY <1>3 DEF Stays, OwnName
<1> QED
  BY <1>1, <1>2, <1>3, ResourceStep


LEMMA CopiedOwnName ==
  ASSUME FinalInv, OwnName, [Next]_vars, NEW r \in InPlay'
  PROVE  view'[r].status.uid \in {None, view'[r].spec.agent}
<1>1. CASE Real(res[r]) /\ view'[r] = res[r] /\ r \in Resources
  BY <1>1 DEF OwnName
<1>2. CASE r \in InPlay /\ view'[r].spec = view[r].spec /\ view'[r].status = view[r].status
  BY <1>2 DEF OwnName
<1>3. FinalInv'
  BY FinalNext
<1>4. r \in Resources
  BY <1>3 DEF InPlay, FinalInv, IInv, TypeOK, PassOK
<1> QED
  BY <1>1, <1>2, <1>4, PlayStep

\* The status in hand, and where a pass comes to close an account.
NamedHand ==
    /\ at \in Working => st.uid \in {None, Agent}
    /\ at = "deactivate" => Obj.status.uid # None

\* The pass goes on with the object.
LEMMA OnwardNamed ==
  ASSUME OwnName, at \in Working, at' # "deactivate", UNCHANGED cur,
         view'[cur].spec = view[cur].spec, st'.uid \in {st.uid, Agent}
  PROVE  NamedHand'
BY DEF OwnName, NamedHand, Agent, Obj

LEMMA ReconcileNamed == ASSUME FinalInv, OwnName, Reconcile PROVE NamedHand'
<1>1. PICK r \in todo :
         /\ cur' = r
         /\ at' = "deactivate" => view[r].status.uid # None
         /\ \/ st' = view[r].status
            \/ \E phase \in Phases : st' = [view[r].status EXCEPT !.phase = phase]
  BY DEF Reconcile, Phases
<1>2. view' = view /\ view[r].status \in StatusRecord
  <2>1. r \in Resources /\ Real(view[r]) /\ view[r] \in ResourceRecord
    BY DEF FinalInv, IInv, TypeOK, PassOK
  <2> QED
    BY <2>1, RealRecord DEF Reconcile
<1>3. st'.uid = view[r].status.uid
  BY <1>1, <1>2 DEF StatusRecord
<1>4. r \in InPlay
  BY <1>1 DEF InPlay
<1> QED
  BY <1>1, <1>2, <1>3, <1>4 DEF OwnName, NamedHand, Agent, Obj

LEMMA CallNamed ==
  ASSUME FinalInv, OwnName,
         \/ ReadAgent \/ CreateAgent \/ RotateAgent \/ RereadAgent \/ WriteSecret
         \/ RestartConsumers \/ DeactivateAgent
  PROVE  NamedHand'
<1>1. at \in Working /\ st \in StatusRecord
  BY InWorking DEF ReadAgent, CreateAgent, RotateAgent, RereadAgent, WriteSecret, RestartConsumers,
     DeactivateAgent, FinalInv, IInv, TypeOK
<1>2. ASSUME NEW phase, Report(phase) PROVE NamedHand'
  <2>1. st'.uid = st.uid
    BY <1>1, <1>2 DEF Report, StatusRecord
  <2> QED
    BY <1>1, <1>2, <2>1, OnwardNamed DEF Report
<1>3. CASE Served
  <2>1. st'.uid = st.uid
    BY <1>1, <1>3 DEF Served, StatusRecord
  <2> QED
    BY <1>1, <1>3, <2>1, OnwardNamed DEF Served
<1>4. ASSUME NEW label, label # "deactivate", Proceed(label) PROVE NamedHand'
  BY <1>1, <1>4, OnwardNamed DEF Proceed
<1>5. CASE FinishReady
  BY <1>1, <1>5, OnwardNamed DEF FinishReady, ReadyStatus
<1>6. ASSUME NEW changed, AfterWrite(changed) PROVE NamedHand'
  BY <1>4, <1>5, <1>6 DEF AfterWrite
<1>7. CASE Failed
  BY <1>2, <1>7 DEF Failed
<1>8. CASE ReadAgent
  <2>1. CASE /\ at' \in {"rotate", "reread"}
             /\ st' = [st EXCEPT !.rotation = Obj.spec.rotation] \/ st' = st
             /\ UNCHANGED <<view, cur>>
    <3>1. st'.uid = st.uid
      BY <1>1, <2>1 DEF StatusRecord
    <3> QED
      BY <1>1, <2>1, <3>1, OnwardNamed
  <2> QED
    BY <1>2, <1>4, <1>7, <1>8, <2>1 DEF ReadAgent
<1>9. CASE CreateAgent \/ RotateAgent
  BY <1>3, <1>7, <1>9 DEF CreateAgent, RotateAgent
<1>10. CASE RereadAgent
  BY <1>1, <1>7, <1>10, OnwardNamed DEF RereadAgent
<1>11. CASE WriteSecret
  BY <1>6, <1>7, <1>11, WriteOutcome
<1>12. CASE RestartConsumers
  BY <1>5, <1>7, <1>12 DEF RestartConsumers
<1>13. CASE DeactivateAgent
  BY <1>4, <1>7, <1>13 DEF DeactivateAgent
<1> QED
  BY <1>8, <1>9, <1>10, <1>11, <1>12, <1>13

LEMMA NamedStep == ASSUME FinalInv, OwnName, [Next]_vars PROVE NamedHand'
<1>1. CASE at' \notin Working
  BY <1>1, InWorking DEF NamedHand
<1>2. CASE Abandon
  BY <1>1, <1>2, InWorking DEF Abandon, Proceed
<1>3. CASE AddFinalizer
  <2>1. cur \in InPlay' /\ cur' = cur /\ ~Abandon => view'[cur].spec = view[cur].spec
    <3>1. at \in Working /\ cur \in Resources /\ Real(view[cur]) /\ view \in [Resources -> ResourceRecord]
      BY <1>3, InHand, InWorking DEF AddFinalizer, FinalInv, IInv, TypeOK, Obj
    <3>2. view' = [view EXCEPT ![cur].finalizer = TRUE] => view'[cur].spec = view[cur].spec
      BY <3>1, Rewritten
    <3> QED
      BY <1>3, <3>2 DEF AddFinalizer, Call
  <2>2. CASE ~Abandon
    <3>1. /\ at \in Working /\ at' = "read" /\ UNCHANGED <<cur, st>>
      BY <1>3, <2>2, InWorking DEF AddFinalizer, Call
    <3>2. cur \in InPlay'
      BY <3>1, InWorking DEF InPlay
    <3> QED
      BY <2>1, <2>2, <3>1, <3>2, OnwardNamed
  <2> QED
    BY <1>2, <2>2
<1>4. CASE UNCHANGED <<at, view, cur, st>>
  BY <1>4 DEF OwnName, NamedHand, Agent, Obj
<1>5. CASE BeginPass \/ ListNamespace \/ EndPass \/ Crash
  BY <1>1, <1>5, InWorking DEF BeginPass, ListNamespace, EndPass, Crash
<1>6. CASE WriteStatus \/ RemoveFinalizer
  BY <1>2, <1>6 DEF WriteStatus, RemoveFinalizer, Call
<1>7. CASE PassStep
  BY <1>3, <1>5, <1>6, <1>7, ReconcileNamed, CallNamed DEF PassStep
<1>8. CASE (Environment /\ ~Crash) \/ UNCHANGED vars
  BY <1>4, <1>8 DEF Environment, Apply, RequestRotation, EditSpec, Delete, Operate, Touch, Quietly,
     pass, vars
<1> QED
  BY <1>5, <1>7, <1>8 DEF Next, Environment

LEMMA NameInit == Init => NameInv
<1> SUFFICES ASSUME Init PROVE NameInv
  OBVIOUS
<1>1. PICK a \in Names, policy \in Policies :
          res = [r \in Resources |-> IF r \in Established THEN ReadyResource(a, policy) ELSE Missing]
  BY DEF Init
<1>2. \A r \in Resources : Real(res[r]) => res[r].status.uid = res[r].spec.agent
  BY <1>1 DEF ReadyResource, Missing, Real
<1>3. InPlay = {} /\ at = "sleep" /\ at \notin Working
  BY InWorking DEF Init, InPlay
<1> QED
  BY <1>2, <1>3, FinalInit DEF NameInv, OwnName

LEMMA NameNext ==
  ASSUME "rename" \notin Edits, NameInv, [Next]_vars PROVE NameInv'
<1>1. FinalInv /\ OwnName /\ FinalInv'
  BY FinalNext DEF NameInv
<1>2. \A r \in Resources : Real(res'[r]) => res'[r].status.uid \in {None, res'[r].spec.agent}
  BY <1>1, StoredOwnName
<1>3. \A r \in InPlay' : view'[r].status.uid \in {None, view'[r].spec.agent}
  BY <1>1, CopiedOwnName
<1>4. NamedHand'
  BY <1>1, NamedStep
<1> QED
  BY <1>1, <1>2, <1>3, <1>4 DEF NameInv, OwnName, NamedHand, Real

\* crds/matrixagents.yaml:61-63, "Deactivate revokes its sessions and deactivates it": for
\* any resources, failures and other edits, the account that goes with a resource is one
\* that it created or adopted; while nobody renames a claim (operator_renamed shows what
\* a rename does).
THEOREM OwnAccountClosed ==
  ASSUME "rename" \notin Edits PROVE Spec => ClosesOwnAccount
<1>1. ASSUME NameInv, [Next]_vars
      PROVE  [\A a \in Names :
                DeactivateAgent /\ (agents'[a] # agents[a] \/ a \in accounts \ accounts')
                => Took(cur, a)]_vars
  <2> SUFFICES ASSUME NEW a \in Names, DeactivateAgent,
                      agents'[a] # agents[a] \/ a \in accounts \ accounts'
               PROVE  Took(cur, a)
    OBVIOUS
  <2>1. at = "deactivate" /\ at \in Working /\ cur \in InPlay
    BY InWorking DEF DeactivateAgent, InPlay
  <2>2. cur \in Resources /\ Real(Obj)
    BY <1>1, <2>1, InHand DEF NameInv, FinalInv
  <2>3. Obj.status.uid = Agent /\ Obj.status.uid # None
    BY <1>1, <2>1 DEF NameInv, OwnName, Agent, Obj
  <2>4. Took(cur, Agent)
    BY <1>1, <2>2, <2>3 DEF NameInv, FinalInv, IInv, StatusOK, Obj
  <2>5. a = Agent
    <3>1. agents \in [Names -> AgentRecord]
      BY <1>1 DEF NameInv, FinalInv, IInv, TypeOK
    <3> QED
      BY <3>1 DEF DeactivateAgent, Withdraw, service
  <2> QED
    BY <2>4, <2>5
<1>2. NameInv /\ [Next]_vars => NameInv'
  BY NameNext
<1> QED
  BY NameInit, <1>1, <1>2, PTL DEF Spec, ClosesOwnAccount

-----------------------------------------------------------------------------
(* DeactivatedFirst: what a step does to the Secret and the account of an agent *)

AccountsFollow ==
    \A a \in Names : /\ Accounted(a) => Accounted(a)'
                     /\ agents'[a].status = "deactivated" => a \notin accounts'

LEMMA ClosedFollow ==
  ASSUME Withdrawn, UNCHANGED agents, accounts' \subseteq accounts PROVE AccountsFollow
BY DEF Withdrawn, AccountsFollow, Accounted

\* One agent gets another record, or is removed with its account.
LEMMA RecordFollow ==
  ASSUME IInv, Withdrawn, NEW a \in Names, NEW new,
         agents' = [agents EXCEPT ![a] = new], accounts' \subseteq accounts \cup {a},
         new # NoAgent \/ ("remove" \in Dashboard /\ a \notin accounts'),
         new.status = "deactivated" => a \notin accounts'
  PROVE  AccountsFollow
<1>1. agents'[a] = new /\ \A b \in Names : b # a => agents'[b] = agents[b]
  BY DEF IInv, TypeOK
<1>2. \A b \in Names : b # a /\ b \in accounts' => b \in accounts
  OBVIOUS
<1> QED
  BY <1>1, <1>2 DEF Withdrawn, AccountsFollow, Accounted

LEMMA RenewFollow ==
  ASSUME IInv, Withdrawn, NEW a \in Names, NEW gen, Renew(a, gen),
         accounts' \subseteq accounts \cup {a}
  PROVE  AccountsFollow
<1> DEFINE new == [status |-> "active", token |-> issued + 1, gen |-> gen]
<1>1. new # NoAgent /\ new.status # "deactivated"
  BY DEF NoAgent
<1>2. agents' = [agents EXCEPT ![a] = new]
  BY DEF Renew
<1> HIDE DEF new
<1> QED
  BY <1>1, <1>2, RecordFollow

LEMMA LessFollow ==
  ASSUME IInv, Withdrawn, NEW a \in Names, NEW s \in {"revoked", "deactivated"},
         agents' = [agents EXCEPT ![a].status = s, ![a].token = 0],
         accounts' \subseteq accounts, s = "deactivated" => a \notin accounts'
  PROVE  AccountsFollow
<1> DEFINE new == [agents[a] EXCEPT !.status = s, !.token = 0]
<1>1. new.status = s /\ new # NoAgent
  BY DEF IInv, TypeOK, AgentRecord, NoAgent
<1>2. agents' = [agents EXCEPT ![a] = new]
  OBVIOUS
<1> HIDE DEF new
<1> QED
  BY <1>1, <1>2, RecordFollow

LEMMA OperateFollow ==
  ASSUME IInv, Withdrawn, NEW a \in Names, Operate(a) PROVE AccountsFollow
<1>1. PICK op \in Dashboard :
          LET r == agents[a]
              Close == accounts' = IF r.status = "deactivated" THEN accounts ELSE accounts \ {a}
          IN  \/ op = "create" /\ Free(a) /\ Renew(a, 1) /\ accounts' = accounts \cup {a}
              \/ op = "rotate" /\ Rotatable(a) /\ Renew(a, r.gen + 1) /\ UNCHANGED accounts
              \/ /\ op = "revoke" /\ r.status = "active" /\ UNCHANGED <<accounts, issued>>
                 /\ agents' = [agents EXCEPT ![a].status = "revoked", ![a].token = 0]
              \/ /\ op = "deactivate" /\ r.status \in {"active", "revoked"}
                 /\ Withdraw(a) /\ Close /\ UNCHANGED issued
              \/ /\ op = "remove" /\ r # NoAgent /\ Close /\ UNCHANGED issued
                 /\ agents' = [agents EXCEPT ![a] = NoAgent]
  BY DEF Operate
<1>2. CASE \E gen : Renew(a, gen) /\ accounts' \subseteq accounts \cup {a}
  BY <1>2, RenewFollow
<1>3. CASE /\ agents' = [agents EXCEPT ![a].status = "revoked", ![a].token = 0]
           /\ UNCHANGED accounts
  BY <1>3, LessFollow
<1>4. CASE Withdraw(a) /\ accounts' = accounts \ {a}
  BY <1>4, LessFollow DEF Withdraw
<1>5. CASE /\ "remove" \in Dashboard /\ agents' = [agents EXCEPT ![a] = NoAgent]
           /\ accounts' = IF agents[a].status = "deactivated" THEN accounts ELSE accounts \ {a}
  <2>1. a \notin accounts' /\ accounts' \subseteq accounts
    BY <1>5 DEF Withdrawn
  <2> QED
    BY <1>5, <2>1, RecordFollow
<1> QED
  BY <1>1, <1>2, <1>3, <1>4, <1>5

LEMMA AgentFollow ==
  ASSUME AccountsKept, IInv, Withdrawn, CreateAgent \/ RotateAgent \/ DeactivateAgent
  PROVE  AccountsFollow
<1>1. Agent \in Names
  BY InHand, InWorking DEF CreateAgent, RotateAgent, DeactivateAgent
<1>2. CASE UNCHANGED <<agents, accounts>>
  BY <1>2, ClosedFollow
<1>3. CASE \E gen : Renew(Agent, gen) /\ accounts' \subseteq accounts \cup {Agent}
  BY <1>1, <1>3, RenewFollow
<1>4. CASE CreateAgent
  <2>1. CASE /\ Free(Agent) /\ Fault("lost")
             /\ accounts' = accounts \cup {Agent} /\ UNCHANGED agents
    <3>1. "remove" \notin Dashboard /\ agents[Agent] = NoAgent
      BY <2>1 DEF AccountsKept, Fault, Free
    <3>2. NoAgent.status # "deactivated"
      BY DEF NoAgent
    <3> QED
      BY <2>1, <3>1, <3>2 DEF AccountsFollow, Accounted, Withdrawn
  <2> QED
    BY <1>2, <1>3, <1>4, <2>1 DEF CreateAgent, HalfCreated, service
<1>5. CASE RotateAgent
  <2>1. ASSUME NEW gen, UNCHANGED accounts,
               agents' = [agents EXCEPT ![Agent] = [status |-> "revoked", token |-> 0, gen |-> gen]]
        PROVE  AccountsFollow
    <3> DEFINE new == [status |-> "revoked", token |-> 0, gen |-> gen]
    <3>1. new # NoAgent /\ new.status # "deactivated" /\ agents' = [agents EXCEPT ![Agent] = new]
      BY <2>1 DEF NoAgent
    <3> HIDE DEF new
    <3> QED
      BY <1>1, <2>1, <3>1, RecordFollow
  <2> QED
    BY <1>2, <1>3, <1>5, <2>1 DEF RotateAgent, AccountsKept, Fault
<1>6. CASE DeactivateAgent
  <2>1. CASE accounts' = accounts \ {Agent} /\ Withdraw(Agent)
    BY <1>1, <2>1, LessFollow DEF Withdraw
  <2>2. CASE accounts' = accounts \ {Agent} /\ UNCHANGED agents
    BY <2>2, ClosedFollow
  <2> QED
    BY <1>2, <1>6, <2>1, <2>2 DEF DeactivateAgent, service
<1> QED
  BY <1>4, <1>5, <1>6

LEMMA AccountsStep ==
  ASSUME AccountsKept, IInv, Withdrawn, [Next]_vars PROVE AccountsFollow
<1>1. CASE UNCHANGED <<agents, accounts>>
  BY <1>1, ClosedFollow
<1>2. CASE PassStep
  <2>1. \/ CreateAgent \/ RotateAgent \/ DeactivateAgent \/ UNCHANGED <<agents, accounts>>
    BY <1>2 DEF PassStep, BeginPass, ListNamespace, Reconcile, EndPass, AddFinalizer, ReadAgent,
       RereadAgent, WriteSecret, RestartConsumers, WriteStatus, RemoveFinalizer, service
  <2> QED
    BY <2>1, <1>1, AgentFollow
<1>3. CASE Environment
  <2>1. (\E a \in Names : Operate(a)) \/ UNCHANGED <<agents, accounts>>
    BY <1>3 DEF Environment, Apply, RequestRotation, EditSpec, Delete, Crash, service
  <2> QED
    BY <2>1, <1>1, OperateFollow
<1> QED
  BY <1>1, <1>2, <1>3 DEF Next, vars

\* Who takes an agent finds it with a record, or makes one.
LEMMA TakenStep ==
  ASSUME IInv, [Next]_vars, NEW r \in Resources, NEW a \in Names, TookNext(r, a), ~Took(r, a)
  PROVE  agents'[a] # NoAgent
<1>1. granted' # granted
  BY DEF Took, TookNext
<1>2. CASE CreateAgent
  <2>1. Renew(Agent, 1) /\ granted' = granted \cup {<<cur, Agent, "created">>} /\ a = Agent
    BY <1>1, <1>2 DEF CreateAgent, History, Took, TookNext
  <2>2. [status |-> "active", token |-> issued + 1, gen |-> 1] # NoAgent
    BY DEF NoAgent
  <2> QED
    BY <2>1, <2>2 DEF Renew, IInv, TypeOK
<1>3. CASE ReadAgent
  <2>1. granted' = granted \cup {<<cur, Agent, "adopted">>} /\ agents[Agent] # NoAgent /\ UNCHANGED agents
    BY <1>1, <1>3 DEF ReadAgent, service
  <2>2. a = Agent
    BY <2>1 DEF Took, TookNext
  <2> QED
    BY <2>1, <2>2
<1>4. CASE PassStep
  BY <1>1, <1>2, <1>3, <1>4 DEF PassStep, BeginPass, ListNamespace, Reconcile, EndPass, AddFinalizer,
     RotateAgent, RereadAgent, WriteSecret, RestartConsumers, WriteStatus, DeactivateAgent,
     RemoveFinalizer, History
<1>5. ~Environment /\ ~UNCHANGED vars
  BY <1>1 DEF Environment, Apply, RequestRotation, EditSpec, Delete, Operate, Crash, History, vars
<1> QED
  BY <1>4, <1>5 DEF Next

-----------------------------------------------------------------------------
(* DeactivatedFirst: the account is closed when the finalizer is about to go *)

\* finalize goes on to the finalizer when the account is closed.
LEMMA DeactivateCloses ==
  ASSUME CloseInv, DeactivateAgent, at' = "unfinalize" PROVE ClosedFirst'
<1>1. at = "deactivate" /\ at \in Working /\ cur \in InPlay
  BY InWorking DEF DeactivateAgent, InPlay
<1>2. cur \in Resources /\ Real(Obj) /\ Agent \in Names
  BY <1>1, InHand DEF CloseInv, NameInv, FinalInv
<1>3. Obj.status.uid = Agent /\ Obj.status.uid # None
  BY <1>1 DEF CloseInv, NameInv, OwnName, Agent, Obj
<1>4. Accounted(Agent)
  BY <1>2, <1>3 DEF CloseInv, TakenAccounted, NameInv, FinalInv, IInv, StatusOK, Obj
<1>5. ASSUME UNCHANGED service, agents[Agent] = NoAgent \/ agents[Agent].status = "deactivated"
      PROVE  Agent \notin accounts'
  BY <1>2, <1>4, <1>5 DEF CloseInv, Withdrawn, Accounted, service
<1>6. Agent \notin accounts'
  BY <1>5 DEF DeactivateAgent, Failed, Report
<1>7. UNCHANGED <<view, cur>>
  BY DEF DeactivateAgent, Proceed, Failed, Report
<1> QED
  BY <1>3, <1>6, <1>7 DEF ClosedFirst, Obj

\* A resource whose status names no account has none to close.
LEMMA ReconcileCloses == ASSUME CloseInv, Reconcile, at' = "unfinalize" PROVE ClosedFirst'
<1>1. view'[cur'].spec.policy = "Deactivate" => view'[cur'].status.uid = None
  BY DEF Reconcile
<1>2. None \notin accounts'
  BY NameAssumption DEF Reconcile, service, CloseInv, NameInv, FinalInv, IInv, TypeOK
<1> QED
  BY <1>1, <1>2 DEF ClosedFirst, Obj

\* Nobody opens the account while the pass is at the finalizer.
LEMMA StaysClosed ==
  ASSUME AccountsKept, CloseInv, at = "unfinalize", UNCHANGED <<view, cur>>,
         (\E a \in Names : Operate(a)) \/ UNCHANGED accounts
  PROVE  ClosedFirst'
<1> DEFINE uid == Obj.status.uid
<1>1. cur \in Resources /\ Real(Obj)
  BY InHand, InWorking DEF CloseInv, NameInv, FinalInv
<1>2. uid # None => Took(cur, uid)
  BY <1>1 DEF CloseInv, NameInv, FinalInv, IInv, StatusOK, Obj
<1>3. ASSUME uid \notin accounts PROVE uid \notin accounts'
  <2>1. CASE UNCHANGED accounts
    BY <1>3, <2>1
  <2>2. ASSUME NEW a \in Names, Operate(a), uid \in accounts' PROVE FALSE
    <3>1. "create" \in Dashboard /\ agents[a] = NoAgent /\ uid = a
      BY <1>3, <2>2 DEF Operate, Free
    <3>2. Accounted(a)
      BY <1>1, <1>2, <3>1, NameAssumption DEF CloseInv, TakenAccounted
    <3> QED
      BY <3>1, <3>2 DEF Accounted, AccountsKept
  <2> QED
    BY <2>1, <2>2
<1> QED
  BY <1>3 DEF CloseInv, ClosedFirst, Obj

LEMMA CloseStep == ASSUME AccountsKept, CloseInv, [Next]_vars PROVE ClosedFirst'
<1>1. CASE at' # "unfinalize"
  BY <1>1 DEF ClosedFirst
<1>2. CASE PassStep
  <2>1. Reconcile \/ DeactivateAgent \/ at' # "unfinalize"
    BY <1>2 DEF PassStep, BeginPass, ListNamespace, EndPass, AddFinalizer, ReadAgent, CreateAgent,
       RotateAgent, RereadAgent, WriteSecret, RestartConsumers, WriteStatus, RemoveFinalizer, Call,
       Abandon, Served, Failed, Report, Proceed, AfterWrite, FinishReady
  <2> QED
    BY <1>1, <2>1, ReconcileCloses, DeactivateCloses
<1>3. CASE (Environment /\ ~Crash) \/ UNCHANGED vars
  <2>1. /\ UNCHANGED <<at, view, cur>>
        /\ (\E a \in Names : Operate(a)) \/ UNCHANGED accounts
    BY <1>3 DEF Environment, Apply, RequestRotation, EditSpec, Delete, Operate, Touch, Quietly, pass,
       service, vars
  <2> QED
    BY <1>1, <2>1, StaysClosed
<1>4. CASE Crash
  BY <1>1, <1>4 DEF Crash
<1> QED
  BY <1>2, <1>3, <1>4 DEF Next, Environment

LEMMA CloseInit == Init => CloseInv
<1> SUFFICES ASSUME Init PROVE CloseInv
  OBVIOUS
<1>1. PICK a \in Names :
          /\ agents \in [Names -> {NoAgent, FirstAgent}]
          /\ Established # {} => agents[a] = FirstAgent
          /\ granted = Established \X {a} \X {"created"}
  BY DEF Init
<1>2. NoAgent.status = "absent" /\ FirstAgent.status = "active" /\ FirstAgent # NoAgent
  BY DEF NoAgent, FirstAgent
<1>3. Withdrawn
  BY <1>1, <1>2 DEF Withdrawn
<1>4. TakenAccounted
  BY <1>1, <1>2 DEF TakenAccounted, Took, Accounted
<1>5. ClosedFirst
  BY DEF Init, ClosedFirst
<1> QED
  BY <1>3, <1>4, <1>5, NameInit DEF CloseInv

LEMMA CloseNext == ASSUME AccountsKept, CloseInv, [Next]_vars PROVE CloseInv'
<1>1. NameInv'
  BY NameNext DEF AccountsKept, CloseInv
<1>2. AccountsFollow /\ IInv
  BY AccountsStep DEF CloseInv, NameInv, FinalInv
<1>3. ASSUME NEW r \in Resources, NEW a \in Names, TookNext(r, a) PROVE Accounted(a)'
  <2>1. CASE Took(r, a)
    BY <1>2, <2>1 DEF CloseInv, TakenAccounted, AccountsFollow
  <2>2. CASE ~Took(r, a)
    BY <1>2, <1>3, <2>2, TakenStep DEF Accounted
  <2> QED
    BY <2>1, <2>2
<1>4. TakenAccounted'
  BY <1>3 DEF TakenAccounted, Took, TookNext
<1>5. Withdrawn'
  BY <1>2 DEF AccountsFollow, Withdrawn
<1> QED
  BY <1>1, <1>4, <1>5, CloseStep DEF CloseInv

\* operator.go:399-420 and crds/matrixagents.yaml:61-63: for any resources, other edits,
\* failures and crashes of the operator, and operations of the dashboard that succeed, a
\* resource that is to deactivate its agent goes only when the account that its status
\* names is closed; as long as nobody renames a claim and an active account keeps its
\* Secret (AccountsKept).  Without one, finalize closes nothing (service.go:538-541).
THEOREM AccountClosedFirst == ASSUME AccountsKept PROVE Spec => DeactivatedFirst
<1>1. CloseInv /\ [Next]_vars =>
        [\A r \in Resources :
          res[r].state = "deleting" /\ res'[r] = Gone /\ res[r].spec.policy = "Deactivate"
          => res[r].status.uid \notin accounts]_vars
  BY GoesAsListed DEF CloseInv, NameInv, FinalInv, ClosedFirst
<1>2. CloseInv /\ [Next]_vars => CloseInv'
  BY CloseNext
<1> QED
  BY CloseInit, <1>1, <1>2, PTL DEF Spec, DeactivatedFirst
=============================================================================
