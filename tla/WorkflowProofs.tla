--------------------------- MODULE WorkflowProofs ---------------------------
(***************************************************************************)
(* Proofs about Workflow, for any number of phases, calls, sessions and    *)
(* faults, with Serial TRUE or FALSE.                                      *)
(***************************************************************************)
EXTENDS Workflow, WellFoundedInduction, TLAPS

-----------------------------------------------------------------------------
(* The inductive invariant *)

\* The states a session may be read in, and the files a handler may find.
SettledStates == CanonicalStates \cup {Absent, Final, Torn}
DiskStates == LegacyStates \cup SettledStates

HasArtifacts(s, n) == \A p \in Phases : p <= n => artifact[s][p] # NoContent

\* What a handler in flight knows at each place, whatever the others did
\* since it loaded the state.
CallOK(k) ==
  /\ k.pc \in {"idle", "bootstrap"} => k.st = Absent
  /\ k.pc \notin {"idle", "bootstrap"} => k.s \in Sessions
  /\ k.pc = "start" => k.st = Canonical(0)
  /\ k.pc = "artifact" => /\ k.p \in Phases
                          /\ k.body \in Contents
                          /\ k.st = Canonical(k.p - 1)
                          /\ HasArtifacts(k.s, k.p - 1)
  /\ k.pc = "complete" => /\ k.p \in Phases
                          /\ k.st = Canonical(k.p)
                          /\ HasArtifacts(k.s, k.p)
  /\ k.pc \in {"stat", "agents", "master", "prompts"} =>
       k.body \in Contents /\ k.st = Canonical(N) /\ HasArtifacts(k.s, N)
  /\ k.pc \in {"master", "prompts"} => agents # "none"
  /\ k.pc = "prompts" => master[k.s] # NoContent

DiskOK(s) ==
  /\ disk[s] \in DiskStates
  /\ \A p \in Phases : Load(s).phase[p] = "completed" => artifact[s][p] # NoContent
  /\ disk[s].status = "completed" => master[s] # NoContent /\ agents # "none"
  /\ master[s] # NoContent => HasArtifacts(s, N)

IInv ==
  /\ TypeOK
  /\ \A s \in Sessions : DiskOK(s)
  /\ \A c \in Calls : CallOK(call[c])
  /\ PromptsFollowPlan

-----------------------------------------------------------------------------
(* The states of a session *)

LEMMA CanonicalType ==
  ASSUME NEW k \in 0..N
  PROVE  Canonical(k) \in State
BY NAssumption, SMT DEF Canonical, State, Status, PhaseStatus, LegacyStatus, Phases, NoPhase

LEMMA LegacyStateType ==
  ASSUME NEW k \in 0..N, NEW cs \in LegacyStatus \cup {"in_progress"}
  PROVE  LegacyState(k, cs) \in State
BY NAssumption, SMT DEF LegacyState, State, Status, PhaseStatus, LegacyStatus, Phases, NoPhase

LEMMA OtherStateTypes ==
  Absent \in State /\ Torn \in State /\ Final \in State /\ Fresh = Canonical(0)
<1>1. Absent \in State /\ Torn \in State
  BY NAssumption, SMT DEF Absent, Torn, State, Status, PhaseStatus, Phases, NoPhase
<1>2. Final \in State
  BY NAssumption, CanonicalType, SMT DEF Final, Finalized, State, Status
<1>3. Fresh = Canonical(0)
  BY NAssumption, SMT DEF Fresh, Canonical, Phases
<1> QED BY <1>1, <1>2, <1>3

LEMMA FinalFields ==
  /\ Final.status = "completed"
  /\ Canonical(N).status = "ready_for_finalization"
  /\ \A p \in Phases : Final.phase[p] = "completed" /\ Canonical(N).phase[p] = "completed"
<1>1. Canonical(N) =
        [status |-> "ready_for_finalization", current |-> NoPhase,
         phase |-> [p \in Phases |-> IF p <= N THEN "completed"
                                     ELSE IF p = N + 1 THEN "in_progress" ELSE "pending"]]
  BY DEF Canonical
<1>2. \A p \in Phases : p <= N
  BY NAssumption DEF Phases
<1>3. \A p \in Phases : Canonical(N).phase[p] = "completed"
  BY <1>1, <1>2
<1>4. Final.status = "completed" /\ Final.phase = Canonical(N).phase
  BY <1>1, Zenon DEF Final, Finalized
<1> QED BY <1>1, <1>3, <1>4

LEMMA DiskStateType ==
  ASSUME NEW st \in DiskStates
  PROVE  st \in State
<1>0. 0 \in 0..N
  BY NAssumption
<1> QED
  BY <1>0, CanonicalType, LegacyStateType, OtherStateTypes
  DEF DiskStates, SettledStates, LegacyStates, CanonicalStates

LEMMA NothingToUpgrade ==
  ASSUME NEW st \in State, \A p \in Phases : st.phase[p] \notin LegacyStatus
  PROVE  Upgraded(st) = st
<1>1. [p \in Phases |-> IF st.phase[p] \in LegacyStatus THEN "completed" ELSE st.phase[p]]
        = st.phase
  BY DEF State
<1> QED BY <1>1 DEF Upgraded, State

\* normalizeLegacyState leaves the states of the current version alone.
LEMMA SettledStatesFixed ==
  ASSUME NEW st \in SettledStates
  PROVE  NormalizeLegacyState(st) = st
<1>1. CASE st \in {Absent, Torn}
  BY <1>1, SMT DEF NormalizeLegacyState, Advanced, Upgraded, Absent, Torn, LegacyStatus
<1>2. ASSUME NEW k \in 0..N, st = Canonical(k)
      PROVE  NormalizeLegacyState(st) = st
  <2>1. Upgraded(st) = st
    BY <1>2, CanonicalType, NothingToUpgrade DEF Canonical, LegacyStatus
  <2>2. CASE k = N
    <3>1. st.status = "ready_for_finalization"
      BY <1>2, <2>2 DEF Canonical
    <3> QED BY <2>1, <3>1 DEF NormalizeLegacyState, Advanced
  <2>3. CASE k < N
    <3>1. k + 1 \in Phases /\ st.phase[k + 1] = "in_progress" /\ st.current = k + 1
      BY <1>2, <2>3, NAssumption, SMT DEF Canonical, Phases
    <3>2. ~AllCompleted(st) /\ ~CurrentIsDone(st)
      BY <3>1 DEF AllCompleted, CurrentIsDone
    <3> QED BY <2>1, <3>2 DEF NormalizeLegacyState, Advanced
  <2> QED BY <2>2, <2>3, NAssumption
<1>3. CASE st = Final
  <2>1. st.status = "completed" /\ \A p \in Phases : st.phase[p] = "completed"
    BY <1>3, FinalFields
  <2>2. Upgraded(st) = st
    BY <1>3, <2>1, OtherStateTypes, NothingToUpgrade DEF LegacyStatus
  <2> QED BY <2>1, <2>2 DEF NormalizeLegacyState, Advanced
<1> QED BY <1>1, <1>2, <1>3 DEF SettledStates, CanonicalStates

\* ... and turns every state of an earlier version into one of them.
LEMMA LegacyStateSettles ==
  ASSUME NEW k \in 0..N, NEW cs \in LegacyStatus \cup {"in_progress"}
  PROVE  NormalizeLegacyState(LegacyState(k, cs)) \in CanonicalStates
<1> DEFINE st == LegacyState(k, cs)
           up == Upgraded(st)
<1>1. /\ up.status = "in_progress"
      /\ up.current = IF k < N THEN k + 1 ELSE N
      /\ up = [status |-> up.status, current |-> up.current, phase |-> up.phase]
      /\ up.phase = [p \in Phases |-> IF p <= k THEN "completed"
                         ELSE IF p = k + 1
                           THEN IF cs = "in_progress" THEN cs ELSE "completed"
                           ELSE "pending"]
  <2>1. /\ st.status = "in_progress"
        /\ st.current = IF k < N THEN k + 1 ELSE N
        /\ st = [status |-> st.status, current |-> st.current, phase |-> st.phase]
        /\ st.phase = [p \in Phases |-> IF p <= k THEN "approved"
                                         ELSE IF p = k + 1 THEN cs ELSE "pending"]
    BY DEF LegacyState
  <2>2. up = [status |-> st.status, current |-> st.current,
              phase |-> [p \in Phases |-> IF st.phase[p] \in LegacyStatus THEN "completed"
                                                                          ELSE st.phase[p]]]
    BY <2>1 DEF Upgraded
  <2>3. \A p \in Phases :
          (IF st.phase[p] \in LegacyStatus THEN "completed" ELSE st.phase[p])
          = (IF p <= k THEN "completed"
             ELSE IF p = k + 1 THEN IF cs = "in_progress" THEN cs ELSE "completed"
             ELSE "pending")
    BY <2>1 DEF LegacyStatus
  <2> HIDE DEF st, up
  <2> QED BY <2>1, <2>2, <2>3
<1>2. CASE k = N \/ (k + 1 = N /\ cs # "in_progress")
  <2>1. AllCompleted(up)
    BY <1>1, <1>2, NAssumption, SMT DEF AllCompleted, Phases
  <2>2. Advanced(up) = [up EXCEPT !.status = "ready_for_finalization", !.current = NoPhase]
    BY <1>1, <2>1 DEF Advanced
  <2>3. up.phase = Canonical(N).phase
    BY <1>1, <1>2, NAssumption, SMT DEF Canonical, Phases
  <2>4. Advanced(up) = Canonical(N)
    BY <1>1, <2>2, <2>3 DEF Canonical
  <2> QED BY <2>4, NAssumption DEF NormalizeLegacyState, CanonicalStates
<1>3. CASE k < N /\ cs = "in_progress"
  <2>1. k + 1 \in Phases /\ up.phase[k + 1] = "in_progress" /\ up.current = k + 1
    BY <1>1, <1>3, NAssumption, SMT DEF Phases
  <2>2. ~AllCompleted(up) /\ ~CurrentIsDone(up)
    BY <2>1 DEF AllCompleted, CurrentIsDone
  <2>3. Advanced(up) = up
    BY <2>2 DEF Advanced
  <2>4. up = Canonical(k)
    BY <1>1, <1>3, NAssumption, SMT DEF Canonical, Phases
  <2> QED BY <2>3, <2>4 DEF NormalizeLegacyState, CanonicalStates
<1>4. CASE k + 1 < N /\ cs # "in_progress"
  <2>1. /\ k + 1 \in Phases /\ k + 2 \in Phases
        /\ up.current = k + 1
        /\ up.phase[k + 1] = "completed" /\ up.phase[k + 2] = "pending"
    BY <1>1, <1>4, NAssumption, SMT DEF Phases
  <2>2. ~AllCompleted(up) /\ CurrentIsDone(up)
    BY <2>1 DEF AllCompleted, CurrentIsDone
  <2>3. k + 2 \in Remaining(up) /\ \A r \in Remaining(up) : k + 2 <= r
    BY <2>1, SMT DEF Remaining, Phases
  <2>4. ASSUME NEW q \in Remaining(up), \A r \in Remaining(up) : q <= r
        PROVE  q = k + 2
    BY <2>3, <2>4, NAssumption, SMT DEF Remaining, Phases
  <2>5. (CHOOSE q \in Remaining(up) : \A r \in Remaining(up) : q <= r) = k + 2
    BY <2>3, <2>4
  <2>6. Advanced(up) = [up EXCEPT !.current = k + 2,
                                  !.phase = [up.phase EXCEPT ![k + 2] = "in_progress"]]
    BY <1>1, <2>2, <2>3, <2>5, Zenon DEF Advanced, OpenNext
  <2>7. Canonical(k + 1) =
          [status |-> "in_progress", current |-> k + 2,
           phase |-> [p \in Phases |-> IF p <= k + 1 THEN "completed"
                                       ELSE IF p = k + 2 THEN "in_progress" ELSE "pending"]]
    BY <1>4, NAssumption DEF Canonical
  <2>8. Advanced(up) = Canonical(k + 1)
    <3> DEFINE ph == [up.phase EXCEPT ![k + 2] = "in_progress"]
    <3>1. ph = Canonical(k + 1).phase
      <4>1. ph = [p \in Phases |-> IF p = k + 2 THEN "in_progress" ELSE up.phase[p]]
        BY <1>1, <2>1
      <4>2. \A p \in Phases : (IF p = k + 2 THEN "in_progress" ELSE up.phase[p])
                = (IF p <= k + 1 THEN "completed"
                   ELSE IF p = k + 2 THEN "in_progress" ELSE "pending")
        BY <1>1, <1>4, NAssumption DEF Phases
      <4> QED BY <4>1, <4>2, <2>7
    <3>2. Advanced(up) = [status |-> up.status, current |-> k + 2, phase |-> ph]
      BY <1>1, <2>6
    <3> QED BY <1>1, <2>7, <3>1, <3>2
  <2>9. k + 1 \in 0..N
    BY <1>4, NAssumption
  <2> QED BY <2>8, <2>9 DEF NormalizeLegacyState, CanonicalStates
<1> QED BY <1>2, <1>3, <1>4, NAssumption

\* What a handler loads is settled, whatever file it finds.
LEMMA LoadSettles ==
  ASSUME NEW st \in DiskStates
  PROVE  NormalizeLegacyState(st) \in SettledStates
BY SettledStatesFixed, LegacyStateSettles, OtherStateTypes, NAssumption
DEF DiskStates, SettledStates, LegacyStates, CanonicalStates

\* Of any phases, one comes first.
LEMMA FirstPhase ==
  ASSUME NEW S, S \subseteq Phases, S # {}
  PROVE  \E q \in S : \A r \in S : q <= r
<1> DEFINE R == OpToRel(<, Nat)
<1>1. IsWellFoundedOn(R, Nat)
  BY NatLessThanWellFounded, Zenon
<1>2. \A x, y \in Nat : x < y => <<x, y>> \in R
  BY DEF OpToRel
<1> HIDE DEF R
<1>3. S \subseteq Nat
  BY NAssumption DEF Phases
<1>4. PICK q \in S : \A r \in S : ~(<<r, q>> \in R)
  BY <1>1, <1>3, WFMin
<1>5. ASSUME NEW r \in S PROVE q <= r
  <2>1. q \in Nat /\ r \in Nat /\ ~(r < q)
    BY <1>2, <1>3, <1>4
  <2> QED BY <2>1
<1> QED BY <1>5

\* What is opened is a phase that was not completed.
LEMMA OpensRemaining ==
  ASSUME NEW st \in State, Remaining(st) # {}
  PROVE  \E q \in Phases : /\ st.phase[q] # "completed"
                           /\ OpenNext(st) = [status |-> st.status, current |-> q,
                                              phase |-> [st.phase EXCEPT ![q] = "in_progress"]]
<1> DEFINE q == CHOOSE q \in Remaining(st) : \A r \in Remaining(st) : q <= r
<1>1. Remaining(st) \subseteq Phases
  BY DEF Remaining
<1>2. q \in Remaining(st)
  BY <1>1, FirstPhase
<1>3. q \in Phases /\ st.phase[q] # "completed"
  BY <1>2 DEF Remaining
<1>4. OpenNext(st) = [st EXCEPT !.current = q, !.phase = [st.phase EXCEPT ![q] = "in_progress"]]
  BY DEF OpenNext
<1> HIDE DEF q
<1>5. OpenNext(st) = [status |-> st.status, current |-> q,
                      phase |-> [st.phase EXCEPT ![q] = "in_progress"]]
  BY <1>4 DEF State
<1> QED BY <1>3, <1>5

\* The two upgrades one by one, and the three outcomes of normalizing.
LEMMA UpgradedFields ==
  ASSUME NEW st \in State
  PROVE  /\ Upgraded(st) \in State
         /\ \A p \in Phases :
              /\ Upgraded(st).phase[p] \notin LegacyStatus
              /\ Upgraded(st).phase[p] = "completed" <=>
                   st.phase[p] \in LegacyStatus \cup {"completed"}
<1>1. Upgraded(st) = [status |-> st.status, current |-> st.current,
        phase |-> [p \in Phases |-> IF st.phase[p] \in LegacyStatus THEN "completed"
                                                                    ELSE st.phase[p]]]
  BY DEF Upgraded, State
<1>2. \A p \in Phases : st.phase[p] \in PhaseStatus /\ "completed" \in PhaseStatus
  BY DEF State, PhaseStatus
<1>3. "completed" \notin LegacyStatus
  BY DEF LegacyStatus
<1> QED BY <1>1, <1>2, <1>3 DEF State

LEMMA AdvancedFields ==
  ASSUME NEW st \in State, \A p \in Phases : st.phase[p] \notin LegacyStatus
  PROVE  /\ Advanced(st) \in State
         /\ \A p \in Phases :
              /\ Advanced(st).phase[p] \notin LegacyStatus
              /\ Advanced(st).phase[p] = "completed" <=> st.phase[p] = "completed"
         /\ Advanced(Advanced(st)) = Advanced(st)
<1>0. 0 \in 0..N /\ "in_progress" \notin LegacyStatus /\ "in_progress" \in PhaseStatus
      /\ "ready_for_finalization" \in Status /\ Phases \subseteq 0..N
  BY NAssumption DEF LegacyStatus, PhaseStatus, Status, Phases
<1>1. CASE Advanced(st) = st
  BY <1>1
<1>2. CASE AllCompleted(st) /\ st.status = "in_progress"
  <2>1. Advanced(st) = [st EXCEPT !.status = "ready_for_finalization", !.current = NoPhase]
    BY <1>2 DEF Advanced
  <2>2. Advanced(st) = [status |-> "ready_for_finalization", current |-> 0, phase |-> st.phase]
    BY <2>1 DEF State, NoPhase
  <2>3. Advanced(st).status # "in_progress"
    BY <2>2
  <2>4. Advanced(Advanced(st)) = Advanced(st)
    BY <2>3, Zenon DEF Advanced
  <2>5. Advanced(st) \in State
    BY <1>0, <2>2 DEF State
  <2> QED BY <2>2, <2>4, <2>5
<1>3. CASE /\ st.status = "in_progress" /\ ~AllCompleted(st)
           /\ CurrentIsDone(st) /\ Remaining(st) # {}
  <2>1. Advanced(st) = OpenNext(st)
    BY <1>3 DEF Advanced
  <2>2. PICK q \in Phases :
          /\ st.phase[q] # "completed"
          /\ Advanced(st) = [status |-> st.status, current |-> q,
                             phase |-> [st.phase EXCEPT ![q] = "in_progress"]]
    BY <1>3, <2>1, OpensRemaining
  <2>3. Advanced(st) \in State
    BY <1>0, <2>2 DEF State
  <2>4. \A p \in Phases : Advanced(st).phase[p] = IF p = q THEN "in_progress" ELSE st.phase[p]
    BY <2>2 DEF State
  <2>5. ~AllCompleted(Advanced(st)) /\ ~CurrentIsDone(Advanced(st))
    <3>1. Advanced(st).current = q /\ Advanced(st).phase[q] = "in_progress"
      BY <2>2, <2>4
    <3> QED BY <3>1 DEF AllCompleted, CurrentIsDone
  <2>6. Advanced(Advanced(st)) = Advanced(st)
    <3> DEFINE a == Advanced(st)
    <3> HIDE DEF a
    <3>1. ~AllCompleted(a) /\ ~CurrentIsDone(a)
      BY <2>5 DEF a
    <3>2. Advanced(a) = a
      BY <3>1 DEF Advanced
    <3> QED BY <3>2 DEF a
  <2> QED BY <1>0, <2>2, <2>3, <2>4, <2>6
<1> QED BY <1>1, <1>2, <1>3 DEF Advanced

\* Whatever phase a workflow.json calls current and whatever statuses it gives,
\* also one edited by hand or left by an earlier version: normalizing closes
\* exactly the phases that were approved, reopens none, and doing it again
\* changes nothing, so that it does not matter how often a session is loaded
\* before it is written (normalizeLegacyState).
THEOREM NormalizeOnce ==
  ASSUME NEW st \in State
  PROVE  /\ NormalizeLegacyState(st) \in State
         /\ \A p \in Phases :
              NormalizeLegacyState(st).phase[p] = "completed" <=>
                st.phase[p] \in LegacyStatus \cup {"completed"}
         /\ NormalizeLegacyState(NormalizeLegacyState(st)) = NormalizeLegacyState(st)
<1> DEFINE up == Upgraded(st)
           norm == Advanced(up)
<1>1. /\ up \in State
      /\ \A p \in Phases : /\ up.phase[p] \notin LegacyStatus
                           /\ up.phase[p] = "completed" <=>
                                st.phase[p] \in LegacyStatus \cup {"completed"}
  BY UpgradedFields
<1> HIDE DEF up
<1>2. /\ norm \in State
      /\ \A p \in Phases : /\ norm.phase[p] \notin LegacyStatus
                           /\ norm.phase[p] = "completed" <=> up.phase[p] = "completed"
      /\ Advanced(norm) = norm
  BY <1>1, AdvancedFields
<1> HIDE DEF norm
<1>3. Upgraded(norm) = norm
  BY <1>2, NothingToUpgrade
<1>4. NormalizeLegacyState(st) = norm
  BY DEF NormalizeLegacyState, up, norm
<1>5. NormalizeLegacyState(norm) = norm
  BY <1>2, <1>3 DEF NormalizeLegacyState
<1> QED BY <1>1, <1>2, <1>4, <1>5

-----------------------------------------------------------------------------
(* What the handlers' checks establish *)

\* Complete passes its checks only for the one phase after the completed ones.
LEMMA MayCompleteNext ==
  ASSUME NEW st \in SettledStates, NEW p, MayComplete(st, p)
  PROVE  p \in Phases /\ st = Canonical(p - 1)
<1>1. p \in Phases /\ p = st.current /\ st.status = "in_progress"
  BY DEF MayComplete
<1>2. PICK k \in 0..N : st = Canonical(k)
  BY <1>1, FinalFields DEF SettledStates, CanonicalStates, Absent, Torn
<1>3. k # N
  BY <1>1, <1>2, FinalFields
<1>4. st.current = k + 1
  BY <1>2, <1>3 DEF Canonical
<1>5. k = p - 1
  BY <1>1, <1>4, NAssumption DEF Phases
<1> QED BY <1>1, <1>2, <1>5

LEMMA MayFinalizeAll ==
  ASSUME NEW st \in SettledStates, MayFinalize(st)
  PROVE  st = Canonical(N)
<1>1. st.status = "ready_for_finalization"
  BY DEF MayFinalize
<1>2. PICK k \in 0..N : st = Canonical(k)
  BY <1>1, FinalFields DEF SettledStates, CanonicalStates, Absent, Torn
<1>3. k = N
  BY <1>1, <1>2 DEF Canonical
<1> QED BY <1>2, <1>3

\* Complete takes its copy exactly one phase on.
LEMMA CompletedAdvances ==
  ASSUME NEW p \in Phases
  PROVE  Completed(Canonical(p - 1), p) = Canonical(p)
<1> DEFINE st == Canonical(p - 1)
           ph == [st.phase EXCEPT ![p] = "completed"]
<1>1. p \in 1..N /\ p - 1 \in 0..N /\ p - 1 # N /\ (p - 1) + 1 = p
  BY NAssumption DEF Phases
<1>2. st = [status |-> "in_progress", current |-> p,
            phase |-> [q \in Phases |-> IF q <= p - 1 THEN "completed"
                                        ELSE IF q = p THEN "in_progress" ELSE "pending"]]
  BY <1>1 DEF Canonical
<1>3. ph = [q \in Phases |-> IF q <= p THEN "completed" ELSE "pending"]
  <2>1. ph = [q \in Phases |-> IF q = p THEN "completed" ELSE st.phase[q]]
    BY <1>2
  <2>2. \A q \in Phases : (IF q = p THEN "completed" ELSE st.phase[q])
                           = (IF q <= p THEN "completed" ELSE "pending")
    BY <1>1, <1>2, NAssumption DEF Phases
  <2> QED BY <2>1, <2>2
<1>4. CASE p = N
  <2>1. Completed(st, p) =
          [status |-> "ready_for_finalization", current |-> NoPhase, phase |-> ph]
    BY <1>4 DEF Completed
  <2>2. ph = Canonical(p).phase
    <3>1. \A q \in Phases : (IF q <= p THEN "completed" ELSE "pending")
              = (IF q <= p THEN "completed" ELSE IF q = p + 1 THEN "in_progress" ELSE "pending")
      BY <1>4, NAssumption DEF Phases
    <3>2. Canonical(p).phase =
            [q \in Phases |-> IF q <= p THEN "completed"
                              ELSE IF q = p + 1 THEN "in_progress" ELSE "pending"]
      BY DEF Canonical
    <3> QED BY <1>3, <3>1, <3>2
  <2>3. Canonical(p) = [status |-> "ready_for_finalization", current |-> NoPhase,
                        phase |-> Canonical(p).phase]
    BY <1>4 DEF Canonical
  <2> QED BY <2>1, <2>2, <2>3
<1>5. CASE p # N
  <2>1. Completed(st, p) = [status |-> "in_progress", current |-> p + 1,
                            phase |-> [ph EXCEPT ![p + 1] = "in_progress"]]
    BY <1>2, <1>5 DEF Completed
  <2>2. [ph EXCEPT ![p + 1] = "in_progress"] =
          [q \in Phases |-> IF q = p + 1 THEN "in_progress" ELSE ph[q]]
    BY <1>1, <1>3, <1>5, NAssumption DEF Phases
  <2>3. \A q \in Phases : (IF q = p + 1 THEN "in_progress" ELSE ph[q])
          = (IF q <= p THEN "completed" ELSE IF q = p + 1 THEN "in_progress" ELSE "pending")
    BY <1>1, <1>3, NAssumption DEF Phases
  <2>4. Canonical(p) = [status |-> "in_progress", current |-> p + 1,
           phase |-> [q \in Phases |-> IF q <= p THEN "completed"
                                  ELSE IF q = p + 1 THEN "in_progress" ELSE "pending"]]
    BY <1>5 DEF Canonical
  <2> QED BY <2>1, <2>2, <2>3, <2>4
<1> QED BY <1>4, <1>5

\* The phase after the completed ones is the one Complete accepts.
LEMMA CanonicalOpen ==
  ASSUME NEW p \in Phases
  PROVE  MayComplete(Canonical(p - 1), p)
<1>1. p \in 1..N /\ p - 1 # N /\ (p - 1) + 1 = p /\ ~(p <= p - 1)
  BY NAssumption DEF Phases
<1>2. /\ Canonical(p - 1).status = "in_progress" /\ Canonical(p - 1).current = p
      /\ Canonical(p - 1).phase[p] = "in_progress"
  BY <1>1 DEF Canonical
<1> QED BY <1>2 DEF MayComplete

LEMMA CanonicalPhases ==
  ASSUME NEW k \in 0..N, NEW p \in Phases
  PROVE  Canonical(k).phase[p] = "completed" <=> p <= k
BY SMT DEF Canonical

-----------------------------------------------------------------------------
(* Steps *)

\* No handler removes an artifact, a master plan or AGENTS.md.
Grows ==
  /\ \A s \in Sessions, p \in Phases :
       artifact[s][p] # NoContent => artifact'[s][p] # NoContent
  /\ \A s \in Sessions : master[s] # NoContent => master'[s] # NoContent
  /\ agents # "none" => agents' # "none"

\* What a handler knows stays true while other handlers run.
LEMMA CallStable ==
  ASSUME NEW k \in CallState, CallOK(k), Grows
  PROVE  CallOK(k)'
BY NAssumption DEF CallOK, Grows, HasArtifacts, CallState

LEMMA IdleOK == Idle \in CallState /\ CallOK(Idle) /\ CallOK(Idle)'
<1>1. Idle \in CallState
  BY OtherStateTypes, NAssumption DEF Idle, Running, CallState, ProgramCounter, NoPhase
<1> QED BY <1>1 DEF Idle, Running, CallOK

\* A step of one handler: the others keep what they know.
LEMMA OneCallMoves ==
  ASSUME TypeOK, \A d \in Calls : CallOK(call[d]), Grows,
         NEW c \in Calls, NEW k \in CallState, CallOK(k)',
         call' = [call EXCEPT ![c] = k]
  PROVE  /\ call' \in [Calls -> CallState]
         /\ \A d \in Calls : CallOK(call[d])'
<1>1. call' \in [Calls -> CallState]
  BY DEF TypeOK
<1>2. ASSUME NEW d \in Calls
      PROVE  CallOK(call[d])'
  <2>1. CASE d = c
    BY <2>1 DEF TypeOK, CallOK, HasArtifacts
  <2>2. CASE d # c
    <3>1. call'[d] = call[d] /\ call[d] \in CallState /\ CallOK(call[d])
      BY <2>2 DEF TypeOK
    <3> QED BY <3>1, CallStable DEF CallOK, HasArtifacts
  <2> QED BY <2>1, <2>2
<1> QED BY <1>1, <1>2

\* Steps that leave the state files and the master plans alone.
LEMMA FilesStable ==
  ASSUME IInv, Grows, UNCHANGED <<disk, master>>
  PROVE  \A s \in Sessions : DiskOK(s)'
BY NAssumption DEF IInv, TypeOK, DiskOK, Grows, HasArtifacts, Load

-----------------------------------------------------------------------------
(* The invariant is inductive *)

LEMMA InitInv == Init => IInv
<1> SUFFICES ASSUME Init PROVE IInv
  OBVIOUS
<1>1. \A s \in Sessions : disk[s] \in LegacyStates /\ disk[s] \in DiskStates
  BY DEF Init, DiskStates
<1>2. TypeOK
  <2>1. disk \in [Sessions -> State]
    BY <1>1, DiskStateType DEF Init
  <2>2. now \in 0..MaxTime /\ faults \in 0..MaxFaults
    BY BoundsAssumption DEF Init
  <2>3. call \in [Calls -> CallState]
    BY IdleOK DEF Init
  <2> QED BY <2>1, <2>2, <2>3 DEF Init, TypeOK
<1>3. ASSUME NEW s \in Sessions PROVE DiskOK(s)
  <2>1. \A p \in Phases : Load(s).phase[p] = "completed" => artifact[s][p] # NoContent
    <3> SUFFICES ASSUME NEW p \in Phases, Load(s).phase[p] = "completed"
                 PROVE  artifact[s][p] # NoContent
      OBVIOUS
    <3>1. disk[s].phase[p] \in LegacyStatus \cup {"completed"}
      BY <1>1, DiskStateType, NormalizeOnce DEF Load
    <3>2. disk[s].phase[p] # "completed"
      <4>1. Absent.phase[p] # "completed" /\ Fresh.phase[p] # "completed"
        BY DEF Absent, Fresh
      <4>2. ASSUME NEW k \in 0..N, NEW cs \in LegacyStatus \cup {"in_progress"}
            PROVE  LegacyState(k, cs).phase[p] # "completed"
        BY <4>2 DEF LegacyState, LegacyStatus
      <4> QED BY <1>1, <4>1, <4>2 DEF LegacyStates
    <3> QED BY <3>1, <3>2 DEF Init
  <2>2. disk[s].status # "completed"
    BY <1>1 DEF LegacyStates, Absent, Fresh, LegacyState
  <2>3. master[s] = NoContent
    BY DEF Init
  <2> QED BY <1>1, <2>1, <2>2, <2>3 DEF DiskOK
<1>4. \A c \in Calls : CallOK(call[c])
  BY IdleOK DEF Init, CallOK, Idle, Running
<1>5. PromptsFollowPlan
  BY DEF Init, PromptsFollowPlan
<1> QED BY <1>2, <1>3, <1>4, <1>5 DEF IInv

\* Steps that change nothing but the local state of one handler.
LEMMA LocalStep ==
  ASSUME IInv, NEW c \in Calls, NEW k \in CallState, CallOK(k),
         call' = [call EXCEPT ![c] = k],
         UNCHANGED <<now, disk, artifact, master, prompt, agents, faults>>
  PROVE  IInv'
<1>1. Grows
  BY DEF Grows
<1>2. CallOK(k)'
  BY <1>1, CallStable
<1>3. TypeOK' /\ \A d \in Calls : CallOK(call[d])'
  BY <1>1, <1>2, OneCallMoves DEF IInv, TypeOK
<1>4. \A s \in Sessions : DiskOK(s)'
  BY <1>1, FilesStable
<1>5. PromptsFollowPlan'
  BY DEF IInv, PromptsFollowPlan
<1> QED BY <1>3, <1>4, <1>5 DEF IInv

LEMMA PromptListType ==
  ASSUME NEW ps \in PromptLists
  PROVE  ps \in Seq(PromptTitles)
BY BoundsAssumption DEF PromptLists

\* What a handler has read of session s: a settled state, and the artifacts
\* of the phases it calls completed.
LEMMA Loaded ==
  ASSUME IInv, NEW s \in Sessions
  PROVE  /\ Load(s) \in SettledStates
         /\ Load(s) \in State
         /\ \A n \in 0..N : Load(s) = Canonical(n) => HasArtifacts(s, n)
<1>1. DiskOK(s)
  BY DEF IInv
<1>2. Load(s) \in SettledStates
  BY <1>1, LoadSettles DEF DiskOK, Load
<1>3. Load(s) \in State
  BY <1>2, DiskStateType DEF DiskStates
<1>4. ASSUME NEW n \in 0..N, Load(s) = Canonical(n)
      PROVE  HasArtifacts(s, n)
  BY <1>1, <1>4, CanonicalPhases DEF DiskOK, HasArtifacts
<1> QED BY <1>2, <1>3, <1>4

LEMMA StartInv ==
  ASSUME IInv, NEW c \in Calls, NEW t \in Titles, Start(c, t)
  PROVE  IInv'
<1> DEFINE k == Running("start", <<now, t>>, Fresh, NoPhase, NoContent, <<>>)
<1>1. <<now, t>> \in Sessions
  BY DEF Start, Sessions
<1>2. Fresh \in State /\ Fresh = Canonical(0)
  BY OtherStateTypes, CanonicalType, NAssumption
<1>3. k \in CallState
  BY <1>1, <1>2, NAssumption DEF CallState, ProgramCounter, Running, NoPhase
<1>4. CallOK(k)
  BY <1>1, <1>2 DEF CallOK, Running
<1> QED BY <1>3, <1>4, LocalStep DEF Start

LEMMA CompleteInv ==
  ASSUME IInv, NEW c \in Calls, NEW s \in Sessions, NEW p \in Phases, NEW x \in Contents,
         Complete(c, s, p, x)
  PROVE  IInv'
<1> DEFINE k == Running("artifact", s, Load(s), p, x, <<>>)
<1>1. Load(s) = Canonical(p - 1)
  BY Loaded, MayCompleteNext DEF Complete
<1>2. p \in 0..N /\ p - 1 \in 0..N
  BY NAssumption DEF Phases
<1>3. HasArtifacts(s, p - 1)
  BY <1>1, <1>2, Loaded
<1>4. k \in CallState
  BY <1>2, Loaded DEF CallState, ProgramCounter, Running
<1>5. CallOK(k)
  BY <1>1, <1>3 DEF CallOK, Running
<1> QED BY <1>4, <1>5, LocalStep DEF Complete

LEMMA FinalizeInv ==
  ASSUME IInv, NEW c \in Calls, NEW s \in Sessions, NEW x \in Contents,
         NEW ps \in PromptLists, Finalize(c, s, x, ps)
  PROVE  IInv'
<1> DEFINE k == Running("stat", s, Load(s), NoPhase, x, ps)
<1>1. Load(s) = Canonical(N) /\ N \in 0..N
  BY Loaded, MayFinalizeAll, NAssumption DEF Finalize
<1>2. HasArtifacts(s, N)
  BY <1>1, Loaded
<1>3. k \in CallState
  BY Loaded, PromptListType, NAssumption DEF CallState, ProgramCounter, Running, NoPhase
<1>4. CallOK(k)
  BY <1>1, <1>2 DEF CallOK, Running
<1> QED BY <1>3, <1>4, LocalStep DEF Finalize

LEMMA BootstrapInv ==
  ASSUME IInv, NEW c \in Calls, NEW overwrite \in BOOLEAN, Bootstrap(c, overwrite)
  PROVE  IInv'
<1> DEFINE k == Running("bootstrap", NoSession, Absent, NoPhase, NoContent, <<>>)
<1>1. k \in CallState
  BY OtherStateTypes, NAssumption DEF CallState, ProgramCounter, Running, NoPhase
<1>2. CallOK(k)
  BY DEF CallOK, Running
<1> QED BY <1>1, <1>2, LocalStep DEF Bootstrap

LEMMA StatAgentsInv ==
  ASSUME IInv, NEW c \in Calls, StatAgents(c)
  PROVE  IInv'
<1> DEFINE k == [call[c] EXCEPT !.pc = IF agents = "none" THEN "agents" ELSE "master"]
<1>1. call[c] \in CallState /\ CallOK(call[c]) /\ call[c].pc = "stat"
  BY DEF IInv, TypeOK, StatAgents
<1>2. k \in CallState
  BY <1>1 DEF CallState, ProgramCounter
<1>3. CallOK(k)
  BY <1>1 DEF CallOK, CallState
<1>4. call' = [call EXCEPT ![c] = k]
  BY DEF StatAgents
<1> QED BY <1>2, <1>3, <1>4, LocalStep DEF StatAgents

LEMMA WriteArtifactInv ==
  ASSUME IInv, NEW c \in Calls, WriteArtifact(c)
  PROVE  IInv'
<1> DEFINE old == call[c]
<1>1. /\ old \in CallState /\ old.pc = "artifact"
      /\ old.s \in Sessions /\ old.p \in Phases /\ old.body \in Contents
      /\ old.st = Canonical(old.p - 1) /\ HasArtifacts(old.s, old.p - 1)
  BY DEF IInv, TypeOK, WriteArtifact, CallOK
<1>2. Completed(old.st, old.p) = Canonical(old.p) /\ Canonical(old.p) \in State
  BY <1>1, CompletedAdvances, CanonicalType, NAssumption DEF Phases
<1>3. artifact' \in [Sessions -> [Phases -> Contents \cup {NoContent}]]
  BY <1>1 DEF IInv, TypeOK, WriteArtifact
<1>4. \A s \in Sessions, p \in Phases :
        artifact'[s][p] = IF s = old.s /\ p = old.p THEN old.body ELSE artifact[s][p]
  BY <1>1 DEF IInv, TypeOK, WriteArtifact
<1>5. Grows
  BY <1>1, <1>4, NoContentAssumption DEF Grows, WriteArtifact
<1>6. PICK k \in CallState :
        k = [old EXCEPT !.pc = "complete", !.st = Completed(old.st, old.p)]
  BY <1>1, <1>2 DEF CallState, ProgramCounter
<1>7. \A p \in Phases : p <= old.p => artifact'[old.s][p] # NoContent
  <2> SUFFICES ASSUME NEW p \in Phases, p <= old.p
               PROVE  artifact'[old.s][p] # NoContent
    OBVIOUS
  <2>1. CASE p = old.p
    BY <1>1, <1>4, <2>1, NoContentAssumption
  <2>2. CASE p # old.p
    BY <1>1, <1>4, <2>2, NAssumption DEF HasArtifacts, Phases
  <2> QED BY <2>1, <2>2
<1>8. CallOK(k)'
  <2>1. k.pc = "complete" /\ k.s = old.s /\ k.p = old.p /\ k.st = Canonical(old.p)
    BY <1>1, <1>2, <1>6 DEF CallState
  <2>2. HasArtifacts(k.s, k.p)'
    BY <1>7, <2>1 DEF HasArtifacts
  <2> QED BY <1>1, <2>1, <2>2 DEF CallOK
<1>9. call' = [call EXCEPT ![c] = k]
  BY <1>6 DEF WriteArtifact
<1>10. TypeOK' /\ \A d \in Calls : CallOK(call[d])'
  BY <1>3, <1>5, <1>6, <1>8, <1>9, OneCallMoves DEF IInv, TypeOK, WriteArtifact
<1>11. \A s \in Sessions : DiskOK(s)'
  BY <1>5, FilesStable DEF WriteArtifact
<1>12. PromptsFollowPlan'
  BY DEF IInv, PromptsFollowPlan, WriteArtifact
<1> QED BY <1>10, <1>11, <1>12 DEF IInv

\* The new file is settled, and all of its completed phases have their
\* artifacts.
LEMMA FileWritten ==
  ASSUME IInv, NEW s \in Sessions, NEW n \in 0..N,
         NEW st \in {Canonical(n), Final, Torn}, HasArtifacts(s, n),
         st = Final => n = N /\ master[s] # NoContent /\ agents # "none",
         disk' = [disk EXCEPT ![s] = st],
         UNCHANGED <<artifact, master, agents>>
  PROVE  st \in State /\ \A r \in Sessions : DiskOK(r)'
<1>1. st \in SettledStates /\ st \in State
  BY OtherStateTypes, CanonicalType DEF SettledStates, CanonicalStates
<1>2. ASSUME NEW r \in Sessions PROVE DiskOK(r)'
  <2>1. CASE r # s
    BY <2>1 DEF IInv, TypeOK, DiskOK, HasArtifacts, Load
  <2>2. CASE r = s
    <3>1. disk'[s] = st /\ Load(s)' = st
      BY <1>1, SettledStatesFixed DEF IInv, TypeOK, Load
    <3>2. \A p \in Phases : st.phase[p] = "completed" => artifact'[s][p] # NoContent
      BY CanonicalPhases, NAssumption DEF HasArtifacts, Phases, Torn
    <3>3. st.status = "completed" => st = Final
      BY DEF Canonical, Torn
    <3>4. master'[s] # NoContent => HasArtifacts(s, N)'
      BY DEF IInv, DiskOK, HasArtifacts
    <3> QED BY <1>1, <2>2, <3>1, <3>2, <3>3, <3>4 DEF DiskOK, DiskStates
  <2> QED BY <2>1, <2>2
<1> QED BY <1>1, <1>2

LEMMA StateWritten ==
  ASSUME IInv, NEW c \in Calls, NEW s \in Sessions, NEW n \in 0..N,
         NEW st \in {Canonical(n), Final}, HasArtifacts(s, n),
         st = Final => n = N /\ master[s] # NoContent /\ agents # "none",
         disk' = [disk EXCEPT ![s] = st],
         call' = [call EXCEPT ![c] = Idle],
         UNCHANGED <<now, artifact, master, prompt, agents, faults>>
  PROVE  IInv'
<1>1. Grows
  BY DEF Grows
<1>2. st \in State /\ \A r \in Sessions : DiskOK(r)'
  BY FileWritten
<1>3. TypeOK' /\ \A d \in Calls : CallOK(call[d])'
  BY <1>1, <1>2, IdleOK, OneCallMoves DEF IInv, TypeOK
<1>4. PromptsFollowPlan'
  BY DEF IInv, PromptsFollowPlan
<1> QED BY <1>2, <1>3, <1>4 DEF IInv

\* What a handler is about to write is backed.
LEMMA ToWriteBacked ==
  ASSUME IInv, NEW c \in Calls, NEW s \in Sessions, AtStateWrite(c, s)
  PROVE  \E n \in 0..N :
           /\ ToWrite(c) \in {Canonical(n), Final}
           /\ HasArtifacts(s, n)
           /\ ToWrite(c) = Final => n = N /\ master[s] # NoContent /\ agents # "none"
<1> DEFINE k == call[c]
<1>1. k \in CallState /\ CallOK(k) /\ k.s = s
  BY DEF IInv, TypeOK, AtStateWrite
<1>2. \A n \in 0..N : Canonical(n) # Final
  BY FinalFields DEF Canonical
<1>3. CASE k.pc = "start"
  <2>1. ToWrite(c) = Canonical(0)
    BY <1>1, <1>3 DEF CallOK, ToWrite
  <2>2. HasArtifacts(s, 0) /\ 0 \in 0..N
    BY NAssumption DEF HasArtifacts, Phases
  <2> QED BY <1>2, <2>1, <2>2
<1>4. CASE k.pc = "complete"
  <2>1. k.p \in 0..N /\ ToWrite(c) = Canonical(k.p) /\ HasArtifacts(s, k.p)
    BY <1>1, <1>4 DEF CallOK, CallState, ToWrite
  <2> QED BY <1>2, <2>1
<1>5. CASE k.pc = "prompts"
  <2>1. /\ N \in 0..N /\ ToWrite(c) = Final /\ HasArtifacts(s, N)
        /\ master[s] # NoContent /\ agents # "none"
    BY <1>1, <1>5, NAssumption DEF CallOK, ToWrite, Final
  <2> QED BY <2>1
<1> QED BY <1>3, <1>4, <1>5 DEF AtStateWrite

\* Two writes at a time leave one of the two states, or a file that is read as
\* nothing at all.
LEMMA OverlapInv ==
  ASSUME IInv, NEW c \in Calls, NEW d \in Calls, Overlap(c, d)
  PROVE  IInv'
<1>1. PICK s \in Sessions, gone \in SUBSET {c, d} :
      /\ AtStateWrite(c, s) /\ AtStateWrite(d, s)
      /\ \E st \in {disk[s], Torn, ToWrite(c), ToWrite(d)} : disk' = [disk EXCEPT ![s] = st]
      /\ call' = [b \in Calls |-> IF b \in gone THEN Idle ELSE call[b]]
      /\ UNCHANGED <<now, artifact, master, prompt, agents, faults>>
  BY DEF Overlap
<1>2. Grows
  BY <1>1 DEF Grows
<1>3. PICK st \in {disk[s], Torn, ToWrite(c), ToWrite(d)} : disk' = [disk EXCEPT ![s] = st]
  BY <1>1
<1>4. st \in State /\ \A r \in Sessions : DiskOK(r)'
  <2>1. CASE st = disk[s]
    <3>1. disk' = disk /\ disk[s] \in State
      BY <1>3, <2>1 DEF IInv, TypeOK
    <3> QED BY <1>1, <1>2, <2>1, <3>1, FilesStable
  <2>2. CASE st = Torn
    <3>1. HasArtifacts(s, 0) /\ 0 \in 0..N /\ Torn # Final
      BY NAssumption, FinalFields DEF HasArtifacts, Phases, Torn
    <3> QED BY <1>1, <1>3, <2>2, <3>1, FileWritten
  <2>3. ASSUME NEW b \in {c, d}, st = ToWrite(b)
        PROVE  st \in State /\ \A r \in Sessions : DiskOK(r)'
    <3>1. PICK n \in 0..N :
          /\ st \in {Canonical(n), Final}
          /\ HasArtifacts(s, n)
          /\ st = Final => n = N /\ master[s] # NoContent /\ agents # "none"
      BY <1>1, <2>3, ToWriteBacked
    <3>2. UNCHANGED <<artifact, master, agents>>
      BY <1>1
    <3> QED BY <1>3, <3>1, <3>2, FileWritten
  <2> QED BY <2>1, <2>2, <2>3
<1>5. disk' \in [Sessions -> State]
  BY <1>3, <1>4 DEF IInv, TypeOK
<1>6. call' \in [Calls -> CallState]
  BY <1>1, IdleOK DEF IInv, TypeOK
<1>7. TypeOK'
  BY <1>1, <1>5, <1>6 DEF IInv, TypeOK
<1>8. ASSUME NEW b \in Calls PROVE CallOK(call[b])'
  <2>1. CASE call'[b] = Idle
    BY <2>1 DEF CallOK, Idle, Running
  <2>2. CASE call'[b] = call[b]
    <3>1. call[b] \in CallState /\ CallOK(call[b])
      BY DEF IInv, TypeOK
    <3> QED BY <1>2, <2>2, <3>1, CallStable DEF CallOK, HasArtifacts
  <2> QED BY <1>1, <2>1, <2>2
<1>9. PromptsFollowPlan'
  BY <1>1 DEF IInv, PromptsFollowPlan
<1> QED BY <1>4, <1>7, <1>8, <1>9 DEF IInv

LEMMA WriteStateInv ==
  ASSUME IInv, NEW c \in Calls, WriteState(c)
  PROVE  IInv'
<1> DEFINE old == call[c]
<1>1. old \in CallState /\ CallOK(old) /\ old.pc \in {"start", "complete"}
  BY DEF IInv, TypeOK, WriteState
<1>2. CASE old.pc = "start"
  <2>1. old.s \in Sessions /\ old.st = Canonical(0)
    BY <1>1, <1>2 DEF CallOK
  <2>2. HasArtifacts(old.s, 0) /\ 0 \in 0..N
    BY NAssumption DEF HasArtifacts, Phases
  <2>3. Canonical(0) # Final
    BY FinalFields DEF Canonical
  <2> QED BY <2>1, <2>2, <2>3, StateWritten DEF WriteState
<1>3. CASE old.pc = "complete"
  <2>1. /\ old.s \in Sessions /\ old.p \in 0..N
        /\ old.st = Canonical(old.p) /\ HasArtifacts(old.s, old.p)
    BY <1>1, <1>3 DEF CallOK, CallState
  <2>2. Canonical(old.p) # Final
    BY FinalFields DEF Canonical
  <2> QED BY <2>1, <2>2, StateWritten DEF WriteState
<1> QED BY <1>1, <1>2, <1>3

LEMMA WriteFinalStateInv ==
  ASSUME IInv, NEW c \in Calls, WriteFinalState(c)
  PROVE  IInv'
<1> DEFINE old == call[c]
<1>1. old \in CallState /\ CallOK(old) /\ old.pc = "prompts"
  BY DEF IInv, TypeOK, WriteFinalState
<1>2. /\ old.s \in Sessions /\ N \in 0..N /\ HasArtifacts(old.s, N)
      /\ Finalized(old.st) = Final /\ master[old.s] # NoContent /\ agents # "none"
  BY <1>1, NAssumption DEF CallOK, Final
<1> QED BY <1>2, StateWritten DEF WriteFinalState

LEMMA WriteAgentsInv ==
  ASSUME IInv, NEW c \in Calls, WriteAgents(c)
  PROVE  IInv'
<1> DEFINE old == call[c]
<1>1. old \in CallState /\ CallOK(old) /\ old.pc = "agents"
  BY DEF IInv, TypeOK, WriteAgents
<1>2. Grows
  BY DEF Grows, WriteAgents
<1>3. PICK k \in CallState : k = [old EXCEPT !.pc = "master"]
  BY <1>1 DEF CallState, ProgramCounter
<1>4. CallOK(k)'
  <2>1. k.pc = "master" /\ k.s = old.s /\ k.body = old.body /\ k.st = old.st
    BY <1>1, <1>3 DEF CallState
  <2>2. k.s \in Sessions /\ k.body \in Contents /\ k.st = Canonical(N) /\ HasArtifacts(k.s, N)
    BY <1>1, <2>1 DEF CallOK
  <2> QED BY <2>1, <2>2 DEF CallOK, HasArtifacts, WriteAgents
<1>5. call' = [call EXCEPT ![c] = k]
  BY <1>3 DEF WriteAgents
<1>6. TypeOK' /\ \A d \in Calls : CallOK(call[d])'
  BY <1>2, <1>4, <1>5, OneCallMoves DEF IInv, TypeOK, WriteAgents
<1>7. \A s \in Sessions : DiskOK(s)'
  BY <1>2, FilesStable DEF WriteAgents
<1>8. PromptsFollowPlan'
  BY DEF IInv, PromptsFollowPlan, WriteAgents
<1> QED BY <1>6, <1>7, <1>8 DEF IInv

LEMMA WriteBootstrapInv ==
  ASSUME IInv, NEW c \in Calls, WriteBootstrap(c)
  PROVE  IInv'
<1>1. Grows
  BY DEF Grows, WriteBootstrap
<1>2. TypeOK' /\ \A d \in Calls : CallOK(call[d])'
  BY <1>1, IdleOK, OneCallMoves DEF IInv, TypeOK, WriteBootstrap
<1>3. \A s \in Sessions : DiskOK(s)'
  BY <1>1, FilesStable DEF WriteBootstrap
<1>4. PromptsFollowPlan'
  BY DEF IInv, PromptsFollowPlan, WriteBootstrap
<1> QED BY <1>2, <1>3, <1>4 DEF IInv

LEMMA WriteMasterInv ==
  ASSUME IInv, NEW c \in Calls, WriteMaster(c)
  PROVE  IInv'
<1> DEFINE old == call[c]
<1>1. /\ old \in CallState /\ CallOK(old) /\ old.pc = "master"
      /\ old.s \in Sessions /\ old.body \in Contents /\ agents # "none"
      /\ old.st = Canonical(N) /\ HasArtifacts(old.s, N)
  BY DEF IInv, TypeOK, WriteMaster, CallOK
<1>2. \A s \in Sessions : master'[s] = IF s = old.s THEN old.body ELSE master[s]
  BY <1>1 DEF IInv, TypeOK, WriteMaster
<1>3. Grows
  BY <1>1, <1>2, NoContentAssumption DEF Grows, WriteMaster
<1>4. PICK k \in CallState : k = [old EXCEPT !.pc = "prompts"]
  BY <1>1 DEF CallState, ProgramCounter
<1>5. CallOK(k)'
  <2>1. k.pc = "prompts" /\ k.s = old.s /\ k.body = old.body /\ k.st = old.st
    BY <1>1, <1>4 DEF CallState
  <2>2. /\ k.s \in Sessions /\ k.body \in Contents /\ k.st = Canonical(N)
        /\ HasArtifacts(k.s, N) /\ master'[k.s] # NoContent /\ agents # "none"
    BY <1>1, <1>2, <2>1, NoContentAssumption
  <2> QED BY <2>1, <2>2 DEF CallOK, HasArtifacts, WriteMaster
<1>6. call' = [call EXCEPT ![c] = k]
  BY <1>4 DEF WriteMaster
<1>7. TypeOK' /\ \A d \in Calls : CallOK(call[d])'
  <2>1. master' \in [Sessions -> Contents \cup {NoContent}]
    BY <1>1 DEF IInv, TypeOK, WriteMaster
  <2> QED BY <1>3, <1>5, <1>6, <2>1, OneCallMoves DEF IInv, TypeOK, WriteMaster
<1>8. ASSUME NEW s \in Sessions PROVE DiskOK(s)'
  BY <1>1, <1>2, NoContentAssumption DEF IInv, DiskOK, HasArtifacts, Load, WriteMaster
<1>9. PromptsFollowPlan'
  BY <1>2, <1>3 DEF IInv, TypeOK, PromptsFollowPlan, Grows, WriteMaster
<1> QED BY <1>7, <1>8, <1>9 DEF IInv

LEMMA WritePromptInv ==
  ASSUME IInv, NEW c \in Calls, WritePrompt(c)
  PROVE  IInv'
<1> DEFINE old == call[c]
           f == <<old.s[2], Head(old.todo)>>
<1>1. /\ old \in CallState /\ CallOK(old) /\ old.pc = "prompts"
      /\ old.s \in Sessions /\ master[old.s] # NoContent
      /\ old.todo \in Seq(PromptTitles) /\ old.todo # <<>>
  BY DEF IInv, TypeOK, WritePrompt, CallOK, CallState
<1>2. f \in Titles \X PromptTitles
  BY <1>1 DEF Sessions
<1>3. Grows
  BY DEF Grows, WritePrompt
<1>4. PICK k \in CallState : k = [old EXCEPT !.todo = Tail(old.todo)]
  <2>1. Tail(old.todo) \in Seq(PromptTitles)
    BY <1>1
  <2> QED BY <1>1, <2>1 DEF CallState
<1>5. CallOK(k)'
  <2>1. k.pc = old.pc /\ k.s = old.s /\ k.body = old.body /\ k.st = old.st
    BY <1>1, <1>4 DEF CallState
  <2>2. CallOK(k)
    BY <1>1, <2>1 DEF CallOK
  <2> QED BY <1>3, <2>2, CallStable
<1>6. call' = [call EXCEPT ![c] = k]
  BY <1>4 DEF WritePrompt
<1>7. TypeOK' /\ \A d \in Calls : CallOK(call[d])'
  <2>1. prompt' \in [Titles \X PromptTitles -> Sessions \cup {NoSession}]
    BY <1>1, <1>2 DEF IInv, TypeOK, WritePrompt
  <2> QED BY <1>3, <1>5, <1>6, <2>1, OneCallMoves DEF IInv, TypeOK, WritePrompt
<1>8. \A s \in Sessions : DiskOK(s)'
  BY <1>3, FilesStable DEF WritePrompt
<1>9. PromptsFollowPlan'
  BY <1>1, <1>2 DEF IInv, TypeOK, PromptsFollowPlan, WritePrompt
<1> QED BY <1>7, <1>8, <1>9 DEF IInv

LEMMA FailInv ==
  ASSUME IInv, NEW c \in Calls, Fail(c)
  PROVE  IInv'
<1>1. Grows
  BY DEF Grows, Fail
<1>2. faults' \in 0..MaxFaults
  BY BoundsAssumption DEF IInv, TypeOK, Fail
<1>3. TypeOK' /\ \A d \in Calls : CallOK(call[d])'
  BY <1>1, <1>2, IdleOK, OneCallMoves DEF IInv, TypeOK, Fail
<1>4. \A s \in Sessions : DiskOK(s)'
  BY <1>1, FilesStable DEF Fail
<1>5. PromptsFollowPlan'
  BY DEF IInv, PromptsFollowPlan, Fail
<1> QED BY <1>3, <1>4, <1>5 DEF IInv

LEMMA CrashInv ==
  ASSUME IInv, Crash
  PROVE  IInv'
<1>1. Grows
  BY DEF Grows, Crash
<1>2. faults' \in 0..MaxFaults
  BY BoundsAssumption DEF IInv, TypeOK, Crash
<1>3. TypeOK'
  BY <1>2, IdleOK DEF IInv, TypeOK, Crash
<1>4. ASSUME NEW d \in Calls PROVE CallOK(call[d])'
  <2>1. call'[d] = Idle
    BY DEF Crash
  <2> QED BY <2>1 DEF CallOK, Idle, Running
<1>5. \A s \in Sessions : DiskOK(s)'
  BY <1>1, FilesStable DEF Crash
<1>6. PromptsFollowPlan'
  BY DEF IInv, PromptsFollowPlan, Crash
<1> QED BY <1>3, <1>4, <1>5, <1>6 DEF IInv

LEMMA TickInv ==
  ASSUME IInv, Tick
  PROVE  IInv'
<1>1. Grows
  BY DEF Grows, Tick
<1>2. TypeOK'
  BY BoundsAssumption DEF IInv, TypeOK, Tick
<1>3. \A d \in Calls : CallOK(call[d])'
  BY DEF IInv, CallOK, HasArtifacts, Tick
<1>4. \A s \in Sessions : DiskOK(s)'
  BY <1>1, FilesStable DEF Tick
<1>5. PromptsFollowPlan'
  BY DEF IInv, PromptsFollowPlan, Tick
<1> QED BY <1>2, <1>3, <1>4, <1>5 DEF IInv

LEMMA StutterInv ==
  ASSUME IInv, UNCHANGED vars
  PROVE  IInv'
<1>1. Grows
  BY DEF Grows, vars
<1>2. TypeOK' /\ PromptsFollowPlan'
  BY DEF IInv, TypeOK, PromptsFollowPlan, vars
<1>3. \A d \in Calls : CallOK(call[d])'
  BY DEF IInv, CallOK, HasArtifacts, vars
<1>4. \A s \in Sessions : DiskOK(s)'
  BY <1>1, FilesStable DEF vars
<1> QED BY <1>2, <1>3, <1>4 DEF IInv

LEMMA NextInv == IInv /\ [Next]_vars => IInv'
<1> SUFFICES ASSUME IInv, [Next]_vars PROVE IInv'
  OBVIOUS
<1>1. ASSUME NEW c \in Calls, Issue(c)
      PROVE  IInv'
  BY <1>1, StartInv, CompleteInv, FinalizeInv, BootstrapInv DEF Issue
<1>2. ASSUME NEW c \in Calls, Step(c)
      PROVE  IInv'
  BY <1>2, WriteArtifactInv, WriteStateInv, StatAgentsInv, WriteAgentsInv, WriteMasterInv,
     WritePromptInv, WriteFinalStateInv, WriteBootstrapInv
  DEF Step
<1>3. ASSUME NEW c \in Calls, Fail(c)
      PROVE  IInv'
  BY <1>3, FailInv
<1> QED BY <1>1, <1>2, <1>3, OverlapInv, CrashInv, TickInv, StutterInv DEF Next

-----------------------------------------------------------------------------
(* Theorems *)

LEMMA Invariance == Spec => []IInv
BY InitInv, NextInv, PTL DEF Spec

\* Every variable keeps its type in every behaviour of the workflow.
THEOREM TypeCorrect == Spec => []TypeOK
<1>1. IInv => TypeOK
  BY DEF IInv
<1> QED BY <1>1, Invariance, PTL

\* Every state that is loaded, or about to be written, is one that completing
\* the phases one after the other gives (Complete, normalizeLegacyState).
THEOREM WellFormed == Spec => []StateWellFormed
<1>1. IInv => StateWellFormed
  <2> SUFFICES ASSUME IInv PROVE StateWellFormed
    OBVIOUS
  <2>1. \A s \in Sessions : Load(s) \in CanonicalStates \cup {Absent, Final, Torn}
    BY Loaded DEF SettledStates
  <2>2. ASSUME NEW c \in Calls
        PROVE  call[c].st \in CanonicalStates \cup {Absent}
    <3>1. call[c] \in CallState /\ CallOK(call[c])
      BY DEF IInv, TypeOK
    <3>2. \A k \in 0..N : Canonical(k) \in CanonicalStates
      BY DEF CanonicalStates
    <3>3. \A p \in Phases : p \in 0..N /\ p - 1 \in 0..N
      BY NAssumption DEF Phases
    <3>4. 0 \in 0..N /\ N \in 0..N
      BY NAssumption
    <3> QED BY <3>1, <3>2, <3>3, <3>4 DEF CallOK, CallState, ProgramCounter
  <2> QED BY <2>1, <2>2 DEF StateWellFormed
<1> QED BY <1>1, Invariance, PTL

\* The artifact is written before the state that calls its phase completed,
\* and no stale write, failure or crash ever undoes that (Complete).
THEOREM ArtifactsStayBacked == Spec => []ArtifactBacked
<1>1. IInv => ArtifactBacked
  BY DEF IInv, DiskOK, ArtifactBacked
<1> QED BY <1>1, Invariance, PTL

\* A master plan stands on a full set of artifacts (Finalize).
THEOREM MasterPlanStaysGrounded == Spec => []MasterPlanGrounded
<1>1. IInv => MasterPlanGrounded
  BY NAssumption DEF IInv, DiskOK, HasArtifacts, MasterPlanGrounded, Phases
<1> QED BY <1>1, Invariance, PTL

\* A completed session has its master plan and an AGENTS.md (Finalize).
THEOREM CompletedStaysFinal == Spec => []CompletedIsFinal
<1>1. IInv => CompletedIsFinal
  BY DEF IInv, DiskOK, CompletedIsFinal
<1> QED BY <1>1, Invariance, PTL

\* No implementation prompt refers to a master plan that is not there
\* (Finalize).
THEOREM PromptsStayBehindPlan == Spec => []PromptsFollowPlan
<1>1. IInv => PromptsFollowPlan
  BY DEF IInv
<1> QED BY <1>1, Invariance, PTL

-----------------------------------------------------------------------------
(* Sessions can be carried on *)

\* No two handlers are about to write the state of s, or writing it.
WritesApart(s) ==
  \A c, d \in Calls : AtStateWrite(c, s) /\ AtStateWrite(d, s) => c = d

\* Normalizing settles a state: it neither creates nor completes nor tears
\* a session.
LEMMA SettledFrom ==
  ASSUME NEW st \in DiskStates
  PROVE  /\ NormalizeLegacyState(st) = Absent => st = Absent
         /\ NormalizeLegacyState(st) = Final => st.status = "completed"
         /\ NormalizeLegacyState(st) = Torn => st = Torn
<1>1. /\ Absent.status = "absent" /\ Torn.status = "torn"
      /\ \A k \in 0..N : Canonical(k).status \notin {"absent", "torn", "completed"}
  BY DEF Absent, Torn, Canonical
<1>2. CASE st \in SettledStates
  BY <1>2, SettledStatesFixed, FinalFields
<1>3. ASSUME NEW k \in 0..N, NEW cs \in LegacyStatus \cup {"in_progress"},
             st = LegacyState(k, cs)
      PROVE  NormalizeLegacyState(st) \notin {Absent, Final, Torn}
  BY <1>1, <1>3, LegacyStateSettles, FinalFields DEF CanonicalStates
<1>4. CASE st \in {Absent, Fresh}
  BY <1>2, <1>4, OtherStateTypes, NAssumption DEF SettledStates, CanonicalStates
<1> QED BY <1>2, <1>3, <1>4 DEF DiskStates, LegacyStates

\* The state file of s is there in one piece, or not at all.
Whole(s) == disk[s] # Torn

\* Of a session whose file can be parsed, one of the tools carries on.
LEMMA ReadableCarriesOn ==
  ASSUME IInv, NEW s \in Sessions, Whole(s)
  PROVE  CarriesOn(s)
<1> SUFFICES ASSUME disk[s] # Absent, disk[s].status # "completed"
             PROVE  \E k \in 0..N : OneStepOn(s, k)
  BY DEF CarriesOn
<1>1. PICK k \in 0..N : Load(s) = Canonical(k)
  <2>1. disk[s] \in DiskStates /\ Load(s) \in SettledStates
    BY Loaded DEF IInv, DiskOK
  <2>2. Load(s) \notin {Absent, Final, Torn}
    BY <2>1, SettledFrom DEF Load, Whole
  <2> QED BY <2>1, <2>2 DEF SettledStates, CanonicalStates
<1>2. CASE k < N
  <2>1. k + 1 \in Phases /\ (k + 1) - 1 = k
    BY <1>2, NAssumption DEF Phases
  <2>2. MayComplete(Canonical((k + 1) - 1), k + 1)
    BY <2>1, CanonicalOpen
  <2>3. Completed(Canonical((k + 1) - 1), k + 1) = Canonical(k + 1)
    BY <2>1, CompletedAdvances
  <2> QED BY <1>1, <1>2, <2>1, <2>2, <2>3 DEF OneStepOn
<1>3. CASE k = N
  <2>1. MayFinalize(Canonical(N))
    BY FinalFields DEF MayFinalize, AllCompleted
  <2>2. Finalized(Canonical(N)) = Final
    BY DEF Final
  <2> QED BY <1>1, <1>3, <2>1, <2>2 DEF OneStepOn
<1> QED BY <1>2, <1>3, NAssumption

LEMMA InitWhole ==
  ASSUME Init, NEW s \in Sessions
  PROVE  Whole(s)
<1>1. disk[s].status \in {"absent", "in_progress"}
  BY DEF Init, LegacyStates, LegacyState, Absent, Fresh
<1> QED BY <1>1 DEF Torn, Whole

\* A file is torn by two writes at a time only.
LEMMA NextWhole ==
  ASSUME IInv, NEW s \in Sessions, Whole(s), WritesApart(s), [Next]_vars
  PROVE  Whole(s)'
<1>1. \A n \in 0..N : Canonical(n) # Torn
  BY DEF Canonical, Torn
<1>2. Final # Torn
  BY FinalFields DEF Torn
<1>3. ASSUME NEW c \in Calls, WriteState(c) \/ WriteFinalState(c) PROVE Whole(s)'
  <2>1. CASE call[c].s = s
    <3>1. AtStateWrite(c, s) /\ disk' = [disk EXCEPT ![s] = ToWrite(c)]
      BY <1>3, <2>1 DEF WriteState, WriteFinalState, AtStateWrite, ToWrite
    <3>2. ToWrite(c) # Torn
      BY <1>1, <1>2, <3>1, ToWriteBacked
    <3> QED BY <3>1, <3>2 DEF IInv, TypeOK, Whole
  <2>2. CASE call[c].s # s
    BY <1>3, <2>2 DEF WriteState, WriteFinalState, IInv, TypeOK, Whole
  <2> QED BY <2>1, <2>2
<1>4. ASSUME NEW c \in Calls, NEW d \in Calls, Overlap(c, d) PROVE Whole(s)'
  BY <1>4 DEF Overlap, WritesApart, IInv, TypeOK, Whole
<1>5. CASE disk' = disk
  BY <1>5 DEF Whole
<1> QED
  BY <1>3, <1>4, <1>5
  DEF Next, Issue, Start, Complete, Finalize, Bootstrap, Step, WriteArtifact, StatAgents,
      WriteAgents, WriteMaster, WritePrompt, WriteBootstrap, Fail, Crash, Tick, vars

\* However handlers overlap, fail or die, and whatever an earlier version left:
\* a session whose state no two handlers write at a time is never one that the
\* tools refuse to carry on (normalizeLegacyState, the checks of Complete and
\* Finalize).
THEOREM NeverStuck ==
  ASSUME NEW s \in Sessions
  PROVE  Spec /\ []WritesApart(s) => []CarriesOn(s)
<1>1. Init => IInv /\ Whole(s)
  BY InitInv, InitWhole
<1>2. IInv /\ Whole(s) /\ WritesApart(s) /\ [Next]_vars => IInv' /\ Whole(s)'
  BY NextInv, NextWhole
<1>3. IInv /\ Whole(s) => CarriesOn(s)
  BY ReadableCarriesOn
<1> QED BY <1>1, <1>2, <1>3, PTL DEF Spec

\* If that is so of every session, none is ever a dead end (Complete, Finalize).
THEOREM NoneIsStuck == Spec /\ [](\A s \in Sessions : WritesApart(s)) => []NoDeadEnd
<1> DEFINE AllWhole == \A s \in Sessions : Whole(s)
           Apart == \A s \in Sessions : WritesApart(s)
<1>1. Init => IInv /\ AllWhole
  BY InitInv, InitWhole
<1>2. IInv /\ AllWhole /\ Apart /\ [Next]_vars => IInv' /\ AllWhole'
  BY NextInv, NextWhole
<1>3. IInv /\ AllWhole => NoDeadEnd
  BY ReadableCarriesOn DEF NoDeadEnd
<1> HIDE DEF AllWhole, Apart
<1>4. Spec /\ []Apart => []NoDeadEnd
  BY <1>1, <1>2, <1>3, PTL DEF Spec
<1> QED BY <1>4 DEF Apart

=============================================================================
