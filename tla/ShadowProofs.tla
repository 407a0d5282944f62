---------------------------- MODULE ShadowProofs ----------------------------
(***************************************************************************)
(* What holds of the shadow decisions for any number of workers, policies  *)
(* and requests (Decisions), and of their replay for any number of         *)
(* observations, exporters, directories and mishaps (Replay), with what    *)
(* the rules that both evaluate come to for every fact (ShadowRules).      *)
(***************************************************************************)
EXTENDS Decisions, Replay, FiniteSetTheorems, NaturalsInduction, WellFoundedInduction, TLAPS

(***************************************************************************)
(* Decisions and feedback.                                                 *)
(***************************************************************************)
Count == Cardinality(decisions)

(* Open transactions insert the next revision, and never two of them: the  *)
(* unique constraint makes the second wait.                                *)
OneInserts ==
  /\ \A w \in Worker : latest[w] <= Count
  /\ \A t \in Session : inserted[t] # 0 => inserted[t] = Count + 1
  /\ \A t, u \in Session : t # u /\ inserted[t] # 0 => inserted[u] # inserted[t]
  /\ \A w \in Worker : pc[w] = "commit" <=> inserted[w] # 0
  /\ \A f \in Request : inserted[f] \in {0, 1}

PlacesOK ==
  /\ \A w \in Worker : pc[w] \in {"idle", "check", "revision", "insert", "commit"}
  /\ \A f \in Request :
       pc[f] \in {"new", "anchor", "previous", "insert", "commit", "done", "failed"}

Numbered == IsFiniteSet(decisions) /\ RevisionsAreGapless /\ OneInserts

\* Time does not run backwards.
Clocked == \A f \in Request : created[f] <= clock

IInv == TypeOK /\ PlacesOK /\ Clocked /\ Numbered

(* A worker whose reading is out of date has been overtaken by the anchor. *)
Overtaken ==
  /\ FewConflicts
  /\ conflicts # 0 => decisions # {}
  /\ \A w \in Worker : pc[w] = "insert" /\ latest[w] # Count =>
       latest[w] = 0 /\ Count = 1 /\ conflicts = 0

(* The feedback that f supersedes is the latest of what was committed when *)
(* f read it, and is older than f.                                         *)
Ordered ==
  /\ \A f \in feedback : pc[f] = "done"
  /\ \A f \in Request : supersedes[f] # Nobody => supersedes[f] \in feedback
  /\ \A f \in Request : pc[f] \in {"insert", "commit", "done"} =>
       \A g \in base[f] : /\ supersedes[f] # Nobody
                          /\ created[g] <= created[supersedes[f]]
  /\ \A f \in Request : pc[f] \in {"commit", "done"} /\ supersedes[f] # Nobody =>
       created[supersedes[f]] < created[f]

-----------------------------------------------------------------------------
(* The greatest revision of a gapless history is the number of its         *)
(* decisions.                                                              *)
LEMMA LatestIsCount ==
  ASSUME IsFiniteSet(decisions), RevisionsAreGapless
  PROVE  Count \in Nat /\ LatestRevision = Count /\ (decisions = {} <=> Count = 0)
<1>1. Count \in Nat /\ (decisions = {} <=> Count = 0)
  BY FS_CardinalityType, FS_EmptySet DEF Count
<1>2. CASE decisions = {}
  BY <1>1, <1>2 DEF LatestRevision
<1>3. CASE decisions # {}
  <2>1. Revisions = 1 .. Count
    BY DEF RevisionsAreGapless, Count
  <2>2. Count \in Revisions /\ \A q \in Revisions : q <= Count
    BY <1>1, <1>3, <2>1
  <2>. DEFINE Last(r) == \A q \in Revisions : q <= r
  <2>3. \A r \in Revisions : Last(r) => r = Count
    BY <1>1, <2>1, <2>2
  <2>4. LatestRevision = CHOOSE r \in Revisions : Last(r)
    BY <1>3 DEF LatestRevision
  <2>. QED
    BY <1>1, <2>2, <2>3, <2>4
<1>. QED
  BY <1>2, <1>3

(* A further decision gets the next number.                                *)
LEMMA NextDecision ==
  ASSUME IsFiniteSet(decisions), RevisionsAreGapless, NEW p,
         decisions' = decisions \cup {[revision |-> Count + 1, policy |-> p]}
  PROVE  IsFiniteSet(decisions') /\ RevisionsAreGapless' /\ Count' = Count + 1
<1> DEFINE new == [revision |-> Count + 1, policy |-> p]
<1>1. Count \in Nat /\ Revisions = 1 .. Count
  BY LatestIsCount DEF RevisionsAreGapless, Count
<1>2. new \notin decisions
  <2>1. Count + 1 \notin Revisions
    BY <1>1
  <2>2. ASSUME new \in decisions
        PROVE  new.revision \in Revisions
    <3>1. \A x : x \in decisions => x.revision \in {y.revision : y \in decisions}
      BY Zenon
    <3>. QED
      BY <2>2, <3>1 DEF Revisions
  <2>3. new.revision = Count + 1
    OBVIOUS
  <2>. QED
    BY <2>1, <2>2, <2>3
<1>3. IsFiniteSet(decisions') /\ Count' = Count + 1
  BY <1>2, FS_AddElement DEF Count
<1>4. Revisions' = Revisions \cup {Count + 1}
  <2>1. new.revision = Count + 1
    OBVIOUS
  <2>2. decisions' = decisions \cup {new}
    OBVIOUS
  <2> HIDE DEF new
  <2>3. Revisions' = Revisions \cup {new.revision}
    BY <2>2, Zenon DEF Revisions
  <2>. QED
    BY <2>1, <2>3
<1>5. 1 .. (Count + 1) = (1 .. Count) \cup {Count + 1}
  BY <1>1
<1>. QED
  BY <1>1, <1>3, <1>4, <1>5 DEF RevisionsAreGapless, Count

(* The feedback of a nonempty set that was created last.                   *)
LEMMA LatestExists ==
  ASSUME NEW S \in SUBSET Request, S # {},
         clock \in Nat, created \in [Request -> Nat], \A f \in Request : created[f] <= clock
  PROVE  Latest(S) \in S /\ \A g \in S : created[g] <= created[Latest(S)]
<1> DEFINE Ages == {clock - created[f] : f \in S}
<1>1. Ages \subseteq Nat /\ Ages # {}
  OBVIOUS
<1> DEFINE Below == {m \in Nat \X Nat : m[1] < m[2]}
<1>2. PICK age \in Ages : \A n \in Ages : age <= n
  <2>1. IsWellFoundedOn(Below, Nat)
    BY NatLessThanWellFounded DEF OpToRel
  <2>2. PICK age \in Ages : \A n \in Ages : <<n, age>> \notin Below
    BY <1>1, <2>1, WFMin
  <2>3. \A n \in Ages : ~ (n < age)
    BY <1>1, <2>2
  <2> HIDE DEF Ages
  <2>. QED
    BY <1>1, <2>3
<1>3. PICK f \in S : age = clock - created[f]
  BY <1>2
<1>4. ASSUME NEW g \in S
      PROVE  created[g] <= created[f]
  <2>1. clock - created[f] <= clock - created[g]
    BY <1>2, <1>3
  <2>2. clock \in Nat /\ created[f] \in Nat /\ created[g] \in Nat
    OBVIOUS
  <2>. QED
    BY <2>1, <2>2
<1>. QED
  BY <1>4 DEF Latest

(* The first history is empty.                                             *)
LEMMA IInvInit == Init => IInv
<1> SUFFICES ASSUME Init
             PROVE  IInv
  OBVIOUS
<1>1. decisions = {} /\ Count = 0 /\ IsFiniteSet(decisions)
  BY FS_EmptySet DEF Init, Count
<1>2. RevisionsAreGapless
  BY <1>1 DEF RevisionsAreGapless, Revisions, Count
<1>3. TypeOK
  BY DecisionsAssumption DEF Init, TypeOK, Session, Clocked
<1>4. PlacesOK /\ OneInserts
  BY <1>1, DecisionsAssumption DEF Init, PlacesOK, OneInserts, Session, Clocked
<1>. QED
  BY <1>1, <1>2, <1>3, <1>4 DEF IInv, Numbered, Clocked, Init

(* The end of a transaction that leaves the decisions as they are.         *)
LEMMA EndKeepsOrder ==
  ASSUME IInv, NEW t \in Session, NEW s, End(t, s),
         t \in Worker => s = "idle", t \in Request => s \in {"done", "failed"},
         UNCHANGED <<decisions, latest>>
  PROVE  /\ PlacesOK' /\ Numbered'
         /\ pc' \in [Session -> {"idle", "check", "revision", "insert", "commit",
                                 "new", "anchor", "previous", "done", "failed"}]
         /\ inserted' \in [Session -> Nat]
         /\ holder' \in Worker \cup {Nobody}
         /\ \A w \in Worker : pc'[w] # "idle" <=> holder' = w
<1>1. /\ pc' = [pc EXCEPT ![t] = s] /\ inserted' = [inserted EXCEPT ![t] = 0]
      /\ holder' = IF holder = t THEN Nobody ELSE holder
  BY DEF End, Goto
<1>2. Count' = Count /\ Count \in Nat /\ RevisionsAreGapless' /\ IsFiniteSet(decisions')
  BY LatestIsCount DEF IInv, Numbered, RevisionsAreGapless, Revisions, Count
<1>3. PlacesOK'
  BY <1>1, DecisionsAssumption DEF IInv, TypeOK, PlacesOK, Session, Clocked
<1>4. OneInserts'
  BY <1>1, <1>2, DecisionsAssumption DEF IInv, TypeOK, Numbered, OneInserts, Session, Clocked
<1>. QED
  BY <1>1, <1>2, <1>3, <1>4, DecisionsAssumption DEF IInv, TypeOK, Session, Numbered

(* The invariant is kept by every step of a handler and of a request.      *)
LEMMA IInvStep == IInv /\ [Next]_vars => IInv'
<1> SUFFICES ASSUME IInv, [Next]_vars
             PROVE  IInv'
  OBVIOUS
<1> USE DecisionsAssumption
<1>a. /\ Count \in Nat /\ LatestRevision = Count /\ (decisions = {} <=> Count = 0)
      /\ Revisions = 1 .. Count
  BY LatestIsCount DEF IInv, Numbered, RevisionsAreGapless, Count
<1>b. ASSUME UNCHANGED decisions
      PROVE  Count' = Count /\ RevisionsAreGapless' /\ IsFiniteSet(decisions')
  BY <1>b DEF IInv, Numbered, RevisionsAreGapless, Revisions, Count
<1>1. ASSUME NEW w \in Worker, LockObservation(w)
      PROVE  IInv'
  BY <1>1, <1>a, <1>b
     DEF LockObservation, Unlocked, Goto, ui, IInv, TypeOK, PlacesOK, Numbered, OneInserts, Session, Clocked
<1>2. ASSUME NEW w \in Worker, FindDecision(w)
      PROVE  IInv'
  BY <1>2, EndKeepsOrder DEF FindDecision, ui, IInv, TypeOK, Session, Clocked
<1>3. ASSUME NEW w \in Worker, FindNoDecision(w)
      PROVE  IInv'
  BY <1>3, <1>a, <1>b
     DEF FindNoDecision, Goto, shadow, ui, IInv, TypeOK, PlacesOK, Numbered, OneInserts, Session, Clocked
<1>4. ASSUME NEW w \in Worker, ReadRevision(w)
      PROVE  IInv'
  BY <1>4, <1>a, <1>b
     DEF ReadRevision, Goto, shadow, ui, IInv, TypeOK, PlacesOK, Numbered, OneInserts, Session, Clocked
<1>5. ASSUME NEW w \in Worker, InsertDecision(w)
      PROVE  IInv'
  <2>1. latest[w] + 1 = Count + 1
    BY <1>5, <1>a DEF InsertDecision, Taken, IInv, TypeOK, Numbered, OneInserts, Session, Clocked
  <2>2. \A u \in Session \ {w} : inserted[u] # Count + 1
    BY <1>5, <2>1 DEF InsertDecision, Awaited
  <2>3. /\ inserted' = [inserted EXCEPT ![w] = Count + 1]
        /\ pc' = [pc EXCEPT ![w] = "commit"] /\ pc[w] = "insert"
        /\ UNCHANGED <<decisions, shadow, latest, ui, faults>>
    BY <1>5, <2>1 DEF InsertDecision, Goto
  <2>4. TypeOK' /\ PlacesOK' /\ Clocked'
    BY <1>a, <2>3 DEF shadow, ui, IInv, TypeOK, PlacesOK, Session, Clocked
  <2>5. OneInserts'
    BY <1>a, <1>b, <2>2, <2>3 DEF IInv, TypeOK, Numbered, OneInserts, Session, Clocked
  <2>. QED
    BY <1>b, <2>3, <2>4, <2>5 DEF IInv, Numbered
<1>6. ASSUME NEW w \in Worker, RevisionConflict(w)
      PROVE  IInv'
  BY <1>6, EndKeepsOrder DEF RevisionConflict, ui, IInv, TypeOK, Session, Clocked
<1>7. ASSUME NEW w \in Worker, CommitDecision(w)
      PROVE  IInv'
  <2>1. /\ pc[w] = "commit" /\ End(w, "idle") /\ inserted[w] = Count + 1
        /\ UNCHANGED <<conflicts, latest, ui, faults>>
    BY <1>7 DEF CommitDecision, IInv, Numbered, OneInserts, Session, Clocked
  <2>2. CASE UNCHANGED <<decisions, outbox>>
    BY <2>1, <2>2, EndKeepsOrder DEF ui, IInv, TypeOK, Session, Clocked
  <2>3. CASE /\ decisions' = decisions \cup {[revision |-> inserted[w], policy |-> policyOf[w]]}
             /\ outbox' = outbox \cup {policyOf[w]}
    <3>1. IsFiniteSet(decisions') /\ RevisionsAreGapless' /\ Count' = Count + 1
      BY <2>1, <2>3, NextDecision DEF IInv, Numbered
    <3>2. /\ pc' = [pc EXCEPT ![w] = "idle"] /\ inserted' = [inserted EXCEPT ![w] = 0]
          /\ holder' = Nobody
      BY <2>1 DEF End, Goto, IInv, TypeOK
    <3>3. PlacesOK'
      BY <3>2 DEF IInv, TypeOK, PlacesOK, Session, Clocked
    <3>4. \A t \in Session : inserted'[t] = 0
      BY <2>1, <3>2 DEF IInv, TypeOK, Numbered, OneInserts, Session, Clocked
    <3>5. OneInserts'
      <4>1. \A v \in Worker : latest'[v] <= Count'
        BY <1>a, <2>1, <3>1 DEF IInv, TypeOK, Numbered, OneInserts, Session, Clocked
      <4>2. \A v \in Worker : pc'[v] # "commit"
        BY <3>2, <2>1 DEF IInv, TypeOK, Numbered, OneInserts, Session, Clocked
      <4>. QED
        BY <3>4, <4>1, <4>2 DEF OneInserts, Session, Clocked
    <3>6. decisions' \subseteq [revision : Nat \ {0}, policy : Policy \cup {Anchor}]
      BY <1>a, <2>1, <2>3 DEF IInv, TypeOK
    <3>7. TypeOK' /\ Clocked'
      BY <2>1, <2>3, <3>2, <3>6 DEF ui, IInv, TypeOK, Session, Clocked
    <3>. QED
      BY <3>1, <3>3, <3>5, <3>7 DEF IInv, Numbered
  <2>. QED
    BY <1>7, <2>2, <2>3 DEF CommitDecision, StoreEvent
<1>8. ASSUME NEW f \in Request, BeginFeedback(f)
      PROVE  IInv'
  BY <1>8, <1>a, <1>b
     DEF BeginFeedback, Goto, shadow, IInv, TypeOK, PlacesOK, Numbered, OneInserts, Session, Clocked
<1>9. ASSUME NEW f \in Request, InsertAnchor(f)
      PROVE  IInv'
  <2>1. Count = 0
    BY <1>9, <1>a DEF InsertAnchor, Taken
  <2>2. \A u \in Session \ {f} : inserted[u] # 1
    BY <1>9 DEF InsertAnchor, Awaited
  <2>. QED
    BY <1>9, <1>b, <2>1, <2>2
       DEF InsertAnchor, Goto, shadow, ui, IInv, TypeOK, PlacesOK, Numbered, OneInserts, Session, Clocked
<1>10. ASSUME NEW f \in Request, AnchorConflict(f)
       PROVE  IInv'
  BY <1>10, EndKeepsOrder DEF AnchorConflict, ui, IInv, TypeOK, Session, Clocked
<1>11. ASSUME NEW f \in Request, ReadPrevious(f)
       PROVE  IInv'
  <2>1. Latest(feedback) \in Request \cup {Nobody}
    BY LatestExists DEF IInv, TypeOK, Clocked, Latest
  <2>. QED
    BY <1>11, <1>a, <1>b, <2>1
       DEF ReadPrevious, Goto, shadow, IInv, TypeOK, PlacesOK, Numbered, OneInserts, Session, Clocked
<1>12. ASSUME NEW f \in Request, InsertFeedback(f)
       PROVE  IInv'
  BY <1>12, <1>a, <1>b
     DEF InsertFeedback, Goto, shadow, IInv, TypeOK, PlacesOK, Numbered, OneInserts, Session, Clocked
<1>13. ASSUME NEW f \in Request, CommitFeedback(f)
       PROVE  IInv'
  <2>1. /\ pc[f] = "commit" /\ End(f, "done") /\ feedback' = feedback \cup {f}
        /\ UNCHANGED <<outbox, conflicts, latest, supersedes, created, clock, base, faults>>
    BY <1>13 DEF CommitFeedback
  <2>2. \A g \in Request : base'[g] \subseteq feedback'
    BY <2>1 DEF IInv, TypeOK
  <2>3. CASE UNCHANGED decisions
    BY <2>1, <2>2, <2>3, EndKeepsOrder DEF IInv, TypeOK, Session, Clocked
  <2>4. CASE inserted[f] # 0 /\ decisions' = decisions \cup {[revision |-> 1, policy |-> Anchor]}
    <3>1. inserted[f] = 1 /\ Count = 0
      BY <1>a, <2>4 DEF IInv, TypeOK, Numbered, OneInserts, Session
    <3>2. IsFiniteSet(decisions') /\ RevisionsAreGapless' /\ Count' = 1
      <4>1. 1 = Count + 1
        BY <3>1
      <4>2. decisions' = decisions \cup {[revision |-> Count + 1, policy |-> Anchor]}
        BY <2>4, <4>1
      <4>. QED
        BY <4>1, <4>2, NextDecision DEF IInv, Numbered
    <3>3. /\ pc' = [pc EXCEPT ![f] = "done"] /\ inserted' = [inserted EXCEPT ![f] = 0]
          /\ holder' = holder
      BY <2>1 DEF End, Goto, IInv, TypeOK
    <3>4. \A t \in Session : inserted'[t] = 0
      BY <3>1, <3>3 DEF IInv, TypeOK, Numbered, OneInserts, Session
    <3>5. \A w \in Worker : latest'[w] <= Count' /\ pc'[w] # "commit"
      BY <2>1, <3>1, <3>2, <3>3, <3>4 DEF IInv, TypeOK, Numbered, OneInserts, Session
    <3>6. OneInserts'
      BY <3>4, <3>5 DEF OneInserts, Session
    <3>7. TypeOK' /\ PlacesOK' /\ Clocked'
      BY <2>1, <2>2, <2>4, <3>3 DEF IInv, TypeOK, PlacesOK, Session, Clocked
    <3>. QED
      BY <3>2, <3>6, <3>7 DEF IInv, Numbered
  <2>. QED
    BY <1>13, <2>3, <2>4 DEF CommitFeedback
<1>14. ASSUME NEW t \in Session, Crash(t)
       PROVE  IInv'
  BY <1>14, EndKeepsOrder DEF Crash, ui, IInv, TypeOK, Session, Clocked
<1>15. CASE UNCHANGED vars
  BY <1>15, <1>a, <1>b
     DEF vars, shadow, ui, IInv, TypeOK, PlacesOK, Numbered, OneInserts, Session, Clocked
<1>. QED
  BY <1>1, <1>2, <1>3, <1>4, <1>5, <1>6, <1>7, <1>8, <1>9, <1>10, <1>11, <1>12, <1>13,
     <1>14, <1>15 DEF Next, Handle, Respond

(* Type correctness, and the numbering of the decisions.                   *)
THEOREM TypeCorrect == Spec => []TypeOK
<1>1. Spec => []IInv
  BY IInvInit, IInvStep, PTL DEF Spec
<1>2. IInv => TypeOK
  BY DEF IInv
<1>. QED
  BY <1>1, <1>2, PTL

(* Whoever inserts decisions, their numbers have no gap and no repetition. *)
THEOREM Gapless == Spec => []RevisionsAreGapless
<1>1. Spec => []IInv
  BY IInvInit, IInvStep, PTL DEF Spec
<1>2. IInv => RevisionsAreGapless
  BY DEF IInv, Numbered
<1>. QED
  BY <1>1, <1>2, PTL

-----------------------------------------------------------------------------
(* A step either leaves the decisions alone or adds one, with its event,   *)
(* under a policy that had none.                                           *)
LEMMA DecidedStep ==
  IInv /\ DecidedOnceWithEvent /\ [Next]_vars => DecidedOnceWithEvent'
<1> SUFFICES ASSUME IInv, DecidedOnceWithEvent, [Next]_vars
             PROVE  DecidedOnceWithEvent'
  OBVIOUS
<1> USE DecisionsAssumption
<1>1. CASE UNCHANGED <<decisions, outbox>>
  BY <1>1 DEF DecidedOnceWithEvent, DecisionsUnder
<1>2. ASSUME NEW w \in Worker, CommitDecision(w)
      PROVE  DecidedOnceWithEvent'
  <2>1. policyOf[w] # Anchor
    OBVIOUS
  <2>2. CASE UNCHANGED <<decisions, outbox>>
    BY <1>1, <2>2
  <2>3. CASE /\ policyOf[w] \notin outbox
             /\ decisions' = decisions \cup {[revision |-> inserted[w], policy |-> policyOf[w]]}
             /\ outbox' = outbox \cup {policyOf[w]}
    <3> DEFINE new == [revision |-> inserted[w], policy |-> policyOf[w]]
    <3>1. new.policy = policyOf[w] /\ decisions' = decisions \cup {new}
      BY <2>3
    <3> HIDE DEF new
    <3>2. \A d \in decisions : d.policy # policyOf[w]
      BY <2>1, <2>3 DEF DecidedOnceWithEvent
    <3>3. outbox' = {d.policy : d \in decisions'} \ {Anchor}
      <4>1. {d.policy : d \in decisions'} = {d.policy : d \in decisions} \cup {new.policy}
        BY <3>1, Zenon
      <4>. QED
        BY <2>1, <2>3, <3>1, <4>1 DEF DecidedOnceWithEvent
    <3>4. \A d, e \in decisions' : d.policy = e.policy => d = e
      BY <3>1, <3>2 DEF DecidedOnceWithEvent
    <3>5. \A d \in decisions' : d.policy = Anchor => d.revision = 1
      BY <2>1, <3>1 DEF DecidedOnceWithEvent, DecisionsUnder
    <3>. QED
      BY <3>3, <3>4, <3>5 DEF DecidedOnceWithEvent, DecisionsUnder
  <2>. QED
    BY <1>2, <2>2, <2>3 DEF CommitDecision, StoreEvent
<1>3. ASSUME NEW f \in Request, CommitFeedback(f)
      PROVE  DecidedOnceWithEvent'
  <2>1. CASE inserted[f] = 0
    BY <1>1, <1>3, <2>1 DEF CommitFeedback
  <2>2. CASE inserted[f] # 0
    <3> DEFINE anchor == [revision |-> 1, policy |-> Anchor]
    <3>1. decisions = {}
      <4>1. inserted[f] = 1 /\ inserted[f] = Count + 1
        BY <2>2 DEF IInv, Numbered, OneInserts, Session
      <4>. QED
        BY <4>1, LatestIsCount DEF IInv, Numbered
    <3>2. decisions' = {anchor} /\ outbox' = outbox /\ outbox = {}
      BY <1>3, <2>2, <3>1 DEF CommitFeedback, DecidedOnceWithEvent
    <3>3. anchor.policy = Anchor /\ anchor.revision = 1
      OBVIOUS
    <3> HIDE DEF anchor
    <3>4. {d.policy : d \in decisions'} = {Anchor}
      BY <3>2, <3>3
    <3>. QED
      BY <3>2, <3>3, <3>4 DEF DecidedOnceWithEvent, DecisionsUnder
  <2>. QED
    BY <2>1, <2>2
<1>. QED
  BY <1>1, <1>2, <1>3
     DEF Next, Handle, Respond, LockObservation, FindDecision, FindNoDecision, ReadRevision,
         InsertDecision, RevisionConflict, BeginFeedback, InsertAnchor, AnchorConflict,
         ReadPrevious, InsertFeedback, Crash, vars, shadow

(* Any number of workers decide an observation once under each policy,     *)
(* announce exactly what they have decided, and never after the anchor     *)
(* has been taken for a decision.                                          *)
THEOREM DecidedOnce == Spec => []DecidedOnceWithEvent
<1>1. Init => DecidedOnceWithEvent
  BY DEF Init, DecidedOnceWithEvent, DecisionsUnder
<1>2. Spec => []IInv
  BY IInvInit, IInvStep, PTL DEF Spec
<1>. QED
  BY <1>1, <1>2, DecidedStep, PTL DEF Spec

(* So the history of an observation is complete, and all of it announced.  *)
THEOREM SoundHistory == Spec => []HistoryIsSound
<1>. QED
  BY Gapless, DecidedOnce, PTL DEF HistoryIsSound

-----------------------------------------------------------------------------
(* What a transaction read stays in the table, and what overtakes it comes *)
(* later.                                                                  *)
LEMMA OvertakenStep == IInv /\ Overtaken /\ [Next]_vars => Overtaken'
<1> SUFFICES ASSUME IInv, Overtaken, [Next]_vars
             PROVE  Overtaken'
  OBVIOUS
<1> USE DecisionsAssumption
<1>a. /\ Count \in Nat /\ LatestRevision = Count /\ (decisions = {} <=> Count = 0)
      /\ Revisions = 1 .. Count
  BY LatestIsCount DEF IInv, Numbered, RevisionsAreGapless, Count
<1>b. ASSUME UNCHANGED decisions
      PROVE  Count' = Count
  BY <1>b DEF Count
<1>1. ASSUME UNCHANGED <<decisions, conflicts, latest>>,
             \A w \in Worker : pc'[w] = "insert" => pc[w] = "insert"
      PROVE  Overtaken'
  BY <1>1, <1>b DEF Overtaken, FewConflicts
<1>2. ASSUME NEW w \in Worker, ReadRevision(w)
      PROVE  Overtaken'
  BY <1>2, <1>a, <1>b
     DEF ReadRevision, Goto, shadow, IInv, TypeOK, Session, Overtaken, FewConflicts
<1>3. ASSUME NEW w \in Worker, RevisionConflict(w)
      PROVE  Overtaken'
  <2>1. /\ pc[w] = "insert" /\ latest[w] # Count /\ Count \in Nat
        /\ conflicts' = conflicts + 1 /\ pc' = [pc EXCEPT ![w] = "idle"]
        /\ UNCHANGED <<decisions, latest>>
    BY <1>3, <1>a DEF RevisionConflict, End, Goto, Taken, IInv, TypeOK, Session
  <2>2. conflicts = 0 /\ Count = 1
    BY <2>1 DEF Overtaken
  <2>3. \A v \in Worker : pc'[v] = "idle"
    BY <2>1 DEF IInv, TypeOK, Session
  <2>. QED
    BY <1>a, <1>b, <2>1, <2>2, <2>3 DEF Overtaken, FewConflicts
<1>4. ASSUME NEW w \in Worker, CommitDecision(w)
      PROVE  Overtaken'
  <2>1. /\ pc[w] = "commit" /\ pc' = [pc EXCEPT ![w] = "idle"]
        /\ UNCHANGED <<conflicts, latest>> /\ decisions \subseteq decisions'
    BY <1>4 DEF CommitDecision, End, Goto
  <2>2. \A v \in Worker : pc'[v] = "idle"
    BY <2>1 DEF IInv, TypeOK, Session
  <2>. QED
    BY <2>1, <2>2 DEF Overtaken, FewConflicts
<1>5. ASSUME NEW f \in Request, CommitFeedback(f)
      PROVE  Overtaken'
  <2>1. /\ pc' = [pc EXCEPT ![f] = "done"]
        /\ UNCHANGED <<conflicts, latest>>
    BY <1>5 DEF CommitFeedback, End, Goto
  <2>2. \A w \in Worker : pc'[w] = pc[w]
    BY <2>1 DEF IInv, TypeOK, Session
  <2>3. CASE inserted[f] = 0
    BY <1>1, <1>5, <2>1, <2>2, <2>3 DEF CommitFeedback
  <2>4. CASE inserted[f] # 0
    <3>1. inserted[f] = 1 /\ Count = 0
      BY <1>a, <2>4 DEF IInv, TypeOK, Numbered, OneInserts, Session
    <3>2. decisions' = decisions \cup {[revision |-> Count + 1, policy |-> Anchor]}
      <4>1. 1 = Count + 1
        BY <3>1
      <4>. QED
        BY <1>5, <2>4, <4>1 DEF CommitFeedback
    <3>3. Count' = 1
      BY <3>1, <3>2, NextDecision DEF IInv, Numbered
    <3>4. conflicts = 0 /\ \A w \in Worker : latest[w] = 0
      BY <1>a, <3>1 DEF Overtaken, IInv, TypeOK, Numbered, OneInserts, Session
    <3>. QED
      BY <2>1, <3>3, <3>4 DEF Overtaken, FewConflicts
  <2>. QED
    BY <2>3, <2>4
<1>6. ASSUME NEW f \in Request, BeginFeedback(f) \/ InsertAnchor(f)
      PROVE  Overtaken'
  <2>1. \A w \in Worker : pc'[w] = pc[w] /\ latest'[w] = latest[w]
    BY <1>6 DEF BeginFeedback, InsertAnchor, Goto, IInv, TypeOK, Session
  <2>. QED
    BY <1>6, <1>b, <2>1 DEF BeginFeedback, InsertAnchor, shadow, Overtaken, FewConflicts
<1>7. ASSUME NEW t \in Session, NEW s, s # "insert" \/ t \in Request,
             pc' = [pc EXCEPT ![t] = s], UNCHANGED <<decisions, conflicts, latest>>
      PROVE  Overtaken'
  BY <1>1, <1>7 DEF IInv, TypeOK, Session
<1>8. ASSUME NEW w \in Worker,
             \/ LockObservation(w) \/ FindDecision(w) \/ FindNoDecision(w) \/ InsertDecision(w)
      PROVE  Overtaken'
  BY <1>7, <1>8 DEF LockObservation, FindDecision, FindNoDecision, InsertDecision, End, Goto,
                    shadow, Session
<1>9. ASSUME NEW f \in Request, AnchorConflict(f) \/ ReadPrevious(f) \/ InsertFeedback(f)
      PROVE  Overtaken'
  BY <1>7, <1>9 DEF AnchorConflict, ReadPrevious, InsertFeedback, End, Goto, shadow, Session
<1>10. ASSUME NEW t \in Session, Crash(t)
       PROVE  Overtaken'
  BY <1>7, <1>10 DEF Crash, End, Goto
<1>11. CASE UNCHANGED vars
  BY <1>1, <1>11 DEF vars, shadow
<1>. QED
  BY <1>2, <1>3, <1>4, <1>5, <1>6, <1>8, <1>9, <1>10, <1>11 DEF Next, Handle, Respond

(* A handler collides with the anchor at most, and with that only once:    *)
(* with two deliveries or more, no event is dead-lettered for it.          *)
THEOREM OneConflict == Spec => []FewConflicts
<1>1. Init => Overtaken
  BY DEF Init, Overtaken, FewConflicts, Session
<1>2. Spec => []IInv
  BY IInvInit, IInvStep, PTL DEF Spec
<1>3. Spec => []Overtaken
  BY <1>1, <1>2, OvertakenStep, PTL DEF Spec
<1>4. Overtaken => FewConflicts
  BY DEF Overtaken
<1>. QED
  BY <1>3, <1>4, PTL
-----------------------------------------------------------------------------
(* Feedback supersedes what was created before it.                         *)
LEMMA OrderedStep == IInv /\ Ordered /\ [Next]_vars => Ordered'
<1> SUFFICES ASSUME IInv, Ordered, [Next]_vars
             PROVE  Ordered'
  OBVIOUS
<1> USE DecisionsAssumption
(* Steps that neither commit feedback nor change what is known of it.      *)
<1>1. ASSUME NEW t \in Session, NEW s, pc' = [pc EXCEPT ![t] = s],
             UNCHANGED <<feedback, supersedes, created, clock, base>>,
             t \in Request => s \in {"anchor", "previous", "failed"} /\ pc[t] # "done"
      PROVE  Ordered'
  BY <1>1 DEF Ordered, IInv, TypeOK, Session
<1>2. ASSUME NEW w \in Worker, LockObservation(w) \/ Handle(w)
      PROVE  Ordered'
  <2>1. \E s : pc' = [pc EXCEPT ![w] = s]
    BY <1>2 DEF LockObservation, Handle, FindDecision, FindNoDecision, ReadRevision,
                InsertDecision, RevisionConflict, CommitDecision, End, Goto
  <2>2. UNCHANGED <<feedback, supersedes, created, clock, base>>
    BY <1>2 DEF LockObservation, Handle, FindDecision, FindNoDecision, ReadRevision,
                InsertDecision, RevisionConflict, CommitDecision, ui
  <2>. QED
    BY <1>1, <2>1, <2>2 DEF Session
<1>3. ASSUME NEW f \in Request, BeginFeedback(f)
      PROVE  Ordered'
  <2>1. /\ pc[f] = "new" /\ base' = [base EXCEPT ![f] = feedback]
        /\ UNCHANGED <<feedback, supersedes, created, clock>>
        /\ \/ pc' = [pc EXCEPT ![f] = "anchor"]
           \/ pc' = [pc EXCEPT ![f] = "previous"]
    BY <1>3 DEF BeginFeedback, Goto
  <2>. QED
    BY <2>1 DEF Ordered, IInv, TypeOK, Session
<1>4. ASSUME NEW f \in Request, InsertAnchor(f) \/ AnchorConflict(f)
      PROVE  Ordered'
  BY <1>1, <1>4 DEF InsertAnchor, AnchorConflict, End, Goto, ui, Session
<1>5. ASSUME NEW f \in Request, ReadPrevious(f)
      PROVE  Ordered'
  <2>1. /\ pc[f] = "previous" /\ pc' = [pc EXCEPT ![f] = "insert"]
        /\ supersedes' = [supersedes EXCEPT ![f] = Latest(feedback)]
        /\ UNCHANGED <<feedback, created, clock, base>>
    BY <1>5 DEF ReadPrevious, Goto
  <2>2. IF feedback = {} THEN Latest(feedback) = Nobody
        ELSE /\ Latest(feedback) \in feedback
             /\ \A g \in feedback : created[g] <= created[Latest(feedback)]
    BY LatestExists DEF IInv, TypeOK, Clocked, Latest
  <2>3. base[f] \subseteq feedback /\ feedback \subseteq Request /\ Nobody \notin Request
    BY DEF IInv, TypeOK
  <2>4. \A g \in base[f] : /\ supersedes'[f] # Nobody
                           /\ created[g] <= created[supersedes'[f]]
    BY <2>1, <2>2, <2>3 DEF IInv, TypeOK
  <2>5. \A h \in Request : supersedes'[h] # Nobody => supersedes'[h] \in feedback
    BY <2>1, <2>2 DEF Ordered, IInv, TypeOK
  <2>. QED
    BY <2>1, <2>4, <2>5 DEF Ordered, IInv, TypeOK, Session
<1>6. ASSUME NEW f \in Request, InsertFeedback(f)
      PROVE  Ordered'
  <2>1. /\ pc[f] = "insert" /\ pc' = [pc EXCEPT ![f] = "commit"]
        /\ clock' = clock + 1 /\ created' = [created EXCEPT ![f] = clock + 1]
        /\ UNCHANGED <<feedback, supersedes, base>>
    BY <1>6 DEF InsertFeedback, Goto
  <2>2. f \notin feedback /\ feedback \subseteq Request
    BY <2>1 DEF Ordered, IInv, TypeOK
  <2>3. \A g \in feedback : created'[g] = created[g] /\ created[g] <= clock /\ clock \in Nat
                            /\ created[g] \in Nat
    BY <2>1, <2>2 DEF IInv, TypeOK, Clocked
  <2>4. \A h \in Request : base[h] \subseteq feedback
    BY DEF IInv, TypeOK
  <2>5. created'[f] = clock + 1
    BY <2>1 DEF IInv, TypeOK
  <2>6. \A h \in Request : supersedes[h] # Nobody => supersedes[h] \in feedback
    BY DEF Ordered
  <2>7. \A g \in feedback : pc'[g] = "done"
    BY <2>1, <2>2 DEF Ordered, IInv, TypeOK, Session
  <2>8. \A h \in Request : pc'[h] \in {"insert", "commit", "done"} =>
          \A g \in base[h] : supersedes[h] # Nobody /\ created'[g] <= created'[supersedes[h]]
    BY <2>1, <2>3, <2>4, <2>6 DEF Ordered, IInv, TypeOK, Session
  <2>9. \A h \in Request : pc'[h] \in {"commit", "done"} /\ supersedes[h] # Nobody =>
          created'[supersedes[h]] < created'[h]
    <3>1. \A h \in Request \ {f} : pc'[h] = pc[h] /\ created'[h] = created[h]
      BY <2>1 DEF IInv, TypeOK, Session
    <3>. QED
      BY <2>3, <2>5, <2>6, <3>1 DEF Ordered
  <2>. QED
    BY <2>1, <2>6, <2>7, <2>8, <2>9 DEF Ordered
<1>7. ASSUME NEW f \in Request, CommitFeedback(f)
      PROVE  Ordered'
  <2>1. /\ pc[f] = "commit" /\ pc' = [pc EXCEPT ![f] = "done"]
        /\ feedback' = feedback \cup {f}
        /\ UNCHANGED <<supersedes, created, clock, base>>
    BY <1>7 DEF CommitFeedback, End, Goto
  <2>. QED
    BY <2>1 DEF Ordered, IInv, TypeOK, Session
<1>8. ASSUME NEW t \in Session, Crash(t)
      PROVE  Ordered'
  <2>1. pc' = [pc EXCEPT ![t] = IF t \in Worker THEN "idle" ELSE "failed"] /\ pc[t] # "done"
    BY <1>8 DEF Crash, End, Goto
  <2>2. t \in Request => t \notin Worker
    OBVIOUS
  <2>. QED
    BY <1>1, <1>8, <2>1, <2>2 DEF Crash, ui
<1>9. CASE UNCHANGED vars
  BY <1>9 DEF vars, ui, Ordered
<1>. QED
  BY <1>2, <1>3, <1>4, <1>5, <1>6, <1>7, <1>8, <1>9 DEF Next, Respond

(* However many requests there are: of two rows of feedback that supersede *)
(* the same one, neither was committed when the other's request began.     *)
THEOREM Forks == Spec => []ForksOverlap
<1>1. Init => Ordered
  BY DecisionsAssumption DEF Init, Ordered, Session
<1>2. Spec => []IInv
  BY IInvInit, IInvStep, PTL DEF Spec
<1>3. Spec => []Ordered
  BY <1>1, <1>2, OrderedStep, PTL DEF Spec
<1>4. IInv /\ Ordered => ForksOverlap
  <2> SUFFICES ASSUME IInv, Ordered, NEW f \in feedback, NEW g \in feedback, g \in base[f]
               PROVE  supersedes[f] # supersedes[g]
    BY DEF ForksOverlap
  <2>1. /\ f \in Request /\ g \in Request /\ pc[f] = "done" /\ pc[g] = "done"
        /\ created \in [Request -> Nat]
    BY DEF IInv, TypeOK, Ordered
  <2>2. /\ supersedes[f] # Nobody /\ supersedes[f] \in Request
        /\ created[g] <= created[supersedes[f]]
    BY <2>1 DEF IInv, TypeOK, Ordered
  <2>3. supersedes[g] = supersedes[f] => created[supersedes[f]] < created[g]
    BY <2>1, <2>2 DEF Ordered
  <2>. QED
    BY <2>1, <2>2, <2>3
<1>. QED
  BY <1>2, <1>3, <1>4, PTL

(***************************************************************************)
(* Rules, exports and replay.                                              *)
(***************************************************************************)
(* The canonical order is a strict order, and total on observations since  *)
(* their ids differ.                                                       *)
LEMMA BeforeIsAnOrder ==
  /\ \A o \in ReplayEvent : ~ Before(o, o)
  /\ \A o, p, q \in ReplayEvent : Before(o, p) /\ Before(p, q) => Before(o, q)
  /\ \A o, p \in Observation : o = p \/ Before(o, p) \/ Before(p, o)
<1>1. \A o \in ReplayEvent : o.id \in Nat /\ o.occurred \in Nat /\ o.observed \in Nat
  BY DEF ReplayEvent
<1>2. Observation \subseteq ReplayEvent /\ \A o, p \in Observation : o.id = p.id => o = p
  BY ReplayAssumption
<1>. QED
  BY <1>1, <1>2 DEF Before

(* Sorted lists a set of observations once each, in canonical order: an    *)
(* element's place is the number of those before it, and no two elements   *)
(* have the same number.                                                   *)
LEMMA SortedLists ==
  ASSUME NEW S \in SUBSET Observation, IsFiniteSet(S)
  PROVE  /\ Cardinality(S) \in Nat
         /\ Sorted(S) \in [1 .. Cardinality(S) -> S]
         /\ \A i, j \in 1 .. Cardinality(S) : i < j => Before(Sorted(S)[i], Sorted(S)[j])
         /\ \A o \in S : \E i \in 1 .. Cardinality(S) : Sorted(S)[i] = o
<1> DEFINE n == Cardinality(S)
           Earlier(o) == {p \in S : Before(p, o)}
           Place == [o \in S |-> Cardinality(Earlier(o)) + 1]
<1>1. n \in Nat
  BY FS_CardinalityType
<1>2. \A o \in S : IsFiniteSet(Earlier(o)) /\ Cardinality(Earlier(o)) \in Nat
  <2> TAKE o \in S
  <2>1. Earlier(o) \in SUBSET S
    OBVIOUS
  <2>. QED
    BY <2>1, FS_Subset, FS_CardinalityType
<1>3. S \subseteq Observation /\ S \subseteq ReplayEvent
  BY ReplayAssumption
<1>4. ASSUME NEW T \in SUBSET S, NEW U \in SUBSET T, NEW o \in T, o \notin U
      PROVE  Cardinality(U) < Cardinality(T)
  <2>1. IsFiniteSet(T) /\ IsFiniteSet(U) /\ Cardinality(U) <= Cardinality(T)
        /\ (Cardinality(T) = Cardinality(U) => T = U)
    BY FS_Subset
  <2>2. Cardinality(T) \in Nat /\ Cardinality(U) \in Nat
    BY <2>1, FS_CardinalityType
  <2>. QED
    BY <1>4, <2>1, <2>2
<1>5. ASSUME NEW o \in S, NEW p \in S, Before(o, p)
      PROVE  Place[o] < Place[p]
  <2>1. Earlier(o) \in SUBSET Earlier(p) /\ o \in Earlier(p) /\ o \notin Earlier(o)
    BY <1>3, <1>5, BeforeIsAnOrder
  <2>2. Cardinality(Earlier(o)) < Cardinality(Earlier(p))
    BY <1>4, <2>1
  <2>. QED
    BY <1>2, <2>2
<1>6. Place \in [S -> 1 .. n]
  <2> SUFFICES ASSUME NEW o \in S
               PROVE  Cardinality(Earlier(o)) + 1 \in 1 .. n
    OBVIOUS
  <2>1. o \notin Earlier(o)
    BY <1>3, BeforeIsAnOrder
  <2>2. Cardinality(Earlier(o)) < n
    BY <1>4, <2>1
  <2>. QED
    BY <1>1, <1>2, <2>2
<1>7. \A o, p \in S : Place[o] = Place[p] => o = p
  <2> SUFFICES ASSUME NEW o \in S, NEW p \in S, Place[o] = Place[p], o # p
               PROVE  FALSE
    OBVIOUS
  <2>1. Place[o] \in Nat /\ Place[p] \in Nat
    BY <1>1, <1>6
  <2>2. Before(o, p) \/ Before(p, o)
    BY <1>3, BeforeIsAnOrder
  <2>. HIDE DEF Place
  <2>. QED
    BY <1>5, <2>1, <2>2
<1>8. \A i \in 1 .. n : \E o \in S : Place[o] = i
  <2>1. Place \in Injection(S, 1 .. n)
    BY <1>6, <1>7 DEF Injection, IsInjective
  <2>2. IsFiniteSet(1 .. n) /\ Cardinality(1 .. n) = n
    <3>1. Cardinality(1 .. n) = IF 1 > n THEN 0 ELSE n - 1 + 1
      BY <1>1, FS_Interval
    <3>. QED
      BY <1>1, <3>1, FS_Interval
  <2>3. Place \in Surjection(S, 1 .. n)
    BY <2>1, <2>2, FS_Injection
  <2>. QED
    BY <2>3 DEF Surjection
<1>9. \A i \in 1 .. n : Sorted(S)[i] \in S /\ Place[Sorted(S)[i]] = i
  <2> TAKE i \in 1 .. n
  <2>1. PICK o \in S : Place[o] = i
    BY <1>8
  <2>2. \A p \in S : Place[p] = Cardinality(Earlier(p)) + 1
    OBVIOUS
  <2>3. Sorted(S)[i] = CHOOSE p \in S : Cardinality(Earlier(p)) = i - 1
    BY DEF Sorted
  <2>. HIDE DEF Earlier, Place
  <2>4. Cardinality(Earlier(o)) = i - 1
    BY <1>1, <1>2, <2>1, <2>2
  <2>5. Sorted(S)[i] \in S /\ Cardinality(Earlier(Sorted(S)[i])) = i - 1
    BY <2>3, <2>4
  <2>6. i \in Int /\ (i - 1) + 1 = i
    BY <1>1
  <2>7. Place[Sorted(S)[i]] = (i - 1) + 1
    BY <2>2, <2>5
  <2>. QED
    BY <2>5, <2>6, <2>7
<1>10. Sorted(S) \in [1 .. n -> S]
  <2> DEFINE Chosen(i) == CHOOSE o \in S : Cardinality({p \in S : Before(p, o)}) = i - 1
  <2>1. Sorted(S) = [i \in 1 .. n |-> Chosen(i)]
    BY DEF Sorted
  <2>. HIDE DEF Chosen, n
  <2>2. \A i \in 1 .. n : Chosen(i) \in S
    BY <1>9, <2>1
  <2>. QED
    BY <2>1, <2>2
<1>11. ASSUME NEW i \in 1 .. n, NEW j \in 1 .. n, i < j
       PROVE  Before(Sorted(S)[i], Sorted(S)[j])
  <2> DEFINE o == Sorted(S)[i]
             p == Sorted(S)[j]
  <2>1. o \in S /\ p \in S /\ Place[o] = i /\ Place[p] = j
    BY <1>9
  <2>2. ~ Before(p, o)
    <3> SUFFICES ASSUME Before(p, o)
                 PROVE  FALSE
      OBVIOUS
    <3>1. Place[p] < Place[o]
      BY <1>5, <2>1
    <3>. QED
      BY <1>1, <1>11, <2>1, <3>1
  <2>3. o # p
    BY <1>1, <1>11, <2>1
  <2>. QED
    BY <1>3, <2>1, <2>2, <2>3, BeforeIsAnOrder
<1>12. \A o \in S : \E i \in 1 .. n : Sorted(S)[i] = o
  <2> TAKE o \in S
  <2>1. Place[o] \in 1 .. n
    BY <1>6
  <2>2. Sorted(S)[Place[o]] = o
    BY <1>7, <1>9, <2>1
  <2>. QED
    BY <2>1, <2>2
<1>. QED
  BY <1>1, <1>10, <1>11, <1>12

(* LIMIT n yields the first n rows, or all of them.                        *)
LEMMA FirstElements ==
  ASSUME NEW S, NEW s \in Seq(S), NEW n \in Nat
  PROVE  /\ FirstOf(n, s) \in Seq(S)
         /\ Len(FirstOf(n, s)) = IF n < Len(s) THEN n ELSE Len(s)
         /\ \A i \in 1 .. Len(FirstOf(n, s)) : FirstOf(n, s)[i] = s[i]
<1> DEFINE k == IF n < Len(s) THEN n ELSE Len(s)
<1>1. k \in Nat /\ k <= Len(s) /\ Len(s) \in Nat
  OBVIOUS
<1>2. FirstOf(n, s) = SubSeq(s, 1, k)
  BY DEF FirstOf
<1>. HIDE DEF k
<1>3. /\ SubSeq(s, 1, k) \in Seq(S) /\ Len(SubSeq(s, 1, k)) = k
      /\ \A i \in 1 .. k : SubSeq(s, 1, k)[i] = s[i]
  BY <1>1
<1>. QED
  BY <1>2, <1>3 DEF k

(* What a query with a limit finds: the first observations of its window   *)
(* in canonical order, and whether there are more.                         *)
AreFirst(W, n, found, r) ==
  /\ r \in Seq(Observation) /\ Cardinality(W) \in Nat
  /\ Len(r) = IF n < Cardinality(W) THEN n ELSE Cardinality(W)
  /\ Len(found) > n <=> Len(r) < Cardinality(W)
  /\ \A i \in 1 .. Len(r) : r[i] \in W
  /\ \A i, j \in 1 .. Len(r) : i < j => Before(r[i], r[j])
  /\ \A o \in W : (\E i \in 1 .. Len(r) : r[i] = o) \/ \A i \in 1 .. Len(r) : Before(r[i], o)

(* LIMIT n + 1 and a slice yield the first n of the window in order, and   *)
(* the row that was cut off tells that there are more.                     *)
LEMMA QueryFinds ==
  ASSUME NEW W \in SUBSET Observation, IsFiniteSet(W), NEW n \in Nat \ {0},
         NEW found, found = FirstOf(n + 1, Sorted(W))
  PROVE  AreFirst(W, n, found, FirstOf(n, found))
<1> DEFINE all == Sorted(W)
           m == Cardinality(W)
           r == FirstOf(n, found)
<1>1. /\ m \in Nat /\ all \in [1 .. m -> W]
      /\ \A i, j \in 1 .. m : i < j => Before(all[i], all[j])
      /\ \A o \in W : \E i \in 1 .. m : all[i] = o
  BY SortedLists
<1>. HIDE DEF all, m, r
<1>2. all \in Seq(Observation) /\ Len(all) = m
  BY <1>1
<1>3. /\ found \in Seq(Observation)
      /\ Len(found) = IF n + 1 < m THEN n + 1 ELSE m
      /\ \A i \in 1 .. Len(found) : found[i] = all[i]
  BY <1>2, FirstElements DEF all
<1>4. /\ r \in Seq(Observation)
      /\ Len(r) = IF n < Len(found) THEN n ELSE Len(found)
      /\ \A i \in 1 .. Len(r) : r[i] = found[i]
  BY <1>3, FirstElements DEF r
<1>5. /\ Len(r) = IF n < m THEN n ELSE m
      /\ Len(found) > n <=> Len(r) < m
      /\ Len(r) <= m
  BY <1>1, <1>3, <1>4
<1>6. \A i \in 1 .. Len(r) : i \in 1 .. m /\ r[i] = all[i]
  BY <1>1, <1>3, <1>4
<1>7. ASSUME NEW o \in W
      PROVE  (\E i \in 1 .. Len(r) : r[i] = o) \/ \A i \in 1 .. Len(r) : Before(r[i], o)
  <2>1. PICK j \in 1 .. m : all[j] = o
    BY <1>1
  <2>2. CASE j \in 1 .. Len(r)
    BY <1>6, <2>1, <2>2
  <2>3. CASE j \notin 1 .. Len(r)
    <3>1. \A i \in 1 .. Len(r) : i < j
      BY <1>1, <1>5, <2>3
    <3>. QED
      BY <1>1, <1>6, <2>1, <3>1
  <2>. QED
    BY <2>2, <2>3
<1>. QED
  BY <1>1, <1>4, <1>5, <1>6, <1>7 DEF m, r, AreFirst

-----------------------------------------------------------------------------
(* The evaluation of the rules.  Result(f, fact, todo) is one turn of its  *)
(* loop, with f for the turns that remain; a function that satisfies the   *)
(* recursion is built in as many stages as there are rules.                *)
Result(f, fact, todo) ==
  IF todo = {} THEN [outcome |-> "no_action", trace |-> <<>>]
  ELSE LET r == NextRule(todo)
       IN  IF Matches(r, fact)
           THEN [outcome |-> r.outcome, trace |-> <<Tried(r, TRUE)>>]
           ELSE [f[todo \ {r}] EXCEPT !.trace = <<Tried(r, FALSE)>> \o @]

IsEvaluation(f, fact) == f = [todo \in SUBSET COMMUNITY_POLICY |-> Result(f, fact, todo)]

(* Evaluate is what some function of the rules still to be tried yields    *)
(* when all of them are.                                                   *)
LEMMA EvaluateChooses ==
  ASSUME NEW fact
  PROVE  Evaluate(fact) = (CHOOSE f : IsEvaluation(f, fact))[COMMUNITY_POLICY]
BY DEF Evaluate, IsEvaluation, Result

Porch      == Rule(10, "escalate", [AnyFact EXCEPT !.labels_any = {"person"},
                                                  !.zones_any = {"porch", "entrance", "perimeter"}])
Person     == Rule(20, "send", [AnyFact EXCEPT !.labels_any = {"person"}])
Standing   == Rule(30, "suppress", [AnyFact EXCEPT !.lifecycles = {"updated"},
                                                  !.all_stationary = "yes",
                                                  !.exclude_labels = {"person"}])
Vehicle    == Rule(40, "send", [AnyFact EXCEPT !.labels_any =
                                  {"car", "truck", "bus", "motorcycle", "bicycle"}])

(* The community policy.                                                   *)
LEMMA FourRules ==
  /\ COMMUNITY_POLICY = {Porch, Person, Standing, Vehicle}
  /\ Porch.priority = 10 /\ Porch.outcome = "escalate"
  /\ Person.priority = 20 /\ Person.outcome = "send"
  /\ Standing.priority = 30 /\ Standing.outcome = "suppress"
  /\ Vehicle.priority = 40 /\ Vehicle.outcome = "send"
BY DEF COMMUNITY_POLICY, Porch, Person, Standing, Vehicle, Rule

(* The order in which its rules are tried.                                 *)
LEMMA NextRules ==
  /\ NextRule({Porch, Person, Standing, Vehicle}) = Porch
  /\ NextRule({Person, Standing, Vehicle}) = Person
  /\ NextRule({Standing, Vehicle}) = Standing
  /\ NextRule({Vehicle}) = Vehicle
  /\ \A S \in SUBSET COMMUNITY_POLICY : S # {} => NextRule(S) \in S
<1>1. NextRule({Porch, Person, Standing, Vehicle}) = Porch
  BY FourRules DEF NextRule
<1>2. NextRule({Person, Standing, Vehicle}) = Person
  BY FourRules DEF NextRule
<1>3. NextRule({Standing, Vehicle}) = Standing
  BY FourRules DEF NextRule
<1>4. NextRule({Vehicle}) = Vehicle
  BY FourRules DEF NextRule
<1>5. ASSUME NEW S \in SUBSET COMMUNITY_POLICY, S # {}
      PROVE  NextRule(S) \in S
  <2>1. \E r \in S : \A q \in S : r.priority <= q.priority
    <3>1. CASE Porch \in S
      BY <3>1, FourRules
    <3>2. CASE Porch \notin S /\ Person \in S
      BY <3>2, FourRules
    <3>3. CASE Porch \notin S /\ Person \notin S /\ Standing \in S
      BY <3>3, FourRules
    <3>4. CASE S = {Vehicle}
      BY <3>4, FourRules
    <3>. QED
      BY <1>5, <3>1, <3>2, <3>3, <3>4, FourRules
  <2>. QED
    BY <2>1 DEF NextRule
<1>. QED
  BY <1>1, <1>2, <1>3, <1>4, <1>5

(* There is such a function: the value for a set of rules is settled after *)
(* as many turns as it has elements, and five turns settle all.            *)
LEMMA EvaluationExists ==
  ASSUME NEW fact
  PROVE  \E f : IsEvaluation(f, fact)
<1> DEFINE P == COMMUNITY_POLICY
           Turn(f) == [todo \in SUBSET P |-> Result(f, fact, todo)]
           f0 == [todo \in SUBSET P |-> 0]
           f1 == Turn(f0)
           f2 == Turn(f1)
           f3 == Turn(f2)
           f4 == Turn(f3)
           f5 == Turn(f4)
           Agree(f, g, n) == \A t \in SUBSET P : Cardinality(t) <= n => f[t] = g[t]
<1>1. \A t \in SUBSET P : IsFiniteSet(t) /\ Cardinality(t) \in Nat /\ Cardinality(t) <= 4
  <2>1. IsFiniteSet(P) /\ Cardinality(P) <= 4
    <3>1. P = ((({} \cup {Porch}) \cup {Person}) \cup {Standing}) \cup {Vehicle}
      BY FourRules
    <3>2. IsFiniteSet({} \cup {Porch}) /\ Cardinality({} \cup {Porch}) \in 0 .. 1
      BY FS_EmptySet, FS_AddElement
    <3>3. /\ IsFiniteSet(({} \cup {Porch}) \cup {Person})
          /\ Cardinality(({} \cup {Porch}) \cup {Person}) \in 0 .. 2
      BY <3>2, FS_AddElement
    <3>4. /\ IsFiniteSet((({} \cup {Porch}) \cup {Person}) \cup {Standing})
          /\ Cardinality((({} \cup {Porch}) \cup {Person}) \cup {Standing}) \in 0 .. 3
      BY <3>3, FS_AddElement
    <3>. QED
      BY <3>1, <3>4, FS_AddElement
  <2>2. Cardinality(P) \in Nat
    BY <2>1, FS_CardinalityType
  <2>. QED
    BY <2>1, <2>2, FS_Subset, FS_CardinalityType
<1>2. ASSUME NEW f, NEW g, NEW n \in Nat, Agree(f, g, n)
      PROVE  Agree(Turn(f), Turn(g), n + 1)
  <2> SUFFICES ASSUME NEW t \in SUBSET P, Cardinality(t) <= n + 1
               PROVE  Result(f, fact, t) = Result(g, fact, t)
    OBVIOUS
  <2>1. CASE t = {}
    BY <2>1 DEF Result
  <2>2. CASE t # {}
    <3>1. NextRule(t) \in t /\ t \ {NextRule(t)} \in SUBSET P
      BY <2>2, NextRules
    <3>2. Cardinality(t \ {NextRule(t)}) = Cardinality(t) - 1
      BY <1>1, <3>1, FS_RemoveElement
    <3>3. Cardinality(t \ {NextRule(t)}) <= n
      BY <1>1, <3>2
    <3>4. f[t \ {NextRule(t)}] = g[t \ {NextRule(t)}]
      BY <1>2, <3>1, <3>3
    <3>. QED
      BY <2>2, <3>4 DEF Result
  <2>. QED
    BY <2>1, <2>2
<1>3. Agree(f1, f2, 0)
  <2> SUFFICES ASSUME NEW t \in SUBSET P, Cardinality(t) <= 0
               PROVE  Result(f0, fact, t) = Result(f1, fact, t)
    OBVIOUS
  <2>1. t = {}
    BY <1>1, FS_EmptySet
  <2>. QED
    BY <2>1 DEF Result
<1> HIDE DEF Agree, Turn, f0, P
<1>4. Agree(f2, f3, 1)
  BY <1>2, <1>3
<1>5. Agree(f3, f4, 2)
  BY <1>2, <1>4
<1>6. Agree(f4, f5, 3)
  BY <1>2, <1>5
<1>7. Agree(f5, Turn(f5), 4)
  BY <1>2, <1>6
<1>8. \A t \in SUBSET P : f5[t] = Turn(f5)[t]
  BY <1>1, <1>7 DEF Agree
<1>9. f5 = Turn(f5)
  <2>1. f5 = [t \in SUBSET P |-> f5[t]]
    BY DEF Turn
  <2>2. Turn(f5) = [t \in SUBSET P |-> Turn(f5)[t]]
    BY DEF Turn
  <2>. QED
    BY <1>8, <2>1, <2>2
<1>. QED
  BY <1>9 DEF IsEvaluation, Turn, P

(* A rule put before a trace.                                              *)
LEMMA Prepended ==
  /\ \A a : <<a>> \o <<>> = <<a>>
  /\ \A a, b : <<a>> \o <<b>> = <<a, b>>
  /\ \A a, b, c : <<a>> \o <<b, c>> = <<a, b, c>>
  /\ \A a, b, c, d : <<a>> \o <<b, c, d>> = <<a, b, c, d>>
<1>1. ASSUME NEW a
      PROVE  <<a>> \o <<>> = <<a>>
  <2> DEFINE S == {a}
             s == <<a>> \o <<>>
  <2>1. <<a>> \in Seq(S) /\ <<>> \in Seq(S)
    OBVIOUS
  <2>2. s \in Seq(S) /\ Len(s) = 1 /\ s[1] = a
    BY <2>1
  <2>3. s = [i \in 1 .. 1 |-> s[i]]
    BY <2>2
  <2> HIDE DEF s
  <2>4. s = <<a>>
    BY <2>1, <2>2, <2>3
  <2>. QED
    BY <2>4 DEF s
<1>2. ASSUME NEW a, NEW b
      PROVE  <<a>> \o <<b>> = <<a, b>>
  <2> DEFINE S == {a, b}
             s == <<a>> \o <<b>>
  <2>1. <<a>> \in Seq(S) /\ <<b>> \in Seq(S) /\ <<a, b>> \in Seq(S)
    OBVIOUS
  <2>2. s \in Seq(S) /\ Len(s) = 2 /\ s[1] = a /\ s[2] = b
    BY <2>1
  <2>3. s = [i \in 1 .. 2 |-> s[i]]
    BY <2>2
  <2> HIDE DEF s
  <2>4. s = <<a, b>>
    BY <2>1, <2>2, <2>3
  <2>. QED
    BY <2>4 DEF s
<1>3. ASSUME NEW a, NEW b, NEW c
      PROVE  <<a>> \o <<b, c>> = <<a, b, c>>
  <2> DEFINE S == {a, b, c}
             s == <<a>> \o <<b, c>>
  <2>1. <<a>> \in Seq(S) /\ <<b, c>> \in Seq(S) /\ <<a, b, c>> \in Seq(S)
    OBVIOUS
  <2>2. s \in Seq(S) /\ Len(s) = 3 /\ s[1] = a /\ s[2] = b /\ s[3] = c
    BY <2>1
  <2>3. s = [i \in 1 .. 3 |-> s[i]]
    BY <2>2
  <2> HIDE DEF s
  <2>4. s = <<a, b, c>>
    BY <2>1, <2>2, <2>3
  <2>. QED
    BY <2>4 DEF s
<1>4. ASSUME NEW a, NEW b, NEW c, NEW d
      PROVE  <<a>> \o <<b, c, d>> = <<a, b, c, d>>
  <2> DEFINE S == {a, b, c, d}
             s == <<a>> \o <<b, c, d>>
  <2>1. <<a>> \in Seq(S) /\ <<b, c, d>> \in Seq(S) /\ <<a, b, c, d>> \in Seq(S)
    OBVIOUS
  <2>2. s \in Seq(S) /\ Len(s) = 4 /\ s[1] = a /\ s[2] = b /\ s[3] = c /\ s[4] = d
    BY <2>1
  <2>3. s = [i \in 1 .. 4 |-> s[i]]
    BY <2>2
  <2> HIDE DEF s
  <2>4. s = <<a, b, c, d>>
    BY <2>1, <2>2, <2>3
  <2>. QED
    BY <2>4 DEF s
<1>. QED
  BY <1>1, <1>2, <1>3, <1>4

(* What the loop comes to, rule by rule.                                   *)
LEMMA EvaluateUnfolds ==
  ASSUME NEW fact
  PROVE  /\ Matches(Porch, fact) =>
              Evaluate(fact) = [outcome |-> "escalate", trace |-> <<Tried(Porch, TRUE)>>]
         /\ ~ Matches(Porch, fact) /\ Matches(Person, fact) =>
              Evaluate(fact) =
                [outcome |-> "send", trace |-> <<Tried(Porch, FALSE), Tried(Person, TRUE)>>]
         /\ ~ Matches(Porch, fact) /\ ~ Matches(Person, fact) /\ Matches(Standing, fact) =>
              Evaluate(fact) =
                [outcome |-> "suppress",
                 trace |-> <<Tried(Porch, FALSE), Tried(Person, FALSE), Tried(Standing, TRUE)>>]
         /\ ~ Matches(Porch, fact) /\ ~ Matches(Person, fact) /\ ~ Matches(Standing, fact) =>
              /\ Matches(Vehicle, fact) =>
                   Evaluate(fact) =
                     [outcome |-> "send",
                      trace |-> <<Tried(Porch, FALSE), Tried(Person, FALSE),
                                  Tried(Standing, FALSE), Tried(Vehicle, TRUE)>>]
              /\ ~ Matches(Vehicle, fact) =>
                   Evaluate(fact) =
                     [outcome |-> "no_action",
                      trace |-> <<Tried(Porch, FALSE), Tried(Person, FALSE),
                                  Tried(Standing, FALSE), Tried(Vehicle, FALSE)>>]
<1> DEFINE f == CHOOSE g : IsEvaluation(g, fact)
           Ends(t, o, r) == f[t] = [outcome |-> o, trace |-> r]
<1>1. IsEvaluation(f, fact)
  BY EvaluationExists
<1>2. Evaluate(fact) = f[COMMUNITY_POLICY]
  BY EvaluateChooses
<1> HIDE DEF f
<1>3. ASSUME NEW t \in SUBSET COMMUNITY_POLICY, NEW r, NEW u, t # {}, NextRule(t) = r, u = t \ {r}
      PROVE  /\ Matches(r, fact) => Ends(t, r.outcome, <<Tried(r, TRUE)>>)
             /\ \A o, s : ~ Matches(r, fact) /\ Ends(u, o, s)
                  => Ends(t, o, <<Tried(r, FALSE)>> \o s)
  <2>1. f[t] = IF Matches(r, fact)
               THEN [outcome |-> r.outcome, trace |-> <<Tried(r, TRUE)>>]
               ELSE [f[u] EXCEPT !.trace = <<Tried(r, FALSE)>> \o @]
    BY <1>1, <1>3 DEF IsEvaluation, Result
  <2>2. ASSUME NEW o, NEW s, ~ Matches(r, fact), f[u] = [outcome |-> o, trace |-> s]
        PROVE  f[t] = [outcome |-> o, trace |-> <<Tried(r, FALSE)>> \o s]
    <3>1. f[t] = [[outcome |-> o, trace |-> s] EXCEPT !.trace = <<Tried(r, FALSE)>> \o @]
      BY <2>1, <2>2
    <3>. QED
      BY <3>1
  <2>. QED
    BY <2>1, <2>2
<1>4. Ends({}, "no_action", <<>>)
  BY <1>1 DEF IsEvaluation, Result
<1>5. ASSUME NEW o, NEW s, Ends(COMMUNITY_POLICY, o, s)
      PROVE  Evaluate(fact) = [outcome |-> o, trace |-> s]
  BY <1>2, <1>5
<1> HIDE DEF Ends
<1> DEFINE p == Tried(Porch, FALSE)
           q == Tried(Person, FALSE)
           r == Tried(Standing, FALSE)
           v == Tried(Vehicle, FALSE)
           w == Tried(Vehicle, TRUE)
           t == Tried(Standing, TRUE)
           C1 == {Vehicle}
           C2 == {Standing, Vehicle}
           C3 == {Person, Standing, Vehicle}
           C4 == {Porch, Person, Standing, Vehicle}
<1>6. /\ C1 \ {Vehicle} = {} /\ C2 \ {Standing} = C1 /\ C3 \ {Person} = C2 /\ C4 \ {Porch} = C3
      /\ C1 # {} /\ C2 # {} /\ C3 # {} /\ C4 # {}
      /\ C1 \in SUBSET C4 /\ C2 \in SUBSET C4 /\ C3 \in SUBSET C4 /\ COMMUNITY_POLICY = C4
  BY FourRules
<1>7. NextRule(C1) = Vehicle /\ NextRule(C2) = Standing /\ NextRule(C3) = Person
      /\ NextRule(C4) = Porch
  BY NextRules
<1> HIDE DEF C1, C2, C3, C4, p, q, r, v, t, w
<1>8. /\ Matches(Vehicle, fact) => Ends(C1, "send", <<w>>)
      /\ ~ Matches(Vehicle, fact) => Ends(C1, "no_action", <<v>>)
  <2>1. /\ Matches(Vehicle, fact) => Ends(C1, Vehicle.outcome, <<w>>)
        /\ ~ Matches(Vehicle, fact) => Ends(C1, "no_action", <<v>> \o <<>>)
    BY <1>3, <1>4, <1>6, <1>7 DEF v, w
  <2>. QED
    BY <2>1, FourRules, Prepended
<1>9. /\ Matches(Standing, fact) => Ends(C2, "suppress", <<t>>)
      /\ ~ Matches(Standing, fact) =>
           /\ Matches(Vehicle, fact) => Ends(C2, "send", <<r, w>>)
           /\ ~ Matches(Vehicle, fact) => Ends(C2, "no_action", <<r, v>>)
  <2>1. /\ Matches(Standing, fact) => Ends(C2, Standing.outcome, <<t>>)
        /\ \A o, s : ~ Matches(Standing, fact) /\ Ends(C1, o, s) => Ends(C2, o, <<r>> \o s)
    BY <1>3, <1>6, <1>7 DEF r, t
  <2>. QED
    BY <1>8, <2>1, FourRules, Prepended
<1>10. /\ Matches(Person, fact) => Ends(C3, "send", <<Tried(Person, TRUE)>>)
       /\ ~ Matches(Person, fact) =>
            /\ Matches(Standing, fact) => Ends(C3, "suppress", <<q, t>>)
            /\ ~ Matches(Standing, fact) =>
                 /\ Matches(Vehicle, fact) => Ends(C3, "send", <<q, r, w>>)
                 /\ ~ Matches(Vehicle, fact) => Ends(C3, "no_action", <<q, r, v>>)
  <2>1. /\ Matches(Person, fact) => Ends(C3, Person.outcome, <<Tried(Person, TRUE)>>)
        /\ \A o, s : ~ Matches(Person, fact) /\ Ends(C2, o, s) => Ends(C3, o, <<q>> \o s)
    BY <1>3, <1>6, <1>7 DEF q
  <2>2. ASSUME ~ Matches(Person, fact)
        PROVE  /\ \A o, a : Ends(C2, o, <<a>>) => Ends(C3, o, <<q, a>>)
               /\ \A o, a, b : Ends(C2, o, <<a, b>>) => Ends(C3, o, <<q, a, b>>)
    <3>1. /\ \A a : <<q, a>> = <<q>> \o <<a>>
          /\ \A a, b : <<q, a, b>> = <<q>> \o <<a, b>>
      BY Prepended
    <3>. QED
      BY <2>1, <2>2, <3>1
  <2>. QED
    BY <1>9, <2>1, <2>2, FourRules
<1>11. /\ Matches(Porch, fact) => Ends(C4, "escalate", <<Tried(Porch, TRUE)>>)
       /\ \A o, s : ~ Matches(Porch, fact) /\ Ends(C3, o, s) => Ends(C4, o, <<p>> \o s)
  <2>1. /\ Matches(Porch, fact) => Ends(C4, Porch.outcome, <<Tried(Porch, TRUE)>>)
        /\ \A o, s : ~ Matches(Porch, fact) /\ Ends(C3, o, s) => Ends(C4, o, <<p>> \o s)
    BY <1>3, <1>6, <1>7 DEF p
  <2>. QED
    BY <2>1, FourRules
<1>12. /\ Matches(Porch, fact) => Ends(C4, "escalate", <<Tried(Porch, TRUE)>>)
       /\ ~ Matches(Porch, fact) =>
            /\ Matches(Person, fact) => Ends(C4, "send", <<p, Tried(Person, TRUE)>>)
            /\ ~ Matches(Person, fact) =>
                 /\ Matches(Standing, fact) => Ends(C4, "suppress", <<p, q, t>>)
                 /\ ~ Matches(Standing, fact) =>
                      /\ Matches(Vehicle, fact) => Ends(C4, "send", <<p, q, r, w>>)
                      /\ ~ Matches(Vehicle, fact) => Ends(C4, "no_action", <<p, q, r, v>>)
  <2>1. ASSUME ~ Matches(Porch, fact)
        PROVE  /\ \A o, a : Ends(C3, o, <<a>>) => Ends(C4, o, <<p, a>>)
               /\ \A o, a, b : Ends(C3, o, <<a, b>>) => Ends(C4, o, <<p, a, b>>)
               /\ \A o, a, b, c : Ends(C3, o, <<a, b, c>>) => Ends(C4, o, <<p, a, b, c>>)
    <3>1. /\ \A a : <<p, a>> = <<p>> \o <<a>>
          /\ \A a, b : <<p, a, b>> = <<p>> \o <<a, b>>
          /\ \A a, b, c : <<p, a, b, c>> = <<p>> \o <<a, b, c>>
      BY Prepended
    <3>2. \A o, s : Ends(C3, o, s) => Ends(C4, o, <<p>> \o s)
      BY <1>11, <2>1
    <3>3. ASSUME NEW o, NEW a, NEW b, NEW c, Ends(C3, o, <<a, b, c>>)
          PROVE  Ends(C4, o, <<p, a, b, c>>)
      <4>1. Ends(C4, o, <<p>> \o <<a, b, c>>)
        BY <3>2, <3>3
      <4>. QED
        BY <3>1, <4>1
    <3>. QED
      BY <3>1, <3>2, <3>3
  <2>. QED
    BY <1>10, <1>11, <2>1
<1>. QED
  BY <1>5, <1>6, <1>12 DEF p, q, r, v, t, w

(* What an evaluation looks like: the rules tried are the first n, and     *)
(* either the last of them is the only one that matches and decides, or    *)
(* they are all the rules and none matches.                                *)
R == <<Porch, Person, Standing, Vehicle>>

Shape(e, matching, n) ==
  /\ DOMAIN e.trace = 1 .. n
  /\ \A i \in 1 .. n : e.trace[i].rule = R[i]
  /\ \A i \in 1 .. n : e.trace[i].matched = IF R[i] \in matching THEN TRUE ELSE FALSE
  /\ \A i \in 1 .. n : R[i] \in matching => i = n
  /\ \/ R[n] \in matching /\ e.outcome = R[n].outcome
     \/ n = 4 /\ matching = {} /\ e.outcome = "no_action"

(* Evaluate has that shape, whatever the fact.                             *)
LEMMA EvaluationShape ==
  ASSUME NEW fact, NEW matching, matching = {r \in COMMUNITY_POLICY : Matches(r, fact)}
  PROVE  \E n \in 1 .. 4 : Shape(Evaluate(fact), matching, n)
<1> DEFINE e == Evaluate(fact)
<1>0. /\ R[1] = Porch /\ R[2] = Person /\ R[3] = Standing /\ R[4] = Vehicle
      /\ R[1] \in matching <=> Matches(Porch, fact)
      /\ R[2] \in matching <=> Matches(Person, fact)
      /\ R[3] \in matching <=> Matches(Standing, fact)
      /\ R[4] \in matching <=> Matches(Vehicle, fact)
      /\ matching \in SUBSET {R[1], R[2], R[3], R[4]}
  BY FourRules DEF R
<1>1. CASE Matches(Porch, fact)
  <2>1. e = [outcome |-> "escalate",
             trace |-> <<Tried(Porch, TRUE)>>]
    BY <1>1, EvaluateUnfolds
  <2>2. /\ DOMAIN e.trace = 1 .. 1
        /\ e.trace[1].rule = R[1]
        /\ e.trace[1].matched = TRUE
        /\ e.outcome = R[1].outcome
    BY <1>0, <2>1, FourRules DEF Tried
  <2>. HIDE DEF e
  <2>3. Shape(e, matching, 1)
    <3>1. \A i \in 1 .. 1 : i = 1
      OBVIOUS
    <3>2. \A i \in 1 .. 1 : R[i] \in matching => i = 1
      BY <1>0, <1>1, <3>1
    <3>3. \A i \in 1 .. 1 : e.trace[i].rule = R[i]
      BY <2>2, <3>1
    <3>4. \A i \in 1 .. 1 : e.trace[i].matched = IF R[i] \in matching THEN TRUE ELSE FALSE
      BY <1>0, <1>1, <2>2, <3>1
    <3>. QED
      BY <1>0, <1>1, <2>2, <3>2, <3>3, <3>4 DEF Shape
  <2>. QED
    BY <2>3 DEF e
<1>2. CASE ~ Matches(Porch, fact) /\ Matches(Person, fact)
  <2>1. e = [outcome |-> "send",
             trace |-> <<Tried(Porch, FALSE), Tried(Person, TRUE)>>]
    BY <1>2, EvaluateUnfolds
  <2>2. /\ DOMAIN e.trace = 1 .. 2
        /\ e.trace[1].rule = R[1] /\ e.trace[2].rule = R[2]
        /\ e.trace[1].matched = FALSE /\ e.trace[2].matched = TRUE
        /\ e.outcome = R[2].outcome
    BY <1>0, <2>1, FourRules DEF Tried
  <2>. HIDE DEF e
  <2>3. Shape(e, matching, 2)
    <3>1. \A i \in 1 .. 2 : i = 1 \/ i = 2
      OBVIOUS
    <3>2. \A i \in 1 .. 2 : R[i] \in matching => i = 2
      BY <1>0, <1>2, <3>1
    <3>3. \A i \in 1 .. 2 : e.trace[i].rule = R[i]
      BY <2>2, <3>1
    <3>4. \A i \in 1 .. 2 : e.trace[i].matched = IF R[i] \in matching THEN TRUE ELSE FALSE
      BY <1>0, <1>2, <2>2, <3>1
    <3>. QED
      BY <1>0, <1>2, <2>2, <3>2, <3>3, <3>4 DEF Shape
  <2>. QED
    BY <2>3 DEF e
<1>3. CASE ~ Matches(Porch, fact) /\ ~ Matches(Person, fact) /\ Matches(Standing, fact)
  <2>1. e = [outcome |-> "suppress",
             trace |-> <<Tried(Porch, FALSE), Tried(Person, FALSE), Tried(Standing, TRUE)>>]
    BY <1>3, EvaluateUnfolds
  <2>2. /\ DOMAIN e.trace = 1 .. 3
        /\ e.trace[1].rule = R[1] /\ e.trace[2].rule = R[2] /\ e.trace[3].rule = R[3]
        /\ e.trace[1].matched = FALSE /\ e.trace[2].matched = FALSE /\ e.trace[3].matched = TRUE
        /\ e.outcome = R[3].outcome
    BY <1>0, <2>1, FourRules DEF Tried
  <2>. HIDE DEF e
  <2>3. Shape(e, matching, 3)
    <3>1. \A i \in 1 .. 3 : i = 1 \/ i = 2 \/ i = 3
      OBVIOUS
    <3>2. \A i \in 1 .. 3 : R[i] \in matching => i = 3
      BY <1>0, <1>3, <3>1
    <3>3. \A i \in 1 .. 3 : e.trace[i].rule = R[i]
      BY <2>2, <3>1
    <3>4. \A i \in 1 .. 3 : e.trace[i].matched = IF R[i] \in matching THEN TRUE ELSE FALSE
      BY <1>0, <1>3, <2>2, <3>1
    <3>. QED
      BY <1>0, <1>3, <2>2, <3>2, <3>3, <3>4 DEF Shape
  <2>. QED
    BY <2>3 DEF e
<1>4. CASE ~ Matches(Porch, fact) /\ ~ Matches(Person, fact) /\ ~ Matches(Standing, fact) /\
          Matches(Vehicle, fact)
  <2>1. e = [outcome |-> "send",
             trace |-> <<Tried(Porch, FALSE), Tried(Person, FALSE), Tried(Standing, FALSE), Tried(Vehicle, TRUE)>>]
    BY <1>4, EvaluateUnfolds
  <2>2. /\ DOMAIN e.trace = 1 .. 4
        /\ e.trace[1].rule = R[1] /\ e.trace[2].rule = R[2] /\ e.trace[3].rule = R[3] /\
           e.trace[4].rule = R[4]
        /\ e.trace[1].matched = FALSE /\ e.trace[2].matched = FALSE /\ e.trace[3].matched = FALSE /\
           e.trace[4].matched = TRUE
        /\ e.outcome = R[4].outcome
    BY <1>0, <2>1, FourRules DEF Tried
  <2>. HIDE DEF e
  <2>3. Shape(e, matching, 4)
    <3>1. \A i \in 1 .. 4 : i = 1 \/ i = 2 \/ i = 3 \/ i = 4
      OBVIOUS
    <3>2. \A i \in 1 .. 4 : R[i] \in matching => i = 4
      BY <1>0, <1>4, <3>1
    <3>3. \A i \in 1 .. 4 : e.trace[i].rule = R[i]
      BY <2>2, <3>1
    <3>4. \A i \in 1 .. 4 : e.trace[i].matched = IF R[i] \in matching THEN TRUE ELSE FALSE
      BY <1>0, <1>4, <2>2, <3>1
    <3>. QED
      BY <1>0, <1>4, <2>2, <3>2, <3>3, <3>4 DEF Shape
  <2>. QED
    BY <2>3 DEF e
<1>5. CASE ~ Matches(Porch, fact) /\ ~ Matches(Person, fact) /\ ~ Matches(Standing, fact) /\ ~
          Matches(Vehicle, fact)
  <2>1. e = [outcome |-> "no_action",
             trace |-> <<Tried(Porch, FALSE), Tried(Person, FALSE), Tried(Standing, FALSE), Tried(Vehicle, FALSE)>>]
    BY <1>5, EvaluateUnfolds
  <2>2. /\ DOMAIN e.trace = 1 .. 4
        /\ e.trace[1].rule = R[1] /\ e.trace[2].rule = R[2] /\ e.trace[3].rule = R[3] /\
           e.trace[4].rule = R[4]
        /\ e.trace[1].matched = FALSE /\ e.trace[2].matched = FALSE /\ e.trace[3].matched = FALSE /\
           e.trace[4].matched = FALSE
        /\ e.outcome = "no_action"
    BY <1>0, <2>1, FourRules DEF Tried
  <2>. HIDE DEF e
  <2>3. Shape(e, matching, 4)
    <3>1. \A i \in 1 .. 4 : i = 1 \/ i = 2 \/ i = 3 \/ i = 4
      OBVIOUS
    <3>2. \A i \in 1 .. 4 : R[i] \in matching => i = 4
      BY <1>0, <1>5, <3>1
    <3>3. \A i \in 1 .. 4 : e.trace[i].rule = R[i]
      BY <2>2, <3>1
    <3>4. \A i \in 1 .. 4 : e.trace[i].matched = IF R[i] \in matching THEN TRUE ELSE FALSE
      BY <1>0, <1>5, <2>2, <3>1
    <3>. QED
      BY <1>0, <1>5, <2>2, <3>2, <3>3, <3>4 DEF Shape
  <2>. QED
    BY <2>3 DEF e
<1>. QED
  BY <1>1, <1>2, <1>3, <1>4, <1>5

(* When each rule of the policy matches.                                   *)
LEMMA RuleMatches ==
  ASSUME NEW fact
  PROVE  /\ Matches(Porch, fact) <=>
              "person" \in fact.labels /\ fact.zones \cap {"porch", "entrance", "perimeter"} # {}
         /\ Matches(Person, fact) <=> "person" \in fact.labels
         /\ Matches(Standing, fact) =>
              "person" \notin fact.labels /\ fact.object_stationary # <<>>
         /\ Matches(Vehicle, fact) <=>
              {"car", "truck", "bus", "motorcycle", "bicycle"} \cap fact.labels # {}
<1> DEFINE places == {"porch", "entrance", "perimeter"}
           vehicles == {"car", "truck", "bus", "motorcycle", "bicycle"}
<1>1. /\ Porch.match = [lifecycles |-> {}, labels_any |-> {"person"}, zones_any |-> places,
                        exclude_labels |-> {}, all_stationary |-> "any"]
      /\ Person.match = [lifecycles |-> {}, labels_any |-> {"person"}, zones_any |-> {},
                         exclude_labels |-> {}, all_stationary |-> "any"]
      /\ Standing.match = [lifecycles |-> {"updated"}, labels_any |-> {}, zones_any |-> {},
                           exclude_labels |-> {"person"}, all_stationary |-> "yes"]
      /\ Vehicle.match = [lifecycles |-> {}, labels_any |-> vehicles, zones_any |-> {},
                          exclude_labels |-> {}, all_stationary |-> "any"]
  BY DEF Porch, Person, Standing, Vehicle, Rule, AnyFact
<1>2. places # {} /\ vehicles # {}
  OBVIOUS
<1> HIDE DEF places, vehicles
<1>3. Matches(Porch, fact) <=> "person" \in fact.labels /\ fact.zones \cap places # {}
  BY <1>1, <1>2 DEF Matches, Allows, StationaryMatches
<1>4. Matches(Person, fact) <=> "person" \in fact.labels
  BY <1>1 DEF Matches, Allows, StationaryMatches
<1>5. Matches(Standing, fact) => "person" \notin fact.labels /\ fact.object_stationary # <<>>
  BY <1>1 DEF Matches, StationaryMatches
<1>6. Matches(Vehicle, fact) <=> vehicles \cap fact.labels # {}
  BY <1>1, <1>2 DEF Matches, Allows, StationaryMatches
<1>. QED
  BY <1>3, <1>4, <1>5, <1>6 DEF places, vehicles

(* The outcome, rule by rule.                                              *)
LEMMA Outcomes ==
  ASSUME NEW fact
  PROVE  Evaluate(fact).outcome =
           IF Matches(Porch, fact) THEN "escalate"
           ELSE IF Matches(Person, fact) THEN "send"
           ELSE IF Matches(Standing, fact) THEN "suppress"
           ELSE IF Matches(Vehicle, fact) THEN "send" ELSE "no_action"
<1> DEFINE e == Evaluate(fact)
<1>1. \A o, s : e = [outcome |-> o, trace |-> s] => e.outcome = o
  OBVIOUS
<1> HIDE DEF e
<1>2. Matches(Porch, fact) => e.outcome = "escalate"
  BY <1>1, EvaluateUnfolds DEF e
<1>3. ~ Matches(Porch, fact) /\ Matches(Person, fact) => e.outcome = "send"
  BY <1>1, EvaluateUnfolds DEF e
<1>4. ~ Matches(Porch, fact) /\ ~ Matches(Person, fact) /\ Matches(Standing, fact)
        => e.outcome = "suppress"
  BY <1>1, EvaluateUnfolds DEF e
<1>5. ~ Matches(Porch, fact) /\ ~ Matches(Person, fact) /\ ~ Matches(Standing, fact)
        => e.outcome = IF Matches(Vehicle, fact) THEN "send" ELSE "no_action"
  BY <1>1, EvaluateUnfolds DEF e
<1>. QED
  BY <1>2, <1>3, <1>4, <1>5 DEF e

(* The evaluation of every fact is explained by its trace and notifies of  *)
(* persons: what the loop of evaluate must come to.                        *)
LEMMA RulesSound == RulesAreSound
<1> SUFFICES ASSUME NEW fact \in Fact
             PROVE  Explained(fact) /\ PersonNotified(fact)
  BY DEF RulesAreSound
<1> DEFINE e == Evaluate(fact)
           tried == {e.trace[i].rule : i \in DOMAIN e.trace}
           matching == {r \in COMMUNITY_POLICY : Matches(r, fact)}
           first == CHOOSE r \in matching : \A q \in matching : r.priority <= q.priority
<1>1. PICK n \in 1 .. 4 : Shape(e, matching, n)
  BY EvaluationShape
<1>2. /\ \A i \in 1 .. 4 : R[i].priority = 10 * i
      /\ COMMUNITY_POLICY = {R[i] : i \in 1 .. 4}
  <2>1. R[1] = Porch /\ R[2] = Person /\ R[3] = Standing /\ R[4] = Vehicle
    BY DEF R
  <2>2. \A i \in 1 .. 4 : i = 1 \/ i = 2 \/ i = 3 \/ i = 4
    OBVIOUS
  <2>3. \A i \in 1 .. 4 : R[i].priority = 10 * i
    BY <2>1, <2>2, FourRules
  <2>. QED
    BY <2>1, <2>2, <2>3, FourRules
<1>3. matching \subseteq COMMUNITY_POLICY
  OBVIOUS
<1>4. Explained(fact) <=>
        /\ \A i, j \in DOMAIN e.trace : i < j => e.trace[i].rule.priority < e.trace[j].rule.priority
        /\ \A i \in DOMAIN e.trace : e.trace[i].matched = (e.trace[i].rule \in matching)
        /\ tried = {r \in COMMUNITY_POLICY : matching # {} => r.priority <= first.priority}
        /\ e.outcome = IF matching = {} THEN "no_action" ELSE first.outcome
  BY DEF Explained
<1>5. PersonNotified(fact)
  <2>1. /\ "person" \in fact.labels => Matches(Person, fact)
        /\ "person" \in fact.labels =>
             (Matches(Porch, fact) <=> fact.zones \cap {"porch", "entrance", "perimeter"} # {})
    BY RuleMatches
  <2>. QED
    BY <2>1, Outcomes DEF PersonNotified
<1> HIDE DEF matching, e
<1>6. /\ DOMAIN e.trace = 1 .. n
      /\ \A i \in 1 .. n : e.trace[i].rule = R[i]
      /\ \A i \in 1 .. n : e.trace[i].matched = IF R[i] \in matching THEN TRUE ELSE FALSE
      /\ \A i \in 1 .. n : R[i] \in matching => i = n
  BY <1>1 DEF Shape
<1>7. \A i, j \in DOMAIN e.trace : i < j => e.trace[i].rule.priority < e.trace[j].rule.priority
  BY <1>2, <1>6
<1>8. \A i \in DOMAIN e.trace : e.trace[i].matched = (e.trace[i].rule \in matching)
  <2> TAKE i \in DOMAIN e.trace
  <2>1. CASE R[i] \in matching
    BY <1>6, <2>1
  <2>2. CASE R[i] \notin matching
    <3>1. e.trace[i].matched = FALSE
      BY <1>6, <2>2
    <3>2. (e.trace[i].rule \in matching) = FALSE
      BY <1>6, <2>2
    <3>. QED
      BY <3>1, <3>2
  <2>. QED
    BY <2>1, <2>2
<1>9. CASE R[n] \in matching
  <2>1. \A q \in matching : R[n].priority <= q.priority /\ (q.priority <= R[n].priority => q = R[n])
    <3> TAKE q \in matching
    <3>1. PICK i \in 1 .. 4 : q = R[i]
      BY <1>2, <1>3
    <3>. QED
      BY <1>2, <1>6, <3>1
  <2>2. first = R[n]
    BY <1>9, <2>1
  <2>. HIDE DEF first
  <2>3. tried = {R[i] : i \in 1 .. n}
    BY <1>6
  <2>4. tried = {r \in COMMUNITY_POLICY : r.priority <= first.priority}
    <3>1. \A i \in 1 .. 4 : R[i].priority <= R[n].priority <=> i <= n
      BY <1>2
    <3>2. \A r \in COMMUNITY_POLICY : \E i \in 1 .. 4 : r = R[i]
      BY <1>2
    <3>3. \A i \in 1 .. 4 : i <= n <=> i \in 1 .. n
      OBVIOUS
    <3>4. \A i \in 1 .. n : i \in 1 .. 4 /\ R[i] \in COMMUNITY_POLICY
      BY <1>2
    <3> HIDE DEF tried
    <3>. QED
      BY <2>2, <2>3, <3>1, <3>2, <3>3, <3>4
  <2>5. e.outcome = first.outcome
    <3>1. matching # {}
      BY <1>9
    <3>. QED
      BY <1>1, <2>2, <3>1 DEF Shape
  <2>. QED
    BY <1>4, <1>5, <1>7, <1>8, <1>9, <2>4, <2>5
<1>10. CASE R[n] \notin matching
  <2>1. n = 4 /\ matching = {} /\ e.outcome = "no_action"
    BY <1>1, <1>10 DEF Shape
  <2>2. tried = COMMUNITY_POLICY
    BY <1>2, <1>6, <2>1
  <2>. QED
    BY <1>4, <1>5, <1>7, <1>8, <2>1, <2>2
<1>. QED
  BY <1>9, <1>10

(* On a replayed event, which has no objects, every rule but the one on    *)
(* stationary objects matches as it did live, and that one never does.     *)
LEMMA ReplayedOutcome ==
  ASSUME NEW fact \in Fact
  PROVE  /\ Evaluate(fact).outcome \in {Evaluate(ReplayFact(fact)).outcome, "suppress"}
         /\ "person" \in fact.labels =>
              Evaluate(fact).outcome = Evaluate(ReplayFact(fact)).outcome
<1> DEFINE again == ReplayFact(fact)
<1>1. /\ again.lifecycle = fact.lifecycle /\ again.labels = fact.labels
      /\ again.zones = fact.zones /\ again.object_stationary = <<>>
  BY DEF ReplayFact, Fact
<1> HIDE DEF again
<1>2. /\ Matches(Porch, again) <=> Matches(Porch, fact)
      /\ Matches(Person, again) <=> Matches(Person, fact)
      /\ Matches(Vehicle, again) <=> Matches(Vehicle, fact)
      /\ ~ Matches(Standing, again)
      /\ "person" \in fact.labels => Matches(Person, fact)
  BY <1>1, RuleMatches
<1>. QED
  BY <1>2, Outcomes DEF again

-----------------------------------------------------------------------------
(* What holds between an exporter, its directory and a replay.             *)
Holding == Working \cup {"exported"}

Found(x) == FirstOf(request[x].limit + 1, Sorted(Window(request[x], seen[x])))

Bundle(x) == Manifest(request[x], rows[x], truncated[x])

(* An exporter that queried has the first observations of what was stored, *)
(* and one that made its directory holds it alone.                         *)
ExporterHolds(x) ==
  /\ stage[x] # "idle" => request[x] \in ExportRequest
  /\ stage[x] \in Holding \cup {"accepted", "queried"} =>
       request[x].limit \in 1 .. MAX_EVENTS /\ request[x].source \in Source
  /\ stage[x] \in Holding \cup {"queried"} =>
       /\ seen[x] \subseteq stored
       /\ rows[x] = FirstOf(request[x].limit, Found(x))
       /\ truncated[x] = (Len(Found(x)) > request[x].limit)
  /\ stage[x] \in Holding => request[x].dir \in made /\ maker[request[x].dir] = x
  /\ request[x] # None /\ request[x].dir \notin damaged =>
       /\ stage[x] \in {"manifest", "manifest_open", "exported"} =>
            events[request[x].dir] = Records(rows[x])
       /\ stage[x] = "exported" => manifest[request[x].dir] = Bundle(x)

(* The manifest m, found in d, was written by x; to d unless it was copied.*)
Written(x, d, m) ==
  /\ stage[x] = "exported" /\ m = Bundle(x)
  /\ d \in damaged \/ maker[d] = x

DirectoryHolds(d) ==
  /\ d \notin made => maker[d] = None
  /\ d \in made =>
       /\ maker[d] \in Exporter /\ stage[maker[d]] \in Holding \cup {"died"}
       /\ request[maker[d]] \in ExportRequest /\ request[maker[d]].dir = d
  /\ manifest[d] \notin {None, Torn} => \E x \in Exporter : Written(x, d, manifest[d])

(* A replay has the manifest of an export, and once the lines were found   *)
(* consistent with it, emits them one after the other.                     *)
PlayHolds ==
  /\ replay.state # "idle" =>
       /\ replay.dir \in Directory /\ replay.manifest \in ReplayManifest
       /\ \E x \in Exporter : Written(x, replay.dir, replay.manifest)
  /\ replay.state \in {"idle", "loading"} => emitted = <<>>
  /\ replay.state \in {"playing", "reported"} => replay.lines = replay.manifest.events_sha256
  /\ replay.state = "reported" => Len(emitted) = Len(replay.lines)
  /\ Len(emitted) <= Len(replay.lines)
  /\ \A i \in 1 .. Len(emitted) :
       /\ emitted[i].event = replay.lines[i].event
       /\ emitted[i].replayed_at = ReplayedAt(emitted[i].event)
       /\ emitted[i].outcome = Evaluate(emitted[i].event.fact).outcome

ReplayInv ==
  /\ ReplayTypeOK
  /\ IsFiniteSet(stored)
  /\ \A x \in Exporter : ExporterHolds(x)
  /\ \A d \in Directory : DirectoryHolds(d)
  /\ PlayHolds

(* The lines of an export: each is its observation, but for the stationary *)
(* flags.                                                                  *)
LEMMA RecordsKeep ==
  ASSUME NEW s \in Seq(Observation)
  PROVE  /\ Records(s) \in Seq(ReplayRecord) /\ Len(Records(s)) = Len(s)
         /\ \A i \in 1 .. Len(s) :
              LET event == Records(s)[i].event
              IN  /\ Records(s)[i].sequence = i - 1
                  /\ event.id = s[i].id /\ event.source = s[i].source
                  /\ event.occurred = s[i].occurred /\ event.observed = s[i].observed
                  /\ event.too_large = s[i].too_large /\ event.fact = ReplayFact(s[i].fact)
<1>1. ASSUME NEW o \in Observation
      PROVE  LET event == [o EXCEPT !.fact = ReplayFact(@)]
             IN  /\ event \in ReplayEvent
                 /\ event.id = o.id /\ event.source = o.source
                 /\ event.occurred = o.occurred /\ event.observed = o.observed
                 /\ event.too_large = o.too_large /\ event.fact = ReplayFact(o.fact)
  <2>1. o \in ReplayEvent /\ o.fact \in Fact
    BY ReplayAssumption DEF ReplayEvent
  <2>2. ReplayFact(o.fact) \in Fact
    <3>1. <<>> \in [1 .. 0 -> Stationary] /\ 0 \in 0 .. MaxObjects
      BY ShadowRulesAssumption
    <3>2. <<>> \in UNION {[1 .. n -> Stationary] : n \in 0 .. MaxObjects}
      BY <3>1
    <3>. QED
      BY <2>1, <3>2 DEF ReplayFact, Fact
  <2>. QED
    BY <2>1, <2>2 DEF ReplayEvent
<1>2. DOMAIN s = 1 .. Len(s) /\ Len(s) \in Nat /\ \A i \in 1 .. Len(s) : s[i] \in Observation
  OBVIOUS
<1>3. Records(s) = [i \in 1 .. Len(s) |-> Record(i - 1, s[i])]
  BY <1>2 DEF Records
<1>4. \A i \in 1 .. Len(s) : Record(i - 1, s[i]) \in ReplayRecord
  <2> TAKE i \in 1 .. Len(s)
  <2>1. i - 1 \in Nat
    BY <1>2
  <2>. QED
    BY <1>1, <1>2, <2>1 DEF Record, ReplayRecord
<1>5. Records(s) \in Seq(ReplayRecord) /\ Len(Records(s)) = Len(s)
  BY <1>2, <1>3, <1>4
<1>6. \A i \in 1 .. Len(s) : /\ Records(s)[i].sequence = i - 1
                            /\ Records(s)[i].event = [s[i] EXCEPT !.fact = ReplayFact(@)]
  BY <1>3 DEF Record
<1>. QED
  BY <1>1, <1>2, <1>5, <1>6

(* The manifest of an export is one.                                       *)
LEMMA ManifestTyped ==
  ASSUME NEW q, q.source \in Source, NEW s \in Seq(Observation), NEW more \in BOOLEAN
  PROVE  Manifest(q, s, more) \in ReplayManifest
<1>1. Records(s) \in Seq(ReplayRecord) /\ Len(s) \in Nat
  BY RecordsKeep
<1>2. ASSUME s # <<>>
      PROVE  s[1].occurred \in Nat /\ s[Len(s)].occurred \in Nat
  <2>1. 1 \in 1 .. Len(s) /\ Len(s) \in 1 .. Len(s)
    BY <1>2
  <2>2. s[1] \in ReplayEvent /\ s[Len(s)] \in ReplayEvent
    BY <2>1, ReplayAssumption
  <2>. QED
    BY <2>2 DEF ReplayEvent
<1>. QED
  BY <1>1, <1>2 DEF Manifest, ReplayManifest

\* What is left of a list that was cut off.
LEMMA CutOffTyped ==
  ASSUME NEW s \in Seq(ReplayRecord \cup {Torn})
  PROVE  CutOff(s) \subseteq Seq(ReplayRecord \cup {Torn})
BY DEF CutOff

-----------------------------------------------------------------------------
(* What every step leaves as it was: what is stored, made, owned and       *)
(* damaged stays so, and so does the work of an export that made its       *)
(* directory.                                                              *)
Grows ==
  /\ stored \subseteq stored' /\ made \subseteq made' /\ damaged \subseteq damaged'
  /\ \A d \in Directory : maker[d] \in Exporter => maker'[d] = maker[d]

Persists(x) ==
  /\ stage[x] \in Holding \cup {"died"} =>
       stage'[x] \in Holding \cup {"died"} /\ request'[x] = request[x]
  /\ stage[x] = "exported" =>
       stage'[x] = "exported" /\ rows'[x] = rows[x] /\ truncated'[x] = truncated[x]

Rests(x) ==
  /\ stage'[x] = stage[x] /\ request'[x] = request[x] /\ rows'[x] = rows[x]
  /\ truncated'[x] = truncated[x] /\ seen'[x] = seen[x]

Untouched(d) == events'[d] = events[d] /\ manifest'[d] = manifest[d]

(* An exporter that rests keeps what others know of it.                    *)
LEMMA RestsPersists == \A x \in Exporter : Rests(x) => Persists(x)
BY DEF Rests, Persists

(* What an exporter wrote stays written by it.                             *)
LEMMA WrittenStays ==
  ASSUME Grows, NEW x \in Exporter, Persists(x), NEW d \in Directory, NEW m, Written(x, d, m)
  PROVE  Written(x, d, m)'
<1>1. /\ stage'[x] = "exported" /\ rows'[x] = rows[x] /\ truncated'[x] = truncated[x]
      /\ request'[x] = request[x]
  BY DEF Written, Persists, Holding
<1>2. d \in damaged' \/ maker'[d] = x
  BY DEF Written, Grows
<1>3. m = Manifest(request'[x], rows'[x], truncated'[x])
  BY <1>1 DEF Written, Bundle
<1>. QED
  BY <1>1, <1>2, <1>3 DEF Written, Bundle

(* What holds of an exporter holds after a step of others, which may only  *)
(* damage its directory.                                                   *)
LEMMA ExporterStays ==
  ASSUME Grows, NEW x \in Exporter, ExporterHolds(x), Rests(x),
         ReplayTypeOK,
         stage[x] \in Holding => Untouched(request[x].dir) \/ request[x].dir \in damaged'
  PROVE  ExporterHolds(x)'
<1>1. Found(x)' = Found(x) /\ Bundle(x)' = Bundle(x)
  BY DEF Rests, Found, Bundle
<1>2. stage[x] \in Holding => request[x].dir \in Directory
  BY DEF ExporterHolds, ReplayTypeOK
<1>3. stage[x] \in Holding => /\ request[x].dir \in made' /\ maker'[request[x].dir] = x
  BY <1>2 DEF ExporterHolds, Grows
<1>4. ASSUME request[x] # None, request[x].dir \notin damaged',
             stage[x] \in {"manifest", "manifest_open", "exported"}
      PROVE  /\ events'[request[x].dir] = Records(rows[x])
             /\ stage[x] = "exported" => manifest'[request[x].dir] = Bundle(x)
  <2>1. stage[x] \in Holding /\ request[x].dir \notin damaged
    BY <1>4 DEF Holding, Working, Grows
  <2>2. Untouched(request[x].dir)
    BY <1>4, <2>1
  <2>. QED
    BY <1>4, <2>1, <2>2 DEF ExporterHolds, Untouched
<1>5. stage[x] = "exported" => stage[x] \in {"manifest", "manifest_open", "exported"}
  OBVIOUS
<1>6. stage[x] \in Holding \cup {"queried"} => seen[x] \subseteq stored'
  BY DEF ExporterHolds, Grows
<1>. QED
  BY <1>1, <1>3, <1>4, <1>5, <1>6 DEF ExporterHolds, Rests

(* What holds of a directory holds after a step that leaves its manifest,  *)
(* spoils it or puts a written one in its place.                           *)
LEMMA DirectoryStays ==
  ASSUME Grows, \A x \in Exporter : Persists(x), NEW d \in Directory, DirectoryHolds(d),
         d \in made' => d \in made, maker'[d] = maker[d],
         \/ manifest'[d] = manifest[d]
         \/ manifest'[d] \in {None, Torn}
         \/ (\E x \in Exporter : Written(x, d, manifest[d]))'
  PROVE  DirectoryHolds(d)'
<1>1. d \in made' => /\ maker'[d] \in Exporter /\ stage'[maker'[d]] \in Holding \cup {"died"}
                     /\ request'[maker'[d]] \in ExportRequest /\ request'[maker'[d]].dir = d
  BY DEF DirectoryHolds, Persists
<1>2. d \notin made' => maker'[d] = None
  BY DEF DirectoryHolds, Grows
<1>3. ASSUME manifest'[d] \notin {None, Torn}
      PROVE  (\E x \in Exporter : Written(x, d, manifest[d]))'
  <2>1. CASE manifest'[d] = manifest[d]
    <3>1. PICK x \in Exporter : Written(x, d, manifest[d])
      BY <1>3, <2>1 DEF DirectoryHolds
    <3> DEFINE m == manifest[d]
    <3>2. \A n : Written(x, d, n) => Written(x, d, n)'
      BY WrittenStays
    <3>3. Written(x, d, m)'
      BY <2>1, <3>1, <3>2 DEF Written
    <3>. QED
      BY <3>3
  <2>. QED
    BY <1>3, <2>1
<1>. QED
  BY <1>1, <1>2, <1>3 DEF DirectoryHolds

(* What holds of the replay holds after steps of others.                   *)
LEMMA PlayStays ==
  ASSUME Grows, \A x \in Exporter : Persists(x), PlayHolds, UNCHANGED player
  PROVE  PlayHolds'
<1>1. replay' = replay /\ emitted' = emitted
  BY DEF player
<1>2. \A event : ReplayedAt(event)' = ReplayedAt(event)
  BY <1>1 DEF ReplayedAt
<1>3. ASSUME replay.state # "idle"
      PROVE  (\E x \in Exporter : Written(x, replay.dir, replay.manifest))'
  <2>1. PICK x \in Exporter : Written(x, replay.dir, replay.manifest)
    BY <1>3 DEF PlayHolds
  <2>2. \A d \in Directory : \A n : Written(x, d, n) => Written(x, d, n)'
    BY WrittenStays
  <2>3. replay.dir \in Directory
    BY <1>3 DEF PlayHolds
  <2>. QED
    BY <1>1, <2>1, <2>2, <2>3 DEF Written
<1>. QED
  BY <1>1, <1>2, <1>3 DEF PlayHolds

(* No exporter, directory or replay has begun.                             *)
LEMMA ReplayInitHolds == ReplayInit => ReplayInv
<1> SUFFICES ASSUME ReplayInit
             PROVE  ReplayInv
  OBVIOUS
<1>1. ReplayTypeOK
  <2>1. <<>> \in Seq(Observation) /\ <<>> \in Seq(ReplayRecord) /\ 0 \in 0 .. MaxMishaps
    BY ReplayAssumption
  <2>2. replay \in [state : {"idle", "loading", "playing", "reported"}, dir : Directory \cup {None},
                    clock : Clock \cup {None}, manifest : ReplayManifest \cup {None},
                    lines : Seq(ReplayRecord)]
    BY <2>1 DEF ReplayInit, NoReplay
  <2>. QED
    BY <2>1, <2>2 DEF ReplayInit, ReplayTypeOK
<1>2. IsFiniteSet(stored)
  BY FS_EmptySet DEF ReplayInit
<1>3. \A x \in Exporter : ExporterHolds(x)
  BY DEF ReplayInit, ExporterHolds, Holding, Working
<1>4. \A d \in Directory : DirectoryHolds(d)
  BY DEF ReplayInit, DirectoryHolds
<1>5. PlayHolds
  BY DEF ReplayInit, PlayHolds, NoReplay
<1>. QED
  BY <1>1, <1>2, <1>3, <1>4, <1>5 DEF ReplayInv

(* A step of exporter y touches nothing but y and the directory it holds.  *)
LEMMA ExportKeeps ==
  ASSUME ReplayInv, NEW y \in Exporter, Grows, Persists(y),
         \A x \in Exporter \ {y} : Rests(x),
         \A d \in Directory : Untouched(d) \/ (stage[y] \in Holding /\ d = request[y].dir),
         UNCHANGED <<stored, player>>,
         ReplayTypeOK', ExporterHolds(y)', \A d \in Directory : DirectoryHolds(d)'
  PROVE  ReplayInv'
<1>1. \A x \in Exporter : Persists(x)
  BY RestsPersists
<1>2. PlayHolds'
  BY <1>1, PlayStays DEF ReplayInv
<1>3. ASSUME NEW x \in Exporter \ {y}
      PROVE  ExporterHolds(x)'
  <2>1. ExporterHolds(x) /\ ExporterHolds(y) /\ ReplayTypeOK /\ Rests(x)
    BY DEF ReplayInv
  <2>2. ASSUME stage[x] \in Holding
        PROVE  Untouched(request[x].dir)
    <3>1. maker[request[x].dir] = x /\ request[x].dir \in Directory
      BY <2>1, <2>2 DEF ExporterHolds, ReplayTypeOK
    <3>2. stage[y] \in Holding => maker[request[y].dir] = y
      BY <2>1 DEF ExporterHolds
    <3>. QED
      BY <3>1, <3>2
  <2>. QED
    BY <2>1, <2>2, ExporterStays
<1>. QED
  BY <1>2, <1>3 DEF ReplayInv

(* An exporter takes a request, or refuses it (exporter.py:35).            *)
LEMMA AskKeeps ==
  ASSUME ReplayInv, NEW y \in Exporter, Ask(y)
  PROVE  ReplayInv'
<1>1. PICK q \in ExportRequest :
        /\ stage[y] = "idle"
        /\ request' = [request EXCEPT ![y] = q]
        /\ stage' = [stage EXCEPT ![y] = IF Acceptable(q) THEN "accepted" ELSE "refused"]
  BY DEF Ask, MoveTo
<1>2. /\ UNCHANGED <<stored, seen, rows, truncated, made, maker, events, manifest, damaged, mishaps,
                     replay, emitted>>
  BY DEF Ask, database, files, player
<1>3. ReplayTypeOK
  BY DEF ReplayInv
<1>4. /\ stage'[y] \in {"accepted", "refused"} /\ request'[y] = q
      /\ stage'[y] = "accepted" => q.limit \in 1 .. MAX_EVENTS /\ q.source \in Source
      /\ \A x \in Exporter \ {y} : Rests(x)
  BY <1>1, <1>2, <1>3 DEF ReplayTypeOK, Acceptable, Rests
<1>5. ReplayTypeOK'
  BY <1>1, <1>2, <1>3 DEF ReplayTypeOK
<1>6. Grows /\ Persists(y) /\ \A d \in Directory : Untouched(d)
  BY <1>1, <1>2 DEF Grows, Persists, Untouched, Holding, Working
<1>7. ExporterHolds(y)'
  BY <1>4 DEF ExporterHolds, Holding, Working
<1>8. \A d \in Directory : DirectoryHolds(d)'
  BY <1>2, <1>4, <1>6, DirectoryStays, RestsPersists DEF ReplayInv
<1>. QED
  <2>1. UNCHANGED <<stored, player>>
    BY <1>2 DEF player
  <2>2. \A d \in Directory : Untouched(d) \/ (stage[y] \in Holding /\ d = request[y].dir)
    BY <1>6
  <2>3. Grows /\ Persists(y) /\ \A x \in Exporter \ {y} : Rests(x)
    BY <1>4, <1>6
  <2>. QED
    BY <1>5, <1>7, <1>8, <2>1, <2>2, <2>3, ExportKeeps

(* The rows an exporter found are the first of its window.                 *)
LEMMA QueryKeeps ==
  ASSUME ReplayInv, NEW y \in Exporter, Query(y)
  PROVE  ReplayInv'
<1> DEFINE q == request[y]
           found == FirstOf(q.limit + 1, Sorted(Window(q, stored)))
<1>1. /\ stage[y] = "accepted"
      /\ rows' = [rows EXCEPT ![y] = FirstOf(q.limit, found)]
      /\ truncated' = [truncated EXCEPT ![y] = Len(found) > q.limit]
      /\ seen' = [seen EXCEPT ![y] = stored]
      /\ stage' = [stage EXCEPT ![y] = "queried"]
      /\ UNCHANGED <<stored, request, made, maker, events, manifest, damaged, mishaps,
                     replay, emitted>>
  BY DEF Query, MoveTo, files, player
<1>2. ReplayTypeOK /\ ExporterHolds(y) /\ IsFiniteSet(stored)
  BY DEF ReplayInv
<1>3. q \in ExportRequest /\ q.limit \in Nat \ {0} /\ q.limit \in 1 .. MAX_EVENTS /\ q.source \in Source
  BY <1>1, <1>2 DEF ExporterHolds
<1>4. FirstOf(q.limit, found) \in Seq(Observation)
  <2>1. Window(q, stored) \in SUBSET Observation /\ Window(q, stored) \in SUBSET stored
    BY <1>2 DEF ReplayTypeOK, Window
  <2>2. IsFiniteSet(Window(q, stored))
    BY <1>2, <2>1, FS_Subset
  <2>. QED
    <3>1. AreFirst(Window(q, stored), q.limit, found, FirstOf(q.limit, found))
      BY <1>3, <2>1, <2>2, QueryFinds
    <3>. QED
      BY <3>1 DEF AreFirst
<1> HIDE DEF found
<1>5. ReplayTypeOK'
  BY <1>1, <1>2, <1>4 DEF ReplayTypeOK
<1>6. /\ stage'[y] = "queried" /\ request'[y] = q /\ rows'[y] = FirstOf(q.limit, found)
      /\ truncated'[y] = (Len(found) > q.limit) /\ seen'[y] = stored
      /\ \A x \in Exporter \ {y} : Rests(x)
  BY <1>1, <1>2 DEF ReplayTypeOK, Rests
<1>7. Grows /\ Persists(y) /\ \A d \in Directory : Untouched(d)
  BY <1>1 DEF Grows, Persists, Untouched, Holding, Working
<1>8. ExporterHolds(y)'
  <2>1. Found(y)' = found
    BY <1>6 DEF Found, found
  <2>. QED
    BY <1>1, <1>3, <1>6, <2>1 DEF ExporterHolds, Holding, Working
<1>9. \A d \in Directory : DirectoryHolds(d)'
  BY <1>1, <1>6, <1>7, DirectoryStays, RestsPersists DEF ReplayInv
<1>. QED
  <2>1. UNCHANGED <<stored, player>>
    BY <1>1 DEF player
  <2>. QED
    BY <1>5, <1>6, <1>7, <1>8, <1>9, <2>1, ExportKeeps

\* An exporter that gives its directory up, or never had one.
LEMMA LeaveKeeps ==
  ASSUME ReplayInv, NEW y \in Exporter, DirectoryTaken(y) \/ ExportDies(y)
  PROVE  ReplayInv'
<1>1. /\ stage[y] \in Working \cup {"accepted", "queried"}
      /\ \/ stage' = [stage EXCEPT ![y] = "refused"] /\ stage[y] = "queried" /\ mishaps' = mishaps
         \/ /\ stage' = [stage EXCEPT ![y] = "died"]
            /\ mishaps < MaxMishaps /\ mishaps' = mishaps + 1
      /\ UNCHANGED <<stored, seen, request, rows, truncated, made, maker, events, manifest,
                     damaged, replay, emitted>>
  BY DEF DirectoryTaken, ExportDies, MoveTo, database, files, player
<1>2. ReplayTypeOK /\ ExporterHolds(y)
  BY DEF ReplayInv
<1>3. mishaps' \in 0 .. MaxMishaps
  BY <1>1, <1>2, ReplayAssumption DEF ReplayTypeOK
<1>4. ReplayTypeOK'
  BY <1>1, <1>2, <1>3 DEF ReplayTypeOK
<1>5. /\ stage'[y] = "died" \/ (stage'[y] = "refused" /\ stage[y] = "queried")
      /\ \A x \in Exporter \ {y} : Rests(x)
  BY <1>1, <1>2 DEF ReplayTypeOK, Rests
<1>6. Grows /\ Persists(y) /\ \A d \in Directory : Untouched(d)
  BY <1>1, <1>5 DEF Grows, Persists, Untouched, Holding, Working
<1>7. ExporterHolds(y)'
  BY <1>1, <1>2, <1>5 DEF ExporterHolds, Holding, Working
<1>8. \A d \in Directory : DirectoryHolds(d)'
  BY <1>1, <1>5, <1>6, DirectoryStays, RestsPersists DEF ReplayInv
<1>9. UNCHANGED <<stored, player>>
  BY <1>1 DEF player
<1>. QED
  BY <1>4, <1>5, <1>6, <1>7, <1>8, <1>9, ExportKeeps

(* The exporter that makes a directory is the only one that holds it.      *)
LEMMA MakeDirectoryKeeps ==
  ASSUME ReplayInv, NEW y \in Exporter, MakeDirectory(y)
  PROVE  ReplayInv'
<1> DEFINE e == request[y].dir
<1>1. /\ stage[y] = "queried" /\ e \notin made
      /\ made' = made \cup {e} /\ maker' = [maker EXCEPT ![e] = y]
      /\ stage' = [stage EXCEPT ![y] = "events"]
      /\ UNCHANGED <<stored, seen, request, rows, truncated, events, manifest, damaged, mishaps,
                     replay, emitted>>
  BY DEF MakeDirectory, Free, MoveTo, database, player
<1>2. ReplayTypeOK /\ ExporterHolds(y)
  BY DEF ReplayInv
<1>3. request[y] \in ExportRequest /\ e \in Directory
  BY <1>1, <1>2, ReplayAssumption DEF ExporterHolds
<1> HIDE DEF e
<1>4. ReplayTypeOK'
  <2>1. maker' \in [Directory -> Exporter \cup {None}]
    BY <1>1, <1>2, <1>3 DEF ReplayTypeOK
  <2>2. made' \subseteq Directory /\ damaged' \subseteq made'
    BY <1>1, <1>2, <1>3 DEF ReplayTypeOK
  <2>3. stage' \in [Exporter -> Working \cup {"idle", "accepted", "refused", "queried", "exported",
                                              "died"}]
    BY <1>1, <1>2 DEF ReplayTypeOK, Working
  <2>. QED
    BY <1>1, <1>2, <2>1, <2>2, <2>3 DEF ReplayTypeOK
<1>5. /\ stage'[y] = "events" /\ maker'[e] = y /\ \A d \in Directory \ {e} : maker'[d] = maker[d]
      /\ \A x \in Exporter \ {y} : Rests(x)
  BY <1>1, <1>2, <1>3 DEF ReplayTypeOK, Rests
<1>6. maker[e] = None /\ None \notin Exporter
  BY <1>1, <1>3, NoneAndTorn DEF ReplayInv, DirectoryHolds
<1>7. Grows /\ Persists(y) /\ \A d \in Directory : Untouched(d)
  BY <1>1, <1>5, <1>6 DEF Grows, Persists, Untouched, Holding, Working
<1>8. ExporterHolds(y)'
  BY <1>1, <1>2, <1>5 DEF ExporterHolds, Holding, Working, e, Found
<1>9. ASSUME NEW d \in Directory
      PROVE  DirectoryHolds(d)'
  <2>1. CASE d # e
    BY <1>1, <1>5, <1>7, <2>1, DirectoryStays, RestsPersists DEF ReplayInv
  <2>2. CASE d = e
    <3>1. manifest[d] \in {None, Torn}
      <4> SUFFICES ASSUME NEW x \in Exporter, Written(x, d, manifest[d])
                   PROVE  FALSE
        BY DEF ReplayInv, DirectoryHolds
      <4>. QED
        BY <1>1, <1>2, <1>6, <2>2 DEF Written, ReplayTypeOK
    <3>. QED
      BY <1>1, <1>3, <1>5, <2>2, <3>1 DEF DirectoryHolds, Holding, Working, e
  <2>. QED
    BY <2>1, <2>2
<1>10. UNCHANGED <<stored, player>>
  BY <1>1 DEF player
<1>. QED
  BY <1>4, <1>5, <1>7, <1>8, <1>9, <1>10, ExportKeeps

(* events.jsonl is cut short until it is closed.                           *)
LEMMA WriteEventsKeeps ==
  ASSUME ReplayInv, NEW y \in Exporter, OpenEvents(y) \/ CloseEvents(y)
  PROVE  ReplayInv'
<1> DEFINE e == request[y].dir
<1>1. ReplayTypeOK /\ ExporterHolds(y)
  BY DEF ReplayInv
<1>2. Records(rows[y]) \in Seq(ReplayRecord)
  BY <1>1, RecordsKeep DEF ReplayTypeOK
<1>3. \E lines \in Seq(ReplayRecord \cup {Torn}) :
        /\ events' = [events EXCEPT ![e] = lines]
        /\ \/ stage[y] = "events" /\ stage' = [stage EXCEPT ![y] = "events_open"]
           \/ /\ stage[y] = "events_open" /\ stage' = [stage EXCEPT ![y] = "manifest"]
              /\ lines = Records(rows[y])
        /\ UNCHANGED <<stored, seen, request, rows, truncated, made, maker, manifest, damaged,
                       mishaps, replay, emitted>>
  <2>1. Records(rows[y]) \in Seq(ReplayRecord \cup {Torn}) /\ <<>> \in Seq(ReplayRecord \cup {Torn})
    BY <1>2
  <2>2. CutOff(Records(rows[y])) \cup {<<>>} \subseteq Seq(ReplayRecord \cup {Torn})
    BY <2>1, CutOffTyped
  <2>3. CASE OpenEvents(y)
    BY <2>2, <2>3 DEF OpenEvents, MoveTo, database, player
  <2>4. CASE CloseEvents(y)
    BY <2>1, <2>4 DEF CloseEvents, MoveTo, database, player
  <2>. QED
    BY <2>3, <2>4
<1>4. PICK lines \in Seq(ReplayRecord \cup {Torn}) :
        /\ events' = [events EXCEPT ![e] = lines]
        /\ \/ stage[y] = "events" /\ stage' = [stage EXCEPT ![y] = "events_open"]
           \/ /\ stage[y] = "events_open" /\ stage' = [stage EXCEPT ![y] = "manifest"]
              /\ lines = Records(rows[y])
        /\ UNCHANGED <<stored, seen, request, rows, truncated, made, maker, manifest, damaged,
                       mishaps, replay, emitted>>
  BY <1>3
<1>5. stage[y] \in Holding /\ request[y] \in ExportRequest /\ e \in made /\ e \in Directory
  BY <1>1, <1>4 DEF Holding, Working, ExporterHolds, ReplayTypeOK
<1> HIDE DEF e
<1>6. ReplayTypeOK'
  <2>1. events' \in [Directory -> Seq(ReplayRecord \cup {Torn}) \cup {None}]
    BY <1>1, <1>4, <1>5 DEF ReplayTypeOK
  <2>2. stage' \in [Exporter -> Working \cup {"idle", "accepted", "refused", "queried", "exported",
                                              "died"}]
    BY <1>1, <1>4 DEF ReplayTypeOK, Working
  <2>. QED
    BY <1>1, <1>4, <2>1, <2>2 DEF ReplayTypeOK
<1>7. /\ stage'[y] = "events_open" \/ (stage'[y] = "manifest" /\ lines = Records(rows[y]))
      /\ events'[e] = lines /\ \A d \in Directory \ {e} : events'[d] = events[d]
      /\ \A x \in Exporter \ {y} : Rests(x)
  BY <1>1, <1>4, <1>5 DEF ReplayTypeOK, Rests
<1>8. Grows /\ Persists(y) /\ \A d \in Directory \ {e} : Untouched(d)
  BY <1>4, <1>5, <1>7 DEF Grows, Persists, Untouched, Holding, Working
<1>9. ExporterHolds(y)'
  <2>1. Found(y)' = Found(y)
    BY <1>4 DEF Found
  <2>. QED
    BY <1>1, <1>4, <1>5, <1>7, <2>1 DEF ExporterHolds, Holding, Working, e
<1>10. \A d \in Directory : DirectoryHolds(d)'
  BY <1>4, <1>7, <1>8, DirectoryStays, RestsPersists DEF ReplayInv
<1>11. UNCHANGED <<stored, player>>
  BY <1>4 DEF player
<1>12. \A d \in Directory : Untouched(d) \/ (stage[y] \in Holding /\ d = request[y].dir)
  BY <1>5, <1>8 DEF e
<1>. QED
  BY <1>6, <1>7, <1>8, <1>9, <1>10, <1>11, <1>12, ExportKeeps

(* The manifest of an export stands beside its events.                     *)
LEMMA WriteManifestKeeps ==
  ASSUME ReplayInv, NEW y \in Exporter, OpenManifest(y) \/ CloseManifest(y)
  PROVE  ReplayInv'
<1> DEFINE e == request[y].dir
<1>1. ReplayTypeOK /\ ExporterHolds(y)
  BY DEF ReplayInv
<1>2. /\ \/ /\ stage[y] = "manifest" /\ stage' = [stage EXCEPT ![y] = "manifest_open"]
            /\ manifest' = [manifest EXCEPT ![e] = Torn]
         \/ /\ stage[y] = "manifest_open" /\ stage' = [stage EXCEPT ![y] = "exported"]
            /\ manifest' = [manifest EXCEPT ![e] = Bundle(y)]
      /\ UNCHANGED <<stored, seen, request, rows, truncated, made, maker, events, damaged,
                     mishaps, replay, emitted>>
  BY DEF OpenManifest, CloseManifest, MoveTo, Bundle, database, player
<1>3. /\ stage[y] \in Holding /\ request[y] \in ExportRequest /\ e \in made /\ e \in Directory
      /\ maker[e] = y /\ request[y].source \in Source
  BY <1>1, <1>2 DEF Holding, Working, ExporterHolds, ReplayTypeOK
<1>4. Bundle(y) \in ReplayManifest
  BY <1>1, <1>3, ManifestTyped DEF Bundle, ReplayTypeOK
<1> HIDE DEF e
<1>5. ReplayTypeOK'
  <2>1. manifest' \in [Directory -> ReplayManifest \cup {None, Torn}]
    BY <1>1, <1>2, <1>3, <1>4 DEF ReplayTypeOK
  <2>2. stage' \in [Exporter -> Working \cup {"idle", "accepted", "refused", "queried", "exported",
                                              "died"}]
    BY <1>1, <1>2 DEF ReplayTypeOK, Working
  <2>. QED
    BY <1>1, <1>2, <2>1, <2>2 DEF ReplayTypeOK
<1>6. /\ \/ stage'[y] = "manifest_open" /\ manifest'[e] = Torn
         \/ stage'[y] = "exported" /\ manifest'[e] = Bundle(y)
      /\ \A d \in Directory \ {e} : manifest'[d] = manifest[d]
      /\ \A x \in Exporter \ {y} : Rests(x)
  BY <1>1, <1>2, <1>3 DEF ReplayTypeOK, Rests
<1>7. Grows /\ Persists(y) /\ \A d \in Directory \ {e} : Untouched(d)
  BY <1>2, <1>3, <1>6 DEF Grows, Persists, Untouched, Holding, Working
<1>8. Bundle(y)' = Bundle(y) /\ Found(y)' = Found(y)
  BY <1>2 DEF Bundle, Found
<1>9. ExporterHolds(y)'
  BY <1>1, <1>2, <1>3, <1>6, <1>8 DEF ExporterHolds, Holding, Working, e
<1>10. ASSUME NEW d \in Directory, d = e
       PROVE  manifest'[d] \in {None, Torn} \/ (\E x \in Exporter : Written(x, d, manifest[d]))'
  <2>1. stage'[y] = "exported" /\ manifest'[d] = Bundle(y) => Written(y, d, manifest[d])'
    BY <1>2, <1>3, <1>8, <1>10 DEF Written
  <2>. QED
    BY <1>6, <1>10, <2>1
<1>11. ASSUME NEW d \in Directory
       PROVE  DirectoryHolds(d)'
  <2>1. DirectoryHolds(d) /\ \A x \in Exporter : Persists(x)
    BY <1>6, <1>7, RestsPersists DEF ReplayInv
  <2>2. CASE d = e
    BY <1>2, <1>7, <1>10, <2>1, <2>2, DirectoryStays
  <2>3. CASE d # e
    BY <1>2, <1>6, <1>7, <2>1, <2>3, DirectoryStays
  <2>. QED
    BY <2>2, <2>3
<1>12. UNCHANGED <<stored, player>>
  BY <1>2 DEF player
<1>13. \A d \in Directory : Untouched(d) \/ (stage[y] \in Holding /\ d = request[y].dir)
  BY <1>3, <1>7 DEF e
<1>. QED
  BY <1>5, <1>6, <1>7, <1>9, <1>11, <1>12, <1>13, ExportKeeps

(* Late observations do not change what was found.                         *)
LEMMA IngestKeeps ==
  ASSUME ReplayInv, NEW o \in Observation, Ingest(o)
  PROVE  ReplayInv'
<1>1. /\ stored' = stored \cup {o}
      /\ UNCHANGED <<seen, stage, request, rows, truncated, made, maker, events, manifest, damaged,
                     mishaps, player>>
  BY DEF Ingest, export, files
<1>2. ReplayTypeOK /\ \A x \in Exporter : ExporterHolds(x)
  BY DEF ReplayInv
<1>3. ReplayTypeOK'
  BY <1>1, <1>2 DEF ReplayTypeOK, player
<1>4. IsFiniteSet(stored)'
  BY <1>1, FS_AddElement DEF ReplayInv
<1>5. Grows /\ (\A x \in Exporter : Rests(x)) /\ \A d : Untouched(d)
  BY <1>1 DEF Grows, Rests, Untouched
<1>6. \A x \in Exporter : ExporterHolds(x)'
  BY <1>2, <1>5, ExporterStays
<1>7. \A d \in Directory : DirectoryHolds(d)'
  BY <1>1, <1>5, DirectoryStays, RestsPersists DEF ReplayInv
<1>8. PlayHolds'
  BY <1>1, <1>5, PlayStays, RestsPersists DEF ReplayInv
<1>. QED
  BY <1>3, <1>4, <1>6, <1>7, <1>8 DEF ReplayInv

(* A damaged directory is known as such.                                   *)
LEMMA DamageKeeps ==
  ASSUME ReplayInv, NEW e \in Directory, Damage(e)
  PROVE  ReplayInv'
<1>1. ReplayTypeOK /\ \A x \in Exporter : ExporterHolds(x)
  BY DEF ReplayInv
<1>2. /\ e \in made /\ mishaps < MaxMishaps /\ mishaps' = mishaps + 1
      /\ damaged' = damaged \cup {e}
      /\ UNCHANGED <<stored, seen, stage, request, rows, truncated, made, maker, player>>
  BY DEF Damage, database, export
<1>3. \/ /\ manifest' = manifest
         /\ \E lines \in Seq(ReplayRecord \cup {Torn}) \cup {None} : events' = [events EXCEPT ![e] = lines]
      \/ /\ events' = events
         /\ \E m \in {None, Torn} \cup {manifest[d] : d \in Directory} :
              manifest' = [manifest EXCEPT ![e] = m]
  <2>1. events[e] # None => CutOff(events[e]) \subseteq Seq(ReplayRecord \cup {Torn})
    BY <1>1, CutOffTyped DEF ReplayTypeOK
  <2>2. \A d \in Directory : events[d] \in Seq(ReplayRecord \cup {Torn}) \cup {None}
    BY <1>1 DEF ReplayTypeOK
  <2>. QED
    BY <2>1, <2>2 DEF Damage
<1>4. /\ events' \in [Directory -> Seq(ReplayRecord \cup {Torn}) \cup {None}]
      /\ manifest' \in [Directory -> ReplayManifest \cup {None, Torn}]
      /\ \A d \in Directory \ {e} : Untouched(d)
      /\ \/ manifest'[e] \in {None, Torn}
         \/ \E d \in Directory : manifest'[e] = manifest[d]
  <2>1. CASE /\ manifest' = manifest
             /\ \E lines \in Seq(ReplayRecord \cup {Torn}) \cup {None} : events' = [events EXCEPT ![e] = lines]
    BY <1>1, <2>1 DEF ReplayTypeOK, Untouched
  <2>2. CASE /\ events' = events
             /\ \E m \in {None, Torn} \cup {manifest[d] : d \in Directory} :
                  manifest' = [manifest EXCEPT ![e] = m]
    BY <1>1, <2>2 DEF ReplayTypeOK, Untouched
  <2>. QED
    BY <1>3, <2>1, <2>2
<1>5. mishaps' \in 0 .. MaxMishaps
  BY <1>1, <1>2, ReplayAssumption DEF ReplayTypeOK
<1>6. ReplayTypeOK'
  BY <1>1, <1>2, <1>4, <1>5 DEF ReplayTypeOK, player
<1>7. Grows /\ (\A x \in Exporter : Rests(x)) /\ e \in damaged'
  BY <1>2 DEF Grows, Rests
<1>8. ASSUME NEW x \in Exporter
      PROVE  ExporterHolds(x)'
  <2>1. stage[x] \in Holding => request[x].dir \in Directory
    BY <1>1 DEF ExporterHolds, ReplayTypeOK
  <2>2. stage[x] \in Holding => Untouched(request[x].dir) \/ request[x].dir \in damaged'
    BY <1>4, <1>7, <2>1
  <2>. QED
    BY <1>1, <1>7, <2>2, ExporterStays
<1>9. ASSUME NEW d \in Directory
      PROVE  DirectoryHolds(d)'
  <2>1. DirectoryHolds(d) /\ \A x \in Exporter : Persists(x)
    BY <1>7, RestsPersists DEF ReplayInv
  <2>2. CASE d # e
    BY <1>2, <1>4, <1>7, <2>1, <2>2, DirectoryStays DEF Untouched
  <2>3. ASSUME d = e, manifest'[d] \notin {None, Torn}
        PROVE  (\E x \in Exporter : Written(x, d, manifest[d]))'
    <3>1. PICK c \in Directory : manifest'[d] = manifest[c]
      BY <1>4, <2>3
    <3>2. PICK x \in Exporter : Written(x, c, manifest[c])
      BY <2>3, <3>1 DEF ReplayInv, DirectoryHolds
    <3>3. Bundle(x)' = Bundle(x)
      BY <1>2 DEF Bundle
    <3>4. Written(x, d, manifest[d])'
      BY <1>2, <1>7, <2>3, <3>1, <3>2, <3>3 DEF Written
    <3>. QED
      BY <3>4
  <2>. QED
    BY <1>2, <1>7, <2>1, <2>2, <2>3, DirectoryStays
<1>10. PlayHolds'
  BY <1>2, <1>7, PlayStays, RestsPersists DEF ReplayInv
<1>. QED
  BY <1>2, <1>6, <1>8, <1>9, <1>10 DEF ReplayInv

-----------------------------------------------------------------------------
\* A step of the replay leaves the exporters and their files alone.
LEMMA PlayerKeeps ==
  ASSUME ReplayInv, UNCHANGED <<database, export, files, mishaps>>,
         replay' \in [state : {"idle", "loading", "playing", "reported"},
                      dir : Directory \cup {None}, clock : Clock \cup {None},
                      manifest : ReplayManifest \cup {None}, lines : Seq(ReplayRecord)],
         emitted' \in Seq([event : ReplayEvent, replayed_at : Int,
                           outcome : {"escalate", "send", "suppress", "no_action"}]),
         PlayHolds'
  PROVE  ReplayInv'
<1>1. UNCHANGED <<stored, seen, stage, request, rows, truncated, made, maker, events, manifest,
                  damaged, mishaps>>
  BY DEF database, export, files
<1>2. ReplayTypeOK'
  BY <1>1 DEF ReplayInv, ReplayTypeOK
<1>3. Grows /\ (\A x \in Exporter : Rests(x)) /\ \A d : Untouched(d)
  BY <1>1 DEF Grows, Rests, Untouched
<1>4. \A x \in Exporter : ExporterHolds(x)'
  BY <1>3, ExporterStays DEF ReplayInv
<1>5. \A d \in Directory : DirectoryHolds(d)'
  BY <1>1, <1>3, DirectoryStays, RestsPersists DEF ReplayInv
<1>. QED
  BY <1>1, <1>2, <1>4, <1>5 DEF ReplayInv

(* The manifest a replay has read was written by an export.                *)
LEMMA ReadManifestKeeps ==
  ASSUME ReplayInv, NEW e \in Directory, ReadManifest(e)
  PROVE  ReplayInv'
<1>1. PICK c \in Clock \cup {None} :
        replay' = [state |-> "loading", dir |-> e, clock |-> c, manifest |-> manifest[e],
                   lines |-> <<>>]
  BY DEF ReadManifest
<1>2. /\ replay.state = "idle" /\ manifest[e] \notin {None, Torn} /\ emitted' = emitted
      /\ UNCHANGED <<database, export, files, mishaps>>
  BY DEF ReadManifest
<1>3. manifest[e] \in ReplayManifest /\ emitted = <<>>
  BY <1>2 DEF ReplayInv, ReplayTypeOK, PlayHolds
<1>4. \E x \in Exporter : Written(x, e, manifest[e])
  BY <1>2 DEF ReplayInv, DirectoryHolds
<1>5. \E x \in Exporter : Written(x, replay'.dir, replay'.manifest)
  BY <1>1, <1>4
<1>6. \A d, m : \A x \in Exporter : Written(x, d, m) => Written(x, d, m)'
  BY <1>2 DEF Written, Bundle, export, files
<1>7. (\E x \in Exporter : Written(x, replay.dir, replay.manifest))'
  BY <1>5, <1>6 DEF Written
<1>8. PlayHolds'
  BY <1>1, <1>2, <1>3, <1>7 DEF PlayHolds
<1>9. replay' \in [state : {"idle", "loading", "playing", "reported"},
                   dir : Directory \cup {None}, clock : Clock \cup {None},
                   manifest : ReplayManifest \cup {None}, lines : Seq(ReplayRecord)]
  BY <1>1, <1>3
<1>10. emitted' \in Seq([event : ReplayEvent, replayed_at : Int,
                         outcome : {"escalate", "send", "suppress", "no_action"}])
  BY <1>2 DEF ReplayInv, ReplayTypeOK
<1>. QED
  BY <1>2, <1>8, <1>9, <1>10, PlayerKeeps

\* A replay that is given up, and one that could not be loaded.
LEMMA NoReplayKeeps ==
  ASSUME ReplayInv, UNCHANGED <<database, export, files, mishaps>>,
         replay' = NoReplay, emitted' = <<>>
  PROVE  ReplayInv'
<1>1. PlayHolds'
  BY DEF PlayHolds, NoReplay
<1>2. replay' \in [state : {"idle", "loading", "playing", "reported"},
                   dir : Directory \cup {None}, clock : Clock \cup {None},
                   manifest : ReplayManifest \cup {None}, lines : Seq(ReplayRecord)]
  BY DEF NoReplay
<1>3. emitted' \in Seq([event : ReplayEvent, replayed_at : Int,
                        outcome : {"escalate", "send", "suppress", "no_action"}])
  OBVIOUS
<1>. QED
  BY <1>1, <1>2, <1>3, PlayerKeeps

(* The lines a replay accepts are those its manifest speaks of.            *)
LEMMA ReadEventsKeeps ==
  ASSUME ReplayInv, ReadEvents
  PROVE  ReplayInv'
<1>1. /\ replay.state = "loading" /\ emitted' = emitted
      /\ UNCHANGED <<database, export, files, mishaps>>
  BY DEF ReadEvents
<1>2. emitted = <<>> /\ replay.manifest \in ReplayManifest /\ replay.dir \in Directory
  BY <1>1 DEF ReplayInv, PlayHolds
<1>3. CASE replay' = NoReplay
  BY <1>1, <1>2, <1>3, NoReplayKeeps
<1>4. CASE replay' # NoReplay
  <2>1. /\ replay' = [replay EXCEPT !.state = "playing", !.lines = events[replay.dir]]
        /\ events[replay.dir] = replay.manifest.events_sha256
    BY <1>4 DEF ReadEvents, Consistent
  <2>2. replay.manifest.events_sha256 \in Seq(ReplayRecord)
    BY <1>2 DEF ReplayManifest
  <2>3. replay \in [state : {"idle", "loading", "playing", "reported"},
                    dir : Directory \cup {None}, clock : Clock \cup {None},
                    manifest : ReplayManifest \cup {None}, lines : Seq(ReplayRecord)]
    BY DEF ReplayInv, ReplayTypeOK
  <2>4. replay' \in [state : {"idle", "loading", "playing", "reported"},
                     dir : Directory \cup {None}, clock : Clock \cup {None},
                     manifest : ReplayManifest \cup {None}, lines : Seq(ReplayRecord)]
    BY <2>1, <2>2, <2>3
  <2>5. /\ replay'.state = "playing" /\ replay'.dir = replay.dir
        /\ replay'.manifest = replay.manifest /\ replay'.lines = replay.manifest.events_sha256
    BY <2>1, <2>3
  <2>6. \E x \in Exporter : Written(x, replay'.dir, replay'.manifest)
    BY <1>1, <2>5 DEF ReplayInv, PlayHolds
  <2>7. \A d, m : \A x \in Exporter : Written(x, d, m) => Written(x, d, m)'
    BY <1>1 DEF Written, Bundle, export, files
  <2>8. (\E x \in Exporter : Written(x, replay.dir, replay.manifest))'
    BY <2>6, <2>7 DEF Written
  <2>9. PlayHolds'
    BY <1>1, <1>2, <2>2, <2>5, <2>8 DEF PlayHolds
  <2>10. emitted' \in Seq([event : ReplayEvent, replayed_at : Int,
                           outcome : {"escalate", "send", "suppress", "no_action"}])
    BY <1>1 DEF ReplayInv, ReplayTypeOK
  <2>. QED
    BY <1>1, <2>4, <2>9, <2>10, PlayerKeeps
<1>. QED
  BY <1>3, <1>4

\* The outcomes of the community policy.
LEMMA OutcomeTyped ==
  \A fact : Evaluate(fact).outcome \in {"escalate", "send", "suppress", "no_action"}
BY Outcomes

\* With --fixed-clock or without, times of replay are times.
LEMMA ReplayedAtTyped ==
  ASSUME ReplayTypeOK, replay.lines # <<>>, NEW event \in ReplayEvent
  PROVE  ReplayedAt(event) \in Int
<1>1. /\ replay.lines \in Seq(ReplayRecord) /\ replay.clock \in Clock \cup {None}
  BY DEF ReplayTypeOK
<1>2. replay.lines[1] \in ReplayRecord
  BY <1>1
<1>3. event.occurred \in Int /\ replay.lines[1].event.occurred \in Int
  BY <1>2 DEF ReplayRecord, ReplayEvent
<1>4. replay.clock = None \/ replay.clock \in Int
  <2>1. \A c \in Clock : c \in Int
    BY ReplayAssumption
  <2>2. replay.clock \in Clock \/ replay.clock = None
    BY <1>1
  <2>. QED
    BY <2>1, <2>2
<1>5. CASE replay.clock = None
  BY <1>3, <1>5 DEF ReplayedAt
<1>6. CASE replay.clock # None
  BY <1>3, <1>4, <1>6 DEF ReplayedAt
<1>. QED
  BY <1>5, <1>6

(* One more event is emitted, the next one.                                *)
LEMMA EmitKeeps ==
  ASSUME ReplayInv, Emit
  PROVE  ReplayInv'
<1> DEFINE n == Len(emitted) + 1
           event == replay.lines[n].event
           new == [event |-> event, replayed_at |-> ReplayedAt(event),
                   outcome |-> Evaluate(event.fact).outcome]
           Emitted == [event : ReplayEvent, replayed_at : Int,
                       outcome : {"escalate", "send", "suppress", "no_action"}]
<1>1. /\ replay.state = "playing" /\ Len(emitted) < Len(replay.lines)
      /\ emitted' = Append(emitted, new) /\ replay' = replay
      /\ UNCHANGED <<database, export, files, mishaps>>
  BY DEF Emit
<1>2. ReplayTypeOK /\ PlayHolds /\ replay.lines \in Seq(ReplayRecord) /\ emitted \in Seq(Emitted)
  BY DEF ReplayInv, ReplayTypeOK
<1>3. n \in 1 .. Len(replay.lines) /\ replay.lines # <<>> /\ event \in ReplayEvent
  <2>1. n \in 1 .. Len(replay.lines)
    BY <1>1, <1>2
  <2>2. replay.lines[n] \in ReplayRecord
    BY <1>2, <2>1
  <2>. QED
    BY <1>1, <1>2, <2>1, <2>2 DEF ReplayRecord
<1>4. new \in Emitted
  BY <1>2, <1>3, OutcomeTyped, ReplayedAtTyped
<1> HIDE DEF event, new
<1>5. /\ emitted' \in Seq(Emitted) /\ Len(emitted') = n /\ emitted'[n] = new
      /\ \A i \in 1 .. Len(emitted) : emitted'[i] = emitted[i]
  BY <1>1, <1>2, <1>4
<1>6. \A v : ReplayedAt(v)' = ReplayedAt(v)
  BY <1>1 DEF ReplayedAt
<1>7. ASSUME NEW i \in 1 .. Len(emitted')
      PROVE  /\ emitted'[i].event = replay.lines[i].event
             /\ emitted'[i].replayed_at = ReplayedAt(emitted'[i].event)
             /\ emitted'[i].outcome = Evaluate(emitted'[i].event.fact).outcome
  <2>1. CASE i \in 1 .. Len(emitted)
    BY <1>2, <1>5, <2>1 DEF PlayHolds
  <2>2. CASE i = n
    BY <1>5, <2>2 DEF new, event
  <2>. QED
    BY <1>2, <1>5, <2>1, <2>2
<1>8. (\E x \in Exporter : Written(x, replay.dir, replay.manifest))'
  <2>1. PICK x \in Exporter : Written(x, replay.dir, replay.manifest)
    BY <1>1, <1>2 DEF PlayHolds
  <2>. QED
    BY <1>1, <2>1 DEF Written, Bundle, export, files
<1>9. PlayHolds'
  BY <1>1, <1>2, <1>3, <1>5, <1>6, <1>7, <1>8 DEF PlayHolds
<1>10. replay' \in [state : {"idle", "loading", "playing", "reported"},
                    dir : Directory \cup {None}, clock : Clock \cup {None},
                    manifest : ReplayManifest \cup {None}, lines : Seq(ReplayRecord)]
  BY <1>1, <1>2 DEF ReplayTypeOK
<1>. QED
  BY <1>1, <1>5, <1>9, <1>10, PlayerKeeps

(* A replay reports success only when it has emitted all.                  *)
LEMMA ReportKeeps ==
  ASSUME ReplayInv, Report
  PROVE  ReplayInv'
<1>1. /\ replay.state = "playing" /\ Len(emitted) = Len(replay.lines)
      /\ replay' = [replay EXCEPT !.state = "reported"] /\ emitted' = emitted
      /\ UNCHANGED <<database, export, files, mishaps>>
  BY DEF Report
<1>2. replay \in [state : {"idle", "loading", "playing", "reported"},
                  dir : Directory \cup {None}, clock : Clock \cup {None},
                  manifest : ReplayManifest \cup {None}, lines : Seq(ReplayRecord)]
  BY DEF ReplayInv, ReplayTypeOK
<1>3. /\ replay'.state = "reported" /\ replay'.dir = replay.dir /\ replay'.clock = replay.clock
      /\ replay'.manifest = replay.manifest /\ replay'.lines = replay.lines
  BY <1>1, <1>2
<1>4. \A v : ReplayedAt(v)' = ReplayedAt(v)
  BY <1>3 DEF ReplayedAt
<1>5. (\E x \in Exporter : Written(x, replay.dir, replay.manifest))'
  <2>1. PICK x \in Exporter : Written(x, replay.dir, replay.manifest)
    BY <1>1 DEF ReplayInv, PlayHolds
  <2>. QED
    BY <1>1, <1>3, <2>1 DEF Written, Bundle, export, files
<1>6. PlayHolds'
  BY <1>1, <1>3, <1>4, <1>5 DEF ReplayInv, PlayHolds
<1>7. replay' \in [state : {"idle", "loading", "playing", "reported"},
                   dir : Directory \cup {None}, clock : Clock \cup {None},
                   manifest : ReplayManifest \cup {None}, lines : Seq(ReplayRecord)]
  BY <1>1, <1>2
<1>8. emitted' \in Seq([event : ReplayEvent, replayed_at : Int,
                        outcome : {"escalate", "send", "suppress", "no_action"}])
  BY <1>1 DEF ReplayInv, ReplayTypeOK
<1>. QED
  BY <1>1, <1>6, <1>7, <1>8, PlayerKeeps

(* The invariant is inductive.                                             *)
LEMMA ReplayInvInductive == ReplaySpec => []ReplayInv
<1>1. ReplayInit => ReplayInv
  BY ReplayInitHolds
<1>2. ReplayInv /\ [ReplayNext]_replayVars => ReplayInv'
  <2> SUFFICES ASSUME ReplayInv, [ReplayNext]_replayVars
               PROVE  ReplayInv'
    OBVIOUS
  <2>1. ASSUME NEW o \in Observation, Ingest(o)
        PROVE  ReplayInv'
    BY <2>1, IngestKeeps
  <2>2. ASSUME NEW x \in Exporter, Export(x)
        PROVE  ReplayInv'
    BY <2>2, AskKeeps, QueryKeeps, MakeDirectoryKeeps, LeaveKeeps, WriteEventsKeeps,
       WriteManifestKeeps DEF Export
  <2>3. ASSUME NEW d \in Directory, Damage(d) \/ ReadManifest(d)
        PROVE  ReplayInv'
    BY <2>3, DamageKeeps, ReadManifestKeeps
  <2>4. CASE ReadEvents
    BY <2>4, ReadEventsKeeps
  <2>5. CASE Emit
    BY <2>5, EmitKeeps
  <2>6. CASE Report
    BY <2>6, ReportKeeps
  <2>7. CASE LeaveReplay
    BY <2>7, NoReplayKeeps DEF LeaveReplay
  <2>8. CASE UNCHANGED replayVars
    <3>1. /\ UNCHANGED <<database, export, files, mishaps, player>>
      BY <2>8 DEF replayVars
    <3>2. replay' = replay /\ emitted' = emitted
      BY <3>1 DEF player
    <3>3. Grows /\ \A x \in Exporter : Rests(x)
      BY <3>1 DEF Grows, Rests, database, export, files
    <3>4. PlayHolds'
      BY <3>1, <3>3, PlayStays, RestsPersists DEF ReplayInv
    <3>. QED
      BY <3>1, <3>2, <3>4, PlayerKeeps DEF ReplayInv, ReplayTypeOK
  <2>. QED
    BY <2>1, <2>2, <2>3, <2>4, <2>5, <2>6, <2>7, <2>8 DEF ReplayNext
<1>. QED
  BY <1>1, <1>2, PTL DEF ReplaySpec

-----------------------------------------------------------------------------
(* What an export that holds its rows found, put into words once: the      *)
(* first of its window, in order, and whether it left any.                 *)
LEMMA ExportFound ==
  ASSUME ReplayInv, NEW x \in Exporter, stage[x] \in Holding,
         NEW W, W = Window(request[x], seen[x])
  PROVE  /\ W \in SUBSET Observation /\ IsFiniteSet(W) /\ Cardinality(W) \in Nat
         /\ rows[x] \in Seq(Observation) /\ request[x].limit \in 1 .. MAX_EVENTS
         /\ Len(rows[x]) = IF request[x].limit < Cardinality(W) THEN request[x].limit
                           ELSE Cardinality(W)
         /\ truncated[x] = (Len(rows[x]) < Cardinality(W))
         /\ \A i \in 1 .. Len(rows[x]) : rows[x][i] \in W
         /\ \A i, j \in 1 .. Len(rows[x]) : i < j => Before(rows[x][i], rows[x][j])
         /\ \A o \in W : \/ \E i \in 1 .. Len(rows[x]) : rows[x][i] = o
                         \/ \A i \in 1 .. Len(rows[x]) : Before(rows[x][i], o)
<1>1. ReplayTypeOK /\ ExporterHolds(x) /\ IsFiniteSet(stored)
  BY DEF ReplayInv
<1>2. /\ seen[x] \subseteq stored /\ request[x].limit \in 1 .. MAX_EVENTS
      /\ rows[x] = FirstOf(request[x].limit, Found(x))
      /\ truncated[x] = (Len(Found(x)) > request[x].limit)
  BY <1>1 DEF ExporterHolds
<1>3. W \in SUBSET Observation /\ W \in SUBSET stored
  BY <1>1, <1>2 DEF ReplayTypeOK, Window
<1>4. IsFiniteSet(W)
  BY <1>1, <1>3, FS_Subset
<1> DEFINE n == request[x].limit
           found == Found(x)
           r == rows[x]
<1>5. n \in Nat \ {0} /\ found = FirstOf(n + 1, Sorted(W)) /\ r = FirstOf(n, found)
  BY <1>2 DEF Found
<1> HIDE DEF n, found, r
<1>6. AreFirst(W, n, found, r)
  BY <1>3, <1>4, <1>5, QueryFinds
<1>7. truncated[x] = (Len(r) < Cardinality(W))
  BY <1>2, <1>6 DEF n, found, AreFirst
<1>. QED
  BY <1>2, <1>3, <1>4, <1>6, <1>7 DEF n, r, AreFirst

(* What a replay emitted is what its export's rows say.                    *)
LEMMA EmittedAreRows ==
  ASSUME ReplayInv, replay.state \in {"playing", "reported"}
  PROVE  \E x \in Exporter :
           /\ stage[x] = "exported" /\ replay.manifest = Bundle(x)
           /\ x = maker[replay.dir] \/ replay.dir \in damaged
           /\ replay.lines = Records(rows[x]) /\ Len(emitted) \in Nat
           /\ Len(emitted) <= Len(rows[x])
           /\ replay.state = "reported" => Len(emitted) = Len(rows[x])
           /\ \A i \in 1 .. Len(emitted) :
                LET event == emitted[i].event
                IN  /\ event.id = rows[x][i].id /\ event.occurred = rows[x][i].occurred
                    /\ event.observed = rows[x][i].observed
                    /\ event.fact = ReplayFact(rows[x][i].fact)
                    /\ emitted[i].outcome = Evaluate(event.fact).outcome
                    /\ emitted[i].replayed_at = ReplayedAt(event)
                    /\ event.occurred \in Int
<1>1. ReplayTypeOK /\ PlayHolds
  BY DEF ReplayInv
<1>2. PICK x \in Exporter : Written(x, replay.dir, replay.manifest)
  BY <1>1 DEF PlayHolds
<1>3. replay.manifest = Bundle(x) /\ stage[x] = "exported"
  BY <1>2 DEF Written
<1>4. replay.lines = Records(rows[x])
  <2>1. Bundle(x).events_sha256 = Records(rows[x])
    BY DEF Bundle, Manifest
  <2>. QED
    BY <1>1, <1>3, <2>1 DEF PlayHolds
<1>5. rows[x] \in Seq(Observation) /\ Len(emitted) \in Nat
  BY <1>1 DEF ReplayTypeOK
<1>6. /\ Len(replay.lines) = Len(rows[x]) /\ Len(rows[x]) \in Nat
      /\ \A i \in 1 .. Len(rows[x]) :
           LET event == replay.lines[i].event
           IN  /\ event.id = rows[x][i].id /\ event.occurred = rows[x][i].occurred
               /\ event.observed = rows[x][i].observed
               /\ event.fact = ReplayFact(rows[x][i].fact)
  BY <1>4, <1>5, RecordsKeep
<1>7. \A i \in 1 .. Len(rows[x]) : rows[x][i].occurred \in Int
  <2>1. \A i \in 1 .. Len(rows[x]) : rows[x][i] \in ReplayEvent
    BY <1>5, ReplayAssumption
  <2>. QED
    BY <2>1 DEF ReplayEvent
<1>8. Len(emitted) <= Len(rows[x]) /\ (replay.state = "reported" => Len(emitted) = Len(rows[x]))
  BY <1>1, <1>6 DEF PlayHolds
<1>9. \A i \in 1 .. Len(emitted) :
        LET event == emitted[i].event
        IN  /\ event.id = rows[x][i].id /\ event.occurred = rows[x][i].occurred
            /\ event.observed = rows[x][i].observed
            /\ event.fact = ReplayFact(rows[x][i].fact)
            /\ emitted[i].outcome = Evaluate(event.fact).outcome
            /\ emitted[i].replayed_at = ReplayedAt(event)
            /\ event.occurred \in Int
  <2> TAKE i \in 1 .. Len(emitted)
  <2>1. i \in 1 .. Len(rows[x])
    BY <1>5, <1>6, <1>8
  <2>2. /\ emitted[i].event = replay.lines[i].event
        /\ emitted[i].replayed_at = ReplayedAt(emitted[i].event)
        /\ emitted[i].outcome = Evaluate(emitted[i].event.fact).outcome
    BY <1>1 DEF PlayHolds
  <2>. QED
    BY <1>6, <1>7, <2>1, <2>2
<1>. QED
  BY <1>2, <1>3, <1>4, <1>5, <1>8, <1>9 DEF Written

(* The types of the variables, replay and its sink included.               *)
THEOREM ReplayTypeCorrect == ReplaySpec => []ReplayTypeOK
<1>1. ReplayInv => ReplayTypeOK
  BY DEF ReplayInv
<1>. QED
  BY <1>1, ReplayInvInductive, PTL

(* Replay decides as the live handler did (alerts/replay.py and            *)
(* handler.py), except where the rule on stationary objects suppressed     *)
(* live, and the evaluation itself is sound for every fact.                *)
THEOREM ReplayDecides == ReplaySpec => []ReplayDecidesAsLive
<1>1. ReplayInv => ReplayDecidesAsLive
  <2> SUFFICES ASSUME ReplayInv, NEW i \in DOMAIN emitted
               PROVE  \E o \in stored :
                        /\ o.id = emitted[i].event.id
                        /\ Evaluate(o.fact).outcome \in {emitted[i].outcome, "suppress"}
                        /\ "person" \in o.fact.labels =>
                             Evaluate(o.fact).outcome = emitted[i].outcome
    BY RulesSound DEF ReplayDecidesAsLive
  <2>1. ReplayTypeOK /\ i \in 1 .. Len(emitted) /\ emitted # <<>>
    BY DEF ReplayInv, ReplayTypeOK
  <2>2. replay.state \in {"playing", "reported"}
    BY <2>1 DEF ReplayInv, PlayHolds, ReplayTypeOK
  <2>3. PICK x \in Exporter :
          /\ stage[x] = "exported" /\ Len(emitted) \in Nat /\ Len(emitted) <= Len(rows[x])
          /\ emitted[i].event.id = rows[x][i].id
          /\ emitted[i].event.fact = ReplayFact(rows[x][i].fact)
          /\ emitted[i].outcome = Evaluate(emitted[i].event.fact).outcome
    BY <2>1, <2>2, EmittedAreRows
  <2>4. rows[x] \in Seq(Observation) /\ rows[x][i] \in Window(request[x], seen[x])
    <3>1. stage[x] \in Holding /\ i \in 1 .. Len(rows[x])
      BY <2>1, <2>3 DEF Holding, ReplayTypeOK
    <3>. QED
      BY <3>1, ExportFound
  <2>5. rows[x][i] \in stored /\ rows[x][i].fact \in Fact
    <3>1. rows[x][i] \in seen[x] /\ seen[x] \subseteq stored
      BY <2>3, <2>4 DEF Window, ReplayInv, ExporterHolds, Holding
    <3>2. rows[x][i] \in ReplayEvent
      BY <2>1, <3>1, ReplayAssumption DEF ReplayTypeOK
    <3>. QED
      BY <3>1, <3>2 DEF ReplayEvent
  <2>. QED
    BY <2>3, <2>5, ReplayedOutcome
<1>. QED
  BY <1>1, ReplayInvInductive, PTL

(* A bundle cannot be loaded only while it is written, because its export  *)
(* died or it was damaged, or because a line is too long (exporter.py      *)
(* against load_replay_bundle).                                            *)
THEOREM UnreadableExplained == ReplaySpec => []UnreadableIsExplained
<1>1. ReplayInv => UnreadableIsExplained
  <2> SUFFICES ASSUME ReplayInv, NEW d \in made, d \notin damaged,
                      stage[maker[d]] \notin Working \cup {"died"},
                      ~ \E i \in DOMAIN rows[maker[d]] : rows[maker[d]][i].too_large
               PROVE  Loadable(d)
    BY DEF UnreadableIsExplained
  <2> DEFINE x == maker[d]
             s == rows[x]
             q == request[x]
             m == Bundle(x)
             lines == Records(s)
  <2>1. ReplayTypeOK /\ d \in Directory
    BY DEF ReplayInv, ReplayTypeOK
  <2>2. x \in Exporter /\ stage[x] = "exported" /\ q \in ExportRequest /\ q.dir = d
    BY <2>1 DEF ReplayInv, DirectoryHolds, Holding
  <2>3. events[d] = lines /\ manifest[d] = m /\ q.source \in Source
    <3>1. ExporterHolds(x) /\ q # None
      BY <2>2, NoneAndTorn DEF ReplayInv
    <3>. QED
      BY <2>2, <3>1 DEF ExporterHolds, Holding
  <2>4. /\ s \in Seq(Observation) /\ q.limit \in 1 .. MAX_EVENTS
        /\ Len(s) \in Nat /\ Len(s) <= q.limit
        /\ \A i \in 1 .. Len(s) : s[i] \in Window(q, seen[x])
        /\ \A i, j \in 1 .. Len(s) : i < j => Before(s[i], s[j])
    <3>1. stage[x] \in Holding
      BY <2>2 DEF Holding
    <3>. QED
      BY <2>2, <3>1, ExportFound
  <2> HIDE DEF x, q, s, m, lines
  <2>5. /\ lines \in Seq(ReplayRecord) /\ Len(lines) = Len(s)
        /\ \A i \in 1 .. Len(s) :
             LET event == lines[i].event
             IN  /\ lines[i].sequence = i - 1
                 /\ event.id = s[i].id /\ event.source = s[i].source
                 /\ event.occurred = s[i].occurred /\ event.observed = s[i].observed
                 /\ event.too_large = s[i].too_large
    BY <2>4, RecordsKeep DEF lines
  <2>6. /\ m.source = q.source /\ m.event_count = Len(s) /\ m.events_sha256 = lines
        /\ m.first = IF s = <<>> THEN None ELSE s[1].occurred
        /\ m.last = IF s = <<>> THEN None ELSE s[Len(s)].occurred
    BY DEF m, lines, Bundle, Manifest, q, s
  <2>7. m \in ReplayManifest
    <3>1. truncated[x] \in BOOLEAN
      BY <2>1, <2>2 DEF ReplayTypeOK
    <3>. QED
      BY <2>3, <2>4, <3>1, ManifestTyped DEF m, Bundle, q, s
  <2>8. \A i \in 1 .. Len(s) : ~ s[i].too_large /\ s[i].source = q.source
    <3>1. \A i \in 1 .. Len(s) : i \in DOMAIN s
      BY <2>4
    <3>. QED
      BY <2>4, <3>1 DEF Window, s, x
  <2>9. Len(lines) <= MAX_EVENTS /\ Len(lines) = m.event_count
    BY <2>4, <2>5, <2>6, ReplayAssumption
  <2>10. ASSUME NEW i \in DOMAIN lines
         PROVE  /\ lines[i] # Torn
                /\ ~ lines[i].event.too_large
                /\ lines[i].sequence = i - 1 /\ lines[i].event.source = m.source
                /\ \A j \in DOMAIN lines : i < j => Before(lines[i].event, lines[j].event)
    <3>1. DOMAIN lines = 1 .. Len(s) /\ lines[i] \in ReplayRecord
      BY <2>5
    <3>2. lines[i] # Torn
      BY <3>1, NoneAndTorn
    <3>3. \A j \in DOMAIN lines : i < j => Before(lines[i].event, lines[j].event)
      BY <2>4, <2>5, <3>1 DEF Before
    <3>. QED
      BY <2>5, <2>6, <2>8, <3>1, <3>2, <3>3
  <2>11. IF lines = <<>> THEN m.first = None /\ m.last = None
         ELSE lines[1].event.occurred = m.first /\ lines[Len(lines)].event.occurred = m.last
    <3>1. CASE Len(s) = 0
      <4>1. s = <<>> /\ lines = <<>>
        BY <2>4, <2>5, <3>1
      <4>. QED
        BY <2>6, <4>1
    <3>2. CASE Len(s) # 0
      <4>1. s # <<>> /\ lines # <<>> /\ 1 \in 1 .. Len(s) /\ Len(s) \in 1 .. Len(s)
        BY <2>4, <2>5, <3>2
      <4>. QED
        BY <2>5, <2>6, <4>1
    <3>. QED
      BY <3>1, <3>2
  <2>12. Consistent(m, lines)
    BY <2>6, <2>9, <2>10, <2>11 DEF Consistent
  <2>13. manifest[d] # None /\ manifest[d] # Torn /\ events[d] # None
    <3>1. lines \in Seq(ReplayRecord \cup {Torn})
      BY <2>5
    <3>. QED
      BY <2>3, <2>7, <3>1, NoneAndTorn
  <2>. QED
    BY <2>3, <2>12, <2>13 DEF Loadable
<1>. QED
  BY <1>1, ReplayInvInductive, PTL

(* A list of n different things has n elements.                            *)
LEMMA ListSize ==
  ASSUME NEW S, NEW s \in Seq(S),
         \A i, j \in 1 .. Len(s) : i < j => s[i] # s[j]
  PROVE  Cardinality({s[i] : i \in 1 .. Len(s)}) = Len(s)
<1> DEFINE n == Len(s)
           T == {s[i] : i \in 1 .. n}
           F == [i \in 1 .. n |-> s[i]]
<1>1. n \in Nat
  OBVIOUS
<1>2. F \in Bijection(1 .. n, T)
  <2>1. F \in [1 .. n -> T]
    OBVIOUS
  <2>2. \A i, j \in 1 .. n : F[i] = F[j] => i = j
    <3> SUFFICES ASSUME NEW i \in 1 .. n, NEW j \in 1 .. n, F[i] = F[j], i # j
                 PROVE  FALSE
      OBVIOUS
    <3>1. s[i] = s[j] /\ (i < j \/ j < i)
      OBVIOUS
    <3>. QED
      BY <3>1
  <2>3. \A t \in T : \E i \in 1 .. n : F[i] = t
    OBVIOUS
  <2>. HIDE DEF F, T
  <2>. QED
    BY <2>1, <2>2, <2>3 DEF Bijection, Injection, Surjection, IsInjective
<1>3. IsFiniteSet(1 .. n) /\ Cardinality(1 .. n) = n
  <2>1. Cardinality(1 .. n) = IF 1 > n THEN 0 ELSE n - 1 + 1
    BY <1>1, FS_Interval
  <2>. QED
    BY <1>1, <2>1, FS_Interval
<1> HIDE DEF F
<1>4. T = {s[i] : i \in 1 .. Len(s)}
  OBVIOUS
<1> HIDE DEF T, n
<1>5. Cardinality(T) = Cardinality(1 .. n)
  <2>1. ExistsBijection(1 .. n, T)
    BY <1>2 DEF ExistsBijection
  <2>. QED
    BY <1>3, <2>1, FS_Bijection
<1>. QED
  BY <1>3, <1>4, <1>5 DEF n

(* A replay that reports success emitted what one export found, in order,  *)
(* no more and no less, and kept the distances in time (engine.py, what    *)
(* bundle.py checks of what exporter.py wrote).                            *)
THEOREM ReplayedExported == ReplaySpec => []ReplayedIsExported
<1>1. ReplayInv => ReplayedIsExported
  <2> SUFFICES ASSUME ReplayInv, replay.state = "reported"
               PROVE  ReplayedIsExported
    BY DEF ReplayedIsExported
  <2>1. PICK x \in Exporter :
           /\ stage[x] = "exported" /\ replay.manifest = Bundle(x)
           /\ x = maker[replay.dir] \/ replay.dir \in damaged
           /\ Len(emitted) \in Nat /\ Len(emitted) = Len(rows[x])
           /\ \A i \in 1 .. Len(emitted) :
                LET event == emitted[i].event
                IN  /\ event.id = rows[x][i].id /\ event.occurred = rows[x][i].occurred
                    /\ event.observed = rows[x][i].observed
                    /\ emitted[i].replayed_at = ReplayedAt(event)
                    /\ event.occurred \in Int
    BY EmittedAreRows
  <2> DEFINE W == Window(request[x], seen[x])
             n == Len(emitted)
             s == rows[x]
             exported == {o \in W : \E i \in DOMAIN emitted : emitted[i].event.id = o.id}
  <2>2. ReplayTypeOK /\ stage[x] \in Holding /\ request[x] \in ExportRequest
    BY <2>1 DEF ReplayInv, ExporterHolds, Holding
  <2>3. DOMAIN emitted = 1 .. n
    BY <2>2 DEF ReplayTypeOK
  <2>4. /\ W \in SUBSET Observation /\ IsFiniteSet(W) /\ Cardinality(W) \in Nat
        /\ s \in Seq(Observation) /\ request[x].limit \in 1 .. MAX_EVENTS
        /\ Len(s) = IF request[x].limit < Cardinality(W) THEN request[x].limit
                    ELSE Cardinality(W)
        /\ truncated[x] = (Len(s) < Cardinality(W))
        /\ \A i \in 1 .. Len(s) : s[i] \in W
        /\ \A i, j \in 1 .. Len(s) : i < j => Before(s[i], s[j])
        /\ \A o \in W : \/ \E i \in 1 .. Len(s) : s[i] = o
                        \/ \A i \in 1 .. Len(s) : Before(s[i], o)
    BY <2>2, ExportFound
  <2>5. replay.manifest.truncated = truncated[x]
    BY <2>1 DEF Bundle, Manifest
  <2> HIDE DEF W, n, s
  <2>6. n = Len(s) /\ n \in Nat
    BY <2>1 DEF n, s
  <2>7. \A i \in 1 .. n : /\ emitted[i].event.id = s[i].id
                          /\ emitted[i].event.occurred = s[i].occurred
                          /\ emitted[i].event.observed = s[i].observed
    BY <2>1 DEF n, s
  <2>8. exported = {s[i] : i \in 1 .. n}
    <3>1. ASSUME NEW o \in W, NEW i \in 1 .. n, emitted[i].event.id = o.id
          PROVE  o = s[i]
      <4>1. s[i] \in Observation /\ o \in Observation /\ s[i].id = o.id
        BY <2>4, <2>6, <2>7, <3>1
      <4>. QED
        BY <4>1, ReplayAssumption
    <3>. QED
      BY <2>3, <2>4, <2>6, <2>7, <3>1
  <2> HIDE DEF exported
  <2>9. Cardinality(exported) = n
    <3>1. s \in Seq(W)
      BY <2>4
    <3>2. \A i, j \in 1 .. Len(s) : i < j => s[i] # s[j]
      <4>1. \A i \in 1 .. Len(s) : s[i] \in ReplayEvent
        BY <2>4, ReplayAssumption
      <4>. QED
        BY <2>4, <4>1, BeforeIsAnOrder
    <3>. QED
      BY <2>4, <2>6, <2>8, <3>1, <3>2, ListSize
  <2>10. n = Cardinality(W) \/ n = request[x].limit
    BY <2>4, <2>6
  <2>11. exported \subseteq W
    BY DEF exported
  <2>12. replay.manifest.truncated = (W # exported)
    <3>1. Cardinality(exported) = Cardinality(W) => exported = W
      BY <2>4, <2>11, FS_Subset
    <3>2. Len(s) < Cardinality(W) <=> W # exported
      BY <2>4, <2>6, <2>9, <3>1
    <3>. QED
      BY <2>4, <2>5, <3>2
  <2>13. \A o \in exported, p \in W \ exported : Before(o, p)
    BY <2>4, <2>6, <2>8
  <2>14. \A i, j \in DOMAIN emitted : i < j => Before(emitted[i].event, emitted[j].event)
    BY <2>3, <2>4, <2>6, <2>7 DEF Before
  <2>15. IsReplayOf(x)
    BY <2>9, <2>10, <2>12, <2>13, <2>14 DEF IsReplayOf, W, n, exported
  <2>16. ASSUME NEW i \in DOMAIN emitted, NEW j \in DOMAIN emitted
         PROVE  emitted[j].replayed_at - emitted[i].replayed_at
                  = emitted[j].event.occurred - emitted[i].event.occurred
    <3> DEFINE a == emitted[i].event.occurred
               b == emitted[j].event.occurred
               f == replay.lines[1].event.occurred
    <3>1. a \in Int /\ b \in Int
      BY <2>1, <2>3 DEF n
    <3>2. /\ emitted[i].replayed_at = ReplayedAt(emitted[i].event)
          /\ emitted[j].replayed_at = ReplayedAt(emitted[j].event)
      BY <2>1, <2>3 DEF n
    <3>3. CASE replay.clock = None
      BY <3>2, <3>3 DEF ReplayedAt
    <3>4. CASE replay.clock # None
      <4>1. replay.clock \in Int
        BY <2>2, <3>4, ReplayAssumption DEF ReplayTypeOK
      <4>2. f \in Int
        <5>1. replay.lines # <<>> /\ replay.lines \in Seq(ReplayRecord)
          BY <2>2, <2>3, <2>6 DEF ReplayInv, PlayHolds, ReplayTypeOK, n
        <5>2. replay.lines[1] \in ReplayRecord
          BY <5>1
        <5>. QED
          BY <5>2 DEF ReplayRecord, ReplayEvent
      <4>3. /\ emitted[i].replayed_at = replay.clock + (a - f)
            /\ emitted[j].replayed_at = replay.clock + (b - f)
        BY <3>2, <3>4 DEF ReplayedAt
      <4> HIDE DEF a, b, f
      <4>4. (replay.clock + (b - f)) - (replay.clock + (a - f)) = b - a
        BY <3>1, <4>1, <4>2
      <4>. QED
        BY <4>3, <4>4 DEF a, b
    <3>. QED
      BY <3>3, <3>4
  <2>17. request[x] # None
    BY <2>2, NoneAndTorn
  <2>. QED
    BY <2>1, <2>15, <2>16, <2>17 DEF ReplayedIsExported
<1>. QED
  BY <1>1, ReplayInvInductive, PTL

(* No bundle is overwritten or repaired: an export writes to the directory *)
(* it made, until it reports (exporter.py, mkdir with exist_ok=False).     *)
THEOREM BundlesImmutable == ReplaySpec => BundlesAreImmutable
<1> DEFINE Immutable ==
             \A d \in made :
               /\ maker'[d] = maker[d]
               /\ <<events[d], manifest[d]>>' # <<events[d], manifest[d]>> =>
                    \/ mishaps' # mishaps
                    \/ stage[maker[d]] \in Working /\ request[maker[d]].dir = d
<1>1. ReplayInv /\ [ReplayNext]_replayVars => [Immutable]_replayVars
  <2> SUFFICES ASSUME ReplayInv, ReplayNext, NEW d \in made
               PROVE  /\ maker'[d] = maker[d]
                      /\ <<events'[d], manifest'[d]>> # <<events[d], manifest[d]>> =>
                           \/ mishaps' # mishaps
                           \/ stage[maker[d]] \in Working /\ request[maker[d]].dir = d
    OBVIOUS
  <2>1. ReplayTypeOK /\ d \in Directory
    BY DEF ReplayInv, ReplayTypeOK
  <2>2. CASE UNCHANGED <<maker, events, manifest>>
    BY <2>2
  <2>3. ASSUME NEW e \in Directory, Damage(e)
        PROVE  maker' = maker /\ mishaps' # mishaps
    BY <2>1, <2>3, ReplayAssumption DEF Damage, ReplayTypeOK
  <2>4. ASSUME NEW x \in Exporter, MakeDirectory(x)
        PROVE  maker'[d] = maker[d] /\ events' = events /\ manifest' = manifest
    BY <2>1, <2>4 DEF MakeDirectory, Free, ReplayTypeOK
  <2>5. ASSUME NEW x \in Exporter,
               OpenEvents(x) \/ CloseEvents(x) \/ OpenManifest(x) \/ CloseManifest(x)
        PROVE  /\ maker' = maker
               /\ stage[x] \in Working
               /\ request[x].dir = d \/ (events'[d] = events[d] /\ manifest'[d] = manifest[d])
    BY <2>1, <2>5 DEF OpenEvents, CloseEvents, OpenManifest, CloseManifest, Working, ReplayTypeOK
  <2>6. \A x \in Exporter : stage[x] \in Working /\ request[x].dir = d => maker[d] = x
    BY DEF ReplayInv, ExporterHolds, Holding
  <2>7. \/ UNCHANGED <<maker, events, manifest>>
        \/ \E e \in Directory : Damage(e)
        \/ \E x \in Exporter :
             \/ MakeDirectory(x)
             \/ OpenEvents(x) \/ CloseEvents(x) \/ OpenManifest(x) \/ CloseManifest(x)
    BY DEF ReplayNext, Export, Ingest, Ask, Query, DirectoryTaken, ExportDies, ReadManifest,
           ReadEvents, Emit, Report, LeaveReplay, files
  <2>. QED
    BY <2>2, <2>3, <2>4, <2>5, <2>6, <2>7
<1>. QED
  BY <1>1, ReplayInvInductive, PTL DEF ReplaySpec, BundlesAreImmutable
=============================================================================
