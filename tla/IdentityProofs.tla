----------------------------- MODULE IdentityProofs -----------------------------
(* Proofs about Identity for every set of pages and roles.                     *)
EXTENDS Identity, TLAPS

------------------------------------------------------------------------------
(* The inductive invariant.                                                    *)

Confirmable == ticked \cup {Client}

\* A confirmation that is ticked is for the role that is chosen.
FormsTicked == \A p \in Page : form[p].confirm => form[p].role \in ticked

\* So is one under way; a save that was let through asks for a role that was
\* confirmed, by it or by the save that made it the current one.
SavesTicked ==
    \A p \in Page :
        /\ save[p].stage = "sent" /\ save[p].confirm => save[p].role \in ticked
        /\ save[p].stage \in {"checked", "loaded"} => save[p].role \in Confirmable

\* A save let through without a confirmation asks for the current role, until
\* another save changes the row.
UnracedSaves ==
    \A p \in Page :
        save[p].stage \in {"checked", "loaded"} /\ ~save[p].confirm /\ ~save[p].raced
            => save[p].role = Current

IInv ==
    /\ IdentityTypeOK
    /\ RoleWasTicked
    /\ FormsTicked
    /\ SavesTicked
    /\ UnracedSaves

------------------------------------------------------------------------------
\* The current role is a role, and one that was ticked (get_identity).
LEMMA CurrentTicked ==
    ASSUME IInv
    PROVE  Current \in Role /\ Current \in Confirmable
  BY ClientIsRole DEF IInv, IdentityTypeOK, RoleWasTicked, Current, Confirmable

\* The invariant holds at the start.
LEMMA InitIInv == IdentityInit => IInv
  BY ClientIsRole DEF IdentityInit, IInv, IdentityTypeOK, RoleWasTicked, FormsTicked, SavesTicked,
     UnracedSaves, NoSave, Stages

\* The steps of the form keep it.
LEMMA FormStep ==
    ASSUME IInv, NEW p \in Page, SelectRole(p) \/ Tick(p) \/ Opens(p) \/ Rereads(p)
    PROVE  IInv'
  <1> USE ClientIsRole DEF IInv, IdentityTypeOK, RoleWasTicked, FormsTicked, SavesTicked,
          UnracedSaves, Current, Confirmable
  <1>0. Current \in Role /\ Current \in Confirmable
    BY CurrentTicked
  <1>1. CASE SelectRole(p)
    <2>1. PICK role \in Role : form' = [form EXCEPT ![p] = Chosen(@, role)]
      BY <1>1 DEF SelectRole
    <2>2. UNCHANGED <<row, save, ticked>>
      BY <1>1 DEF SelectRole
    <2>3. FormsTicked' /\ IdentityTypeOK'
      BY <2>1, <2>2 DEF Chosen
    <2> QED
      BY <2>2, <2>3
  <1>2. CASE Tick(p)
    BY <1>2 DEF Tick
  <1>3. CASE Opens(p)
    BY <1>0, <1>3 DEF Opens, Applied
  <1>4. CASE Rereads(p)
    BY <1>0, <1>4 DEF Rereads
  <1> QED
    BY <1>1, <1>2, <1>3, <1>4

\* The steps of the request outside update_identity keep it.
LEMMA RequestStep ==
    ASSUME IInv, NEW p \in Page, Submits(p) \/ Answered(p) \/ Failed(p)
    PROVE  IInv'
  <1> USE ClientIsRole DEF IInv, IdentityTypeOK, RoleWasTicked, FormsTicked, SavesTicked,
          UnracedSaves, Current, Confirmable, NoSave, Stages
  <1>1. CASE Submits(p)
    BY <1>1 DEF Submits
  <1>2. CASE Answered(p)
    BY <1>2 DEF Answered, Applied
  <1>3. CASE Failed(p)
    BY <1>3 DEF Failed
  <1> QED
    BY <1>1, <1>2, <1>3

\* update_identity's check lets through what was confirmed or is current.
LEMMA CheckStep ==
    ASSUME IInv, NEW p \in Page, Checks(p)
    PROVE  IInv'
  <1> USE ClientIsRole DEF IInv, IdentityTypeOK, RoleWasTicked, FormsTicked, SavesTicked,
          UnracedSaves, Confirmable, NoSave, Stages
  <1>0. Current \in Role /\ Current \in Confirmable
    BY CurrentTicked
  <1>1. Current' = Current
    BY DEF Checks, Current
  <1> QED
    BY <1>0, <1>1 DEF Checks, Permitted

\* The reading of the row keeps it.
LEMMA LoadStep ==
    ASSUME IInv, NEW p \in Page, Loads(p) \/ CommitFails(p)
    PROVE  IInv'
  <1> USE ClientIsRole DEF IInv, IdentityTypeOK, RoleWasTicked, FormsTicked, SavesTicked,
          UnracedSaves, Confirmable, NoSave, Stages
  <1>1. Current' = Current
    BY DEF Loads, CommitFails, Current
  <1>2. CASE Loads(p)
    <2>1. IdentityTypeOK'
      BY <1>2 DEF Loads
    <2>2. FormsTicked' /\ RoleWasTicked'
      BY <1>2 DEF Loads
    <2>3. SavesTicked' /\ UnracedSaves'
      BY <1>1, <1>2 DEF Loads
    <2> QED
      BY <2>1, <2>2, <2>3
  <1>3. CASE CommitFails(p)
    BY <1>1, <1>3 DEF CommitFails
  <1> QED
    BY <1>2, <1>3

\* A commit writes a role that was ticked and marks the saves it overtakes.
LEMMA CommitStep ==
    ASSUME IInv, NEW p \in Page, Commits(p)
    PROVE  IInv'
  <1> USE ClientIsRole DEF IInv, IdentityTypeOK, RoleWasTicked, FormsTicked, SavesTicked,
          Confirmable, NoSave, Stages
  <1>1. row' \in Role \cup {NoRole} /\ row' \in ticked \cup {Client, NoRole}
    BY DEF Commits
  <1>2. RoleWasTicked' /\ FormsTicked'
    BY <1>1 DEF Commits
  <1>3. save' \in [Page -> [stage : Stages, role : Role, confirm : BOOLEAN,
                           loaded : Role \cup {NoRole}, raced : BOOLEAN]]
    <2>1. ASSUME NEW q \in Page, q # p
          PROVE  [save[q] EXCEPT !.raced =
                      @ \/ (save[q].stage \in {"checked", "loaded"} /\ row' # row)]
                     \in [stage : Stages, role : Role, confirm : BOOLEAN,
                         loaded : Role \cup {NoRole}, raced : BOOLEAN]
      <3>1. save[q] \in [stage : Stages, role : Role, confirm : BOOLEAN,
                         loaded : Role \cup {NoRole}, raced : BOOLEAN]
        OBVIOUS
      <3>2. (save[q].raced \/ (save[q].stage \in {"checked", "loaded"} /\ row' # row)) \in BOOLEAN
        OBVIOUS
      <3> QED
        BY <3>1, <3>2
    <2>2. [NoSave EXCEPT !.stage = "stored", !.role = save[p].role]
              \in [stage : Stages, role : Role, confirm : BOOLEAN,
                  loaded : Role \cup {NoRole}, raced : BOOLEAN]
      OBVIOUS
    <2> QED
      BY <2>1, <2>2 DEF Commits
  <1>4. IdentityTypeOK'
    BY <1>1, <1>3 DEF Commits
  <1>5. SavesTicked'
    BY DEF Commits
  <1>6. UnracedSaves'
    BY DEF Commits, UnracedSaves, Current
  <1> QED
    BY <1>2, <1>4, <1>5, <1>6

\* Every step keeps the invariant.
LEMMA StepIInv == IInv /\ [IdentityNext]_identity => IInv'
  <1> SUFFICES ASSUME IInv, [IdentityNext]_identity
               PROVE  IInv'
    OBVIOUS
  <1>1. CASE IdentityNext
    BY <1>1, FormStep, RequestStep, CheckStep, LoadStep, CommitStep DEF IdentityNext
  <1>2. CASE UNCHANGED identity
    BY <1>2 DEF identity, IInv, IdentityTypeOK, RoleWasTicked, FormsTicked, SavesTicked,
       UnracedSaves, Current, Confirmable
  <1> QED
    BY <1>1, <1>2

\* The inductive invariant is one.
THEOREM IdentityInvariance == IdentitySpec => []IInv
  BY InitIInv, StepIInv, PTL DEF IdentitySpec

\* The settings row, the forms and the requests keep their types.
THEOREM IdentityTypeCorrect == IdentitySpec => []IdentityTypeOK
  <1>1. IInv => IdentityTypeOK
    BY DEF IInv
  <1> QED
    BY IdentityInvariance, <1>1, PTL

\* No system ever has a role that no user of any of its pages ticked: for any
\* number of pages, requests that overlap and answers that are lost
\* (update_identity, confirmRoleChange).
THEOREM RolesAreTicked == IdentitySpec => []RoleWasTicked
  <1>1. IInv => RoleWasTicked
    BY DEF IInv
  <1> QED
    BY IdentityInvariance, <1>1, PTL

\* An unconfirmed save changes the role only when another save changed it since
\* this one was checked.
LEMMA ChangesAreRaces ==
    ASSUME IInv, [IdentityNext]_identity, NEW p \in Page, ChangedBy(p)
    PROVE  save[p].confirm \/ save[p].raced
  <1> SUFFICES ASSUME ~save[p].confirm, ~save[p].raced
               PROVE  FALSE
    OBVIOUS
  <1>1. save[p].stage = "loaded" /\ save'[p].stage = "stored" /\ Current' # Current
    BY DEF ChangedBy
  <1>2. save[p].role = Current /\ save[p].role \in Role
    BY <1>1 DEF IInv, IdentityTypeOK, UnracedSaves
  <1>3. Commits(p)
    <2>1. PICK q \in Page : IdentityNext /\
              (\/ SelectRole(q) \/ Tick(q) \/ Opens(q) \/ Rereads(q)
               \/ Submits(q) \/ Answered(q) \/ Failed(q)
               \/ Checks(q) \/ Loads(q) \/ Commits(q) \/ CommitFails(q))
      BY <1>1 DEF IdentityNext, identity
    <2>2. save \in [Page -> [stage : Stages, role : Role, confirm : BOOLEAN,
                             loaded : Role \cup {NoRole}, raced : BOOLEAN]]
      BY DEF IInv, IdentityTypeOK
    <2>3. save' # save
      BY <1>1
    <2>4. CASE Submits(q) \/ Answered(q) \/ Failed(q)
      BY <1>1, <2>2, <2>4 DEF Submits, Answered, Failed, NoSave
    <2>5. CASE Checks(q) \/ Loads(q) \/ CommitFails(q)
      BY <1>1, <2>2, <2>5 DEF Checks, Loads, CommitFails, NoSave
    <2>6. CASE Commits(q)
      BY <1>1, <2>2, <2>6 DEF Commits
    <2> QED
      BY <2>1, <2>3, <2>4, <2>5, <2>6 DEF SelectRole, Tick, Opens, Rereads
  <1>4. Current' = Current
    BY <1>2, <1>3, ClientIsRole DEF Commits, Current
  <1> QED
    BY <1>1, <1>4

\* A role changes without its own confirmation in no other way than by a race.
THEOREM OnlyRaces == IdentitySpec => OnlyRacesChangeRole
  <1>1. IInv /\ [IdentityNext]_identity
           => [\A p \in Page : ChangedBy(p) => save[p].confirm \/ save[p].raced]_identity
    BY ChangesAreRaces
  <1> QED
    BY IdentityInvariance, <1>1, PTL DEF IdentitySpec, OnlyRacesChangeRole
==============================================================================
