-------------------------------- MODULE Identity --------------------------------
(* The local system's role: the settings form of each page that is open, the   *)
(* API's update_identity and the table's only row.  The name changes freely    *)
(* and is left out; a save always writes one.                                  *)
EXTENDS Naturals

CONSTANTS
    Page,
    Role,
    Client,  \* the role of a system that has saved none
    NoRole

ASSUME ClientIsRole == Client \in Role /\ NoRole \notin Role

VARIABLES
    row,      \* system_settings: the role, or NoRole when there is no row
    form,     \* form[p]: system, systemRole and confirmRoleChange of App
    save,     \* save[p]: the PUT request of page p
    ticked    \* history: the roles for which a user has ticked the confirmation

identity == <<row, form, save, ticked>>

NoSave == [stage |-> "none", role |-> Client, confirm |-> FALSE, loaded |-> NoRole, raced |-> FALSE]

\* get_identity
Current == IF row = NoRole THEN Client ELSE row

------------------------------------------------------------------------------
(* The page.                                                                   *)

\* Mutant of Chosen: the confirmation of another choice is kept.
ChosenConfirmed(f, role) == [f EXCEPT !.role = role]

Chosen(f, role) == [f EXCEPT !.role = role, !.confirm = FALSE]

SelectRole(p) ==
    /\ \E role \in Role : form' = [form EXCEPT ![p] = Chosen(@, role)]
    /\ UNCHANGED <<row, save, ticked>>

ConfirmShown(f) == f.system # NoRole /\ f.role # f.system

Tick(p) ==
    /\ ConfirmShown(form[p])
    /\ form' = [form EXCEPT ![p].confirm = ~@]
    /\ ticked' = IF form[p].confirm THEN ticked ELSE ticked \cup {form[p].role}
    /\ UNCHANGED <<row, save>>

Applied(role) == [system |-> role, role |-> role, confirm |-> FALSE]

\* The page opens its settings.
Opens(p) ==
    /\ form' = [form EXCEPT ![p] = Applied(Current)]
    /\ UNCHANGED <<row, save, ticked>>

\* The watchdog re-reads the settings after an outage and keeps the draft.
Rereads(p) ==
    /\ form' = [form EXCEPT ![p].system = Current]
    /\ UNCHANGED <<row, save, ticked>>

Submits(p) ==
    /\ save[p].stage = "none"
    /\ ConfirmShown(form[p]) => form[p].confirm
    /\ save' = [save EXCEPT ![p] = [NoSave EXCEPT !.stage = "sent", !.role = form[p].role,
                                                  !.confirm = form[p].confirm]]
    /\ UNCHANGED <<row, form, ticked>>

Answered(p) ==
    /\ save[p].stage = "stored"
    /\ form' = [form EXCEPT ![p] = Applied(save[p].role)]
    /\ save' = [save EXCEPT ![p] = NoSave]
    /\ UNCHANGED <<row, ticked>>

\* The request was refused, failed, or lost with the server at any step.
Failed(p) ==
    /\ save[p].stage # "none"
    /\ save' = [save EXCEPT ![p] = NoSave]
    /\ UNCHANGED <<row, form, ticked>>

------------------------------------------------------------------------------
(* update_identity, and save_system_identity, which reads the row again.       *)

\* Mutant of Permitted: no role change needs a confirmation.
PermittedAlways(request) == TRUE

Permitted(request) == request.role = Current \/ request.confirm

Checks(p) ==
    /\ save[p].stage = "sent"
    /\ save' = [save EXCEPT ![p] = IF Permitted(@) THEN [@ EXCEPT !.stage = "checked"]
                                  ELSE [NoSave EXCEPT !.stage = "refused"]]
    /\ UNCHANGED <<row, form, ticked>>

Loads(p) ==
    /\ save[p].stage = "checked"
    /\ save' = [save EXCEPT ![p].stage = "loaded", ![p].loaded = row]
    /\ UNCHANGED <<row, form, ticked>>

\* The commit writes the columns that differ from the row it loaded; a second
\* INSERT of the row fails.
Commits(p) ==
    /\ save[p].stage = "loaded"
    /\ save[p].loaded = NoRole => row = NoRole
    /\ row' = IF save[p].role = save[p].loaded THEN row ELSE save[p].role
    /\ save' = [q \in Page |-> IF q = p THEN [NoSave EXCEPT !.stage = "stored", !.role = save[p].role]
                               ELSE [save[q] EXCEPT !.raced =
                                         @ \/ (save[q].stage \in {"checked", "loaded"}
                                               /\ row' # row)]]
    /\ UNCHANGED <<form, ticked>>

CommitFails(p) ==
    /\ save[p].stage = "loaded"
    /\ save[p].loaded = NoRole
    /\ row # NoRole
    /\ save' = [save EXCEPT ![p] = [NoSave EXCEPT !.stage = "refused"]]
    /\ UNCHANGED <<row, form, ticked>>

------------------------------------------------------------------------------
IdentityInit ==
    /\ row = NoRole
    /\ form = [p \in Page |-> [system |-> NoRole, role |-> Client, confirm |-> FALSE]]
    /\ save = [p \in Page |-> NoSave]
    /\ ticked = {}

IdentityNext ==
    \E p \in Page :
        \/ SelectRole(p) \/ Tick(p) \/ Opens(p) \/ Rereads(p)
        \/ Submits(p) \/ Answered(p) \/ Failed(p)
        \/ Checks(p) \/ Loads(p) \/ Commits(p) \/ CommitFails(p)

IdentitySpec == IdentityInit /\ [][IdentityNext]_identity

------------------------------------------------------------------------------
Stages == {"none", "sent", "checked", "loaded", "stored", "refused"}

IdentityTypeOK ==
    /\ row \in Role \cup {NoRole}
    /\ form \in [Page -> [system : Role \cup {NoRole}, role : Role, confirm : BOOLEAN]]
    /\ save \in [Page -> [stage : Stages, role : Role, confirm : BOOLEAN,
                          loaded : Role \cup {NoRole}, raced : BOOLEAN]]
    /\ ticked \subseteq Role

\* A system is a Client, or has a role for which a user once ticked the
\* confirmation, through stale forms, lost answers and requests that overlap
\* (update_identity, confirmRoleChange): no authority nobody chose.
RoleWasTicked == row \in ticked \cup {Client, NoRole}

ChangedBy(p) == save[p].stage = "loaded" /\ save'[p].stage = "stored" /\ Current' # Current

\* A request without the confirmation changes the role only when another one
\* changed it between its check and its commit, never from a stale form alone.
OnlyRacesChangeRole ==
    [][\A p \in Page : ChangedBy(p) => save[p].confirm \/ save[p].raced]_identity

\* "A role transition requires explicit confirmation through both UI and API"
\* (ARCHITECTURE.md).
RoleChangeConfirmed ==
    [][\A p \in Page : ChangedBy(p) => save[p].confirm]_identity
==============================================================================
