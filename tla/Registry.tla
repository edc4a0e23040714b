------------------------------ MODULE Registry ------------------------------
(***************************************************************************)
(* The device registry: ingestion runs (ingestion_handler, pipeline, the   *)
(* discovery providers) that reconcile the table with what the clouds of   *)
(* the providers list, against each other and against the routes that      *)
(* create, rename and delete devices.                                      *)
(*                                                                         *)
(* A row is its status and its fingerprint, which stands for the identity  *)
(* fields; the other fields, and the wire formats of the clouds, are left  *)
(* out.                                                                    *)
(***************************************************************************)
EXTENDS Naturals, FiniteSets, Functions

CONSTANTS
    ProviderOf, \* the devices, each with its provider
    KindOf,     \* what sort of device it is
    Scheduled,  \* the providers the template schedules a daily full sync for
    Identities,      \* the identities a device can have
    Runs,
    NoItem

Provided == DOMAIN ProviderOf
Providers == {"kasa", "switchbot", "govee", "ring", "myq", "wyze"}

ASSUME RegistryAssumption ==
    /\ ProviderOf \in [Provided -> Providers]
    /\ DOMAIN KindOf = Provided
    /\ IsFiniteSet(Provided)
    /\ Scheduled \subseteq Providers
    /\ NoItem \notin [status : {"active", "offline", "inactive"}, fp : Identities \cup {NoItem}]

\* device_id and provider.
Keys == { <<d, ProviderOf[d]>> : d \in Provided } \cup { <<d, "manual">> : d \in Provided }

VARIABLES
    cloud,  \* what there is, by device: gone, or whether it is online, and its name
    rows,   \* the table
    run,    \* the ingestion runs
    clean   \* history: the full syncs since whose start nothing failed and nobody
            \* else wrote

registryVars == <<cloud, rows, run, clean>>

IdleRun == [pc |-> "idle"]

-----------------------------------------------------------------------------
(* Discovery: the record of a device a cloud lists, if it makes one *)

Reported_AlwaysActive(d) == { [status |-> "active", fp |-> cloud[d].name] }

\* The cloud says who is online.
Reported(d) == { [status |-> IF cloud[d].online THEN "active" ELSE "offline", fp |-> cloud[d].name] }

\* The cloud does not; who is listed is active.
Listed(d) == { [status |-> "active", fp |-> cloud[d].name] }

Kasa(d) == Reported(d)
SwitchBot(d) == IF KindOf[d] = "not in the cloud" THEN {} ELSE Listed(d)
Govee(d) == IF KindOf[d] = "not controllable" THEN {} ELSE Listed(d)
RingSkips == {"chime", "intercom"}
Ring(d) == IF KindOf[d] \in RingSkips THEN {} ELSE Listed(d)
MyQ(d) == IF KindOf[d] \in {"garage door", "lamp"} THEN Reported(d) ELSE {}
Wyze(d) == Reported(d)

Records(d) ==
    CASE ProviderOf[d] = "kasa"      -> Kasa(d)
      [] ProviderOf[d] = "switchbot" -> SwitchBot(d)
      [] ProviderOf[d] = "govee"     -> Govee(d)
      [] ProviderOf[d] = "ring"      -> Ring(d)
      [] ProviderOf[d] = "myq"       -> MyQ(d)
      [] ProviderOf[d] = "wyze"      -> Wyze(d)

\* discover_all: what the account lists.
Listing(p) ==
    [d \in { x \in Provided : ProviderOf[x] = p /\ cloud[x].there /\ Records(x) # {} }
        |-> CHOOSE r \in Records(d) : TRUE]

Starts(r, p, mode) ==
    /\ run[r] = IdleRun
    /\ run' = [run EXCEPT ![r] = [pc |-> "discovering", provider |-> p, mode |-> mode]]
    /\ clean' = IF mode = "full" THEN clean \cup {r} ELSE clean
    /\ UNCHANGED <<cloud, rows>>

Discovered(r, found) ==
    run' = [run EXCEPT ![r] =
              [pc |-> IF @.mode = "full" THEN "reading" ELSE "writing",
               provider |-> @.provider, mode |-> @.mode, found |-> found,
               left |-> DOMAIN found, differs |-> {}, missing |-> {}]]

Discovers(r) ==
    /\ run[r].pc = "discovering"
    /\ Discovered(r, Listing(run[r].provider))
    /\ UNCHANGED <<cloud, rows, clean>>

\* No credentials, an error of the cloud: no devices.  And a record that cannot be
\* converted is passed over.
DiscoversLess(r) ==
    /\ run[r].pc = "discovering"
    /\ LET all == Listing(run[r].provider)
       IN  \E D \in (SUBSET DOMAIN all) \ {DOMAIN all} : Discovered(r, Restrict(all, D))
    /\ clean' = clean \ {r}
    /\ UNCHANGED <<cloud, rows>>

-----------------------------------------------------------------------------
(* What a run writes *)

KeyOf(r, d) == <<d, run[r].provider>>

HasStatus(k, status) == rows[k] # NoItem /\ rows[k].status = status

ReadsActive_AllMissing(r, ids) ==
    /\ run[r].pc = "reading"
    /\ run' = [run EXCEPT ![r].pc = "writing", ![r].differs = run[r].left, ![r].missing = ids]
    /\ UNCHANGED <<cloud, rows>>

\* get_active_device_ids, before anything is written.
ReadsActive(r, ids) ==
    /\ run[r].pc = "reading"
    /\ run' = [run EXCEPT ![r].pc = "writing", ![r].differs = run[r].left,
                          ![r].missing = ids \ run[r].left]
    /\ UNCHANGED <<cloud, rows>>

ActiveIds(p) == { d \in Provided : ProviderOf[d] = p /\ HasStatus(<<d, p>>, "active") }

ReadsTable(r) == ReadsActive(r, ActiveIds(run[r].provider)) /\ UNCHANGED clean

\* The query and the scan fail.
ReadsNothing(r) == ReadsActive(r, {}) /\ clean' = clean \ {r}

\* Whether the stored fingerprint is another than the one found.
Differs(r, d) ==
    LET row == rows[KeyOf(r, d)] IN row = NoItem \/ row.fp # run[r].found[d].fp

\* A delta sync goes from record to record; an unchanged one is only touched.
ReadsFingerprint(r, d) ==
    /\ run[r].pc = "writing" /\ run[r].mode = "delta"
    /\ run[r].differs = {} /\ d \in run[r].left
    /\ run' = IF Differs(r, d) THEN [run EXCEPT ![r].differs = {d}]
                               ELSE [run EXCEPT ![r].left = @ \ {d}]
    /\ UNCHANGED <<cloud, rows, clean>>

\* A row that cannot be read counts as another.
CannotRead(r, d) ==
    /\ run[r].pc = "writing" /\ run[r].mode = "delta"
    /\ run[r].differs = {} /\ d \in run[r].left
    /\ run' = [run EXCEPT ![r].differs = {d}]
    /\ UNCHANGED <<cloud, rows, clean>>

\* A write of one row; no other run is alone with the table after it.
Writes(k, row, alone) ==
    /\ rows' = [rows EXCEPT ![k] = row]
    /\ clean' = clean \cap alone

\* upsert_device puts the whole row.
Upserts(r, d) ==
    /\ run[r].pc = "writing" /\ d \in run[r].differs
    /\ run' = [run EXCEPT ![r].left = @ \ {d}, ![r].differs = @ \ {d}]
    /\ Writes(KeyOf(r, d), run[r].found[d], {r})
    /\ UNCHANGED cloud

UpsertFails(r, d) ==
    /\ run[r].pc = "writing" /\ d \in run[r].differs
    /\ run' = [run EXCEPT ![r].left = @ \ {d}, ![r].differs = @ \ {d}]
    /\ clean' = clean \ {r}
    /\ UNCHANGED <<cloud, rows>>

\* mark_offline: only the status, and only of a row there is.
MarksOffline(r, d) ==
    /\ run[r].pc = "writing" /\ run[r].left = {} /\ d \in run[r].missing
    /\ run' = [run EXCEPT ![r].missing = @ \ {d}]
    /\ Writes(KeyOf(r, d), [rows[KeyOf(r, d)] EXCEPT !.status = "offline"], {r})
    /\ UNCHANGED cloud

MarkFails(r, d) ==
    /\ run[r].pc = "writing" /\ run[r].left = {} /\ d \in run[r].missing
    /\ run' = [run EXCEPT ![r].missing = @ \ {d}]
    /\ clean' = clean \ {r}
    /\ UNCHANGED <<cloud, rows>>

AtEnd(r) == run[r].pc = "writing" /\ run[r].left = {} /\ run[r].missing = {}

RunEnds(r) ==
    /\ AtEnd(r)
    /\ run' = [run EXCEPT ![r] = IdleRun]
    /\ clean' = clean \ {r}
    /\ UNCHANGED <<cloud, rows>>

\* The Lambda times out, or what nobody catches is raised: a phrase that cannot be
\* stored, a sign-in to Ring that needs a code.
RunDies(r) ==
    /\ run[r] # IdleRun
    /\ run' = [run EXCEPT ![r] = IdleRun]
    /\ clean' = clean \ {r}
    /\ UNCHANGED <<cloud, rows>>

-----------------------------------------------------------------------------
(* Everybody else *)

\* POST /devices, for an id that the catalog of the container does not have.
Creates(d) ==
    /\ Writes(<<d, "manual">>, [status |-> "active", fp |-> NoItem], {})
    /\ UNCHANGED <<cloud, run>>

\* PUT /devices/{id}: a new name is also told to the Kasa cloud.  The shown fields are
\* no part of the model.
Renames(d) ==
    /\ ProviderOf[d] = "kasa" /\ rows[<<d, "kasa">>] # NoItem /\ cloud[d].there
    /\ \E n \in Identities : cloud' = [cloud EXCEPT ![d].name = n]
    /\ UNCHANGED <<rows, run, clean>>

\* DELETE /devices/{id}, at one of the rows it found.
Deactivates(k) ==
    /\ rows[k] # NoItem
    /\ Writes(k, [rows[k] EXCEPT !.status = "inactive"], {})
    /\ UNCHANGED <<cloud, run>>

\* Devices are bought, renamed, unplugged, plugged in and thrown away.
CloudChanges(d) ==
    /\ \E there, online \in BOOLEAN, n \in Identities :
          /\ ~there => ~online /\ n = cloud[d].name
          /\ cloud' = [cloud EXCEPT ![d] = [there |-> there, online |-> online, name |-> n]]
    /\ UNCHANGED <<rows, run, clean>>

-----------------------------------------------------------------------------

RegistryInit ==
    /\ cloud \in [Provided -> { [there |-> TRUE, online |-> TRUE, name |-> n] : n \in Identities }]
    /\ rows = [k \in Keys |-> NoItem]
    /\ run = [r \in Runs |-> IdleRun]
    /\ clean = {}

\* What a run does when nothing fails.
Goes(r) ==
    \/ Discovers(r) \/ ReadsTable(r) \/ RunEnds(r)
    \/ \E d \in Provided : ReadsFingerprint(r, d) \/ Upserts(r, d) \/ MarksOffline(r, d)

Fails(r) ==
    \/ DiscoversLess(r) \/ ReadsNothing(r) \/ RunDies(r)
    \/ \E d \in Provided : CannotRead(r, d) \/ UpsertFails(r, d) \/ MarkFails(r, d)

RouteWrites == \E d \in Provided :
    Creates(d) \/ Renames(d) \/ Deactivates(<<d, "manual">>) \/ Deactivates(<<d, ProviderOf[d]>>)

RegistryNext ==
    \/ \E r \in Runs : Goes(r) \/ Fails(r)
    \/ \E r \in Runs, p \in Range(ProviderOf), mode \in {"full", "delta"} : Starts(r, p, mode)
    \/ RouteWrites
    \/ \E d \in Provided : CloudChanges(d)

RegistrySpec == RegistryInit /\ [][RegistryNext]_registryVars

\* A run that is started goes on, and the schedule starts a full sync again and again.
Fairness ==
    /\ \A r \in Runs : WF_registryVars(Goes(r))
    /\ \A p \in Scheduled : SF_registryVars(\E r \in Runs : Starts(r, p, "full"))

FairSpec == RegistrySpec /\ Fairness

-----------------------------------------------------------------------------
(* Properties *)

Row == [status : {"active", "offline", "inactive"}, fp : Identities \cup {NoItem}]

RunTypeOK(q) ==
    \/ q = IdleRun
    \/ /\ q.pc \in {"discovering", "reading", "writing"}
       /\ q.provider \in Providers /\ q.mode \in {"full", "delta"}
       /\ q.pc # "discovering" =>
             /\ DOMAIN q.found \subseteq { d \in Provided : ProviderOf[d] = q.provider }
             /\ \A d \in DOMAIN q.found : q.found[d] \in Row
             /\ q.differs \subseteq q.left /\ q.left \subseteq DOMAIN q.found
             /\ q.missing \subseteq { d \in Provided \ DOMAIN q.found : rows[<<d, q.provider>>] # NoItem }
             /\ q.mode = "delta" => q.missing = {} /\ q.pc = "writing"

RegistryTypeOK ==
    /\ \A k \in Keys : rows[k] # NoItem => rows[k] \in Row
    /\ \A r \in Runs : RunTypeOK(run[r])
    /\ clean \subseteq Runs

\* A full sync that nothing failed in, and nobody wrote during, leaves the rows of its
\* provider as its listing says: what was online is active, and nothing else is.
\* (_full_sync: "Any device previously active that was not found is offline")
FullSyncReconciles ==
    \A r \in clean : AtEnd(r) =>
        \A d \in { x \in Provided : ProviderOf[x] = run[r].provider } :
            HasStatus(KeyOf(r, d), "active")
                <=> d \in DOMAIN run[r].found /\ run[r].found[d].status = "active"

\* Failures that show, deletes, and changes in the clouds.
Unrest ==
    \/ \E r \in Runs : Fails(r) /\ ~Goes(r)
    \/ \E k \in Keys : Deactivates(k)
    \/ \E d \in Provided : Renames(d) \/ CloudChanges(d)

\* When that has ended, the table of a scheduled provider (Kasa) comes to agree with the cloud
\* and stays so, whatever the runs that overlap had found before, and however often a
\* delta sync comes between.  (IngestionPipeline.run)
Reconciled ==
    <>[][~Unrest]_registryVars =>
        <>[](\A d \in Provided : ProviderOf[d] \in Scheduled =>
                (HasStatus(<<d, ProviderOf[d]>>, "active")
                    <=> cloud[d].there /\ cloud[d].online))

\* "Delta never marks devices offline."  (_delta_sync)
DeltaNeverOffline ==
    [][\A r \in Runs, d \in Provided :
          run[r].pc = "writing" /\ run[r].mode = "delta" /\ Upserts(r, d) /\ HasStatus(KeyOf(r, d), "active")
              => rows'[KeyOf(r, d)].status # "offline"]_registryVars
=============================================================================
