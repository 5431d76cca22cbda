------------------------------ MODULE Startup -------------------------------
(***************************************************************************)
(* How the application starts, and when it stops saying "Loading           *)
(* resources": App (src/app.tsx) and AppState.init, initAllVMs, initVM and *)
(* getVms (src/state.ts).                                                  *)
(*                                                                         *)
(* App runs init once, and for the page it shows it has either one virtual *)
(* machine read, or all of them, once for the whole session.  What they    *)
(* read is in VmList; here a lookup or a listing is under way, or over.    *)
(*                                                                         *)
(* Every change of #commonDataInited and #vmsInited is followed by         *)
(* #update, so that loadingResources is an operator and not a variable.    *)
(* The background fetches that nothing waits for are left out, and so are  *)
(* the notifications and the check for hardware virtualization.            *)
(***************************************************************************)
EXTENDS Naturals, FiniteSets

CONSTANTS
    VmNames,      \* virtual machines with a page of their own
    Connections,  \* libvirt connections of the user
    System,       \* the system connection
    MaxVisits     \* bound on the pages the user goes to

\* The overview, the storage pools and the networks need the whole list.
Pages == VmNames \cup {"overview"}

ASSUME StartupAssumption ==
    /\ IsFiniteSet(Connections)
    /\ System \in Connections
    /\ {"overview", "none"} \cap VmNames = {}
    /\ "" \notin VmNames
    /\ MaxVisits \in Nat

VARIABLES
    page,              \* the page shown, or "none" before the first one
    visits,            \* number of pages the user went to
    stage,             \* of init: "new", "user", "connections", "done"
    connection,        \* of init: "waiting", "version", "resources", "done"
    systemSocketInactive,
    vmsInited,         \* #vmsInited
    allVms,            \* #allVmsPromise: "none", "names", "listing", "done"
    quiet,             \* whether it was made for a caller of getVms
    listing,           \* domainGetAll of each connection: "waiting", "done", "failed"
    vmRequested,       \* #vmRequested
    lookups,           \* how many domainGetByName are under way for each machine
    lookedUp,          \* history: machines for which one has ended
    getVms             \* a caller of getVms: "none", "waiting", "returned"

initVars == <<stage, connection, systemSocketInactive>>
listVars == <<allVms, quiet, listing>>
appVars == <<page, visits, initVars, vmsInited, listVars, vmRequested, lookups, lookedUp, getVms>>

AppTypeOK ==
    /\ page \in Pages \cup {"none"}
    /\ visits \in 0..MaxVisits
    /\ stage \in {"new", "user", "connections", "done"}
    /\ connection \in [Connections -> {"waiting", "version", "resources", "done"}]
    /\ systemSocketInactive \in BOOLEAN
    /\ vmsInited \in BOOLEAN
    /\ allVms \in {"none", "names", "listing", "done"}
    /\ quiet \in BOOLEAN
    /\ listing \in [Connections -> {"waiting", "done", "failed"}]
    /\ vmRequested \in VmNames \cup {""}
    /\ lookups \in [VmNames -> Nat]
    /\ lookedUp \subseteq VmNames
    /\ getVms \in {"none", "waiting", "returned"}

AppInit ==
    /\ page = "none"
    /\ visits = 0
    /\ stage = "new"
    /\ connection = [c \in Connections |-> "waiting"]
    /\ systemSocketInactive = FALSE
    /\ vmsInited = TRUE
    /\ allVms = "none"
    /\ quiet = FALSE
    /\ listing = [c \in Connections |-> "waiting"]
    /\ vmRequested = ""
    /\ lookups = [v \in VmNames |-> 0]
    /\ lookedUp = {}
    /\ getVms = "none"

commonDataInited == stage = "done"

loadingResources == ~(commonDataInited /\ vmsInited)

-----------------------------------------------------------------------------
(* The page *)

(* initAllVMs: one promise for the whole session.                          *)
initAllVMs(q) ==
    IF allVms = "none" THEN allVms' = "names" /\ quiet' = q
                       ELSE UNCHANGED <<allVms, quiet>>

(* initVM: nothing to do once all machines are read, or are about to be.   *)
initVM(v) ==
    IF allVms # "none" \/ vmRequested = v
    THEN UNCHANGED <<vmRequested, vmsInited, lookups>>
    ELSE /\ vmRequested' = v
         /\ vmsInited' = FALSE
         /\ lookups' = [lookups EXCEPT ![v] = @ + 1]

(* The user goes to page p, and App is rendered.                           *)
App(p) ==
    /\ visits < MaxVisits
    /\ visits' = visits + 1
    /\ p # page
    /\ page' = p
    /\ stage' = IF stage = "new" THEN "user" ELSE stage
    /\ IF p \in VmNames
       THEN initVM(p) /\ UNCHANGED <<allVms, quiet>>
       ELSE initAllVMs(FALSE) /\ UNCHANGED <<vmRequested, vmsInited, lookups>>
    /\ UNCHANGED <<connection, systemSocketInactive, listing, lookedUp, getVms>>

(* A dialog of a page of a machine wants the whole list.                   *)
CallGetVms ==
    /\ page \in VmNames
    /\ ~loadingResources
    /\ getVms = "none"
    /\ getVms' = "waiting"
    /\ initAllVMs(TRUE)
    /\ UNCHANGED <<page, visits, initVars, vmsInited, listing, vmRequested, lookups, lookedUp>>

GetVmsReturns ==
    /\ getVms = "waiting"
    /\ allVms = "done"
    /\ getVms' = "returned"
    /\ UNCHANGED <<page, visits, initVars, vmsInited, listVars, vmRequested, lookups, lookedUp>>

-----------------------------------------------------------------------------
(* init *)

(* cockpit.user() has returned, and getConnectionNames.                    *)
UserIsKnown ==
    /\ stage = "user"
    /\ stage' = "connections"
    /\ connection' = [c \in Connections |-> "version"]
    /\ UNCHANGED <<page, visits, systemSocketInactive, vmsInited, listVars, vmRequested,
                   lookups, lookedUp, getVms>>

(* getLibvirtVersion returns, or fails: then libvirt is not active.        *)
VersionReturns(c) ==
    /\ connection[c] = "version"
    /\ \/ /\ connection' = [connection EXCEPT ![c] = "resources"]
          /\ UNCHANGED systemSocketInactive
       \/ /\ connection' = [connection EXCEPT ![c] = "done"]
          /\ systemSocketInactive' = (systemSocketInactive \/ c = System)
    /\ UNCHANGED <<page, visits, stage, vmsInited, listVars, vmRequested, lookups, lookedUp,
                   getVms>>

(* getApiData has settled, whatever has failed.                            *)
ResourcesAreRead(c) ==
    /\ connection[c] = "resources"
    /\ connection' = [connection EXCEPT ![c] = "done"]
    /\ UNCHANGED <<page, visits, stage, systemSocketInactive, vmsInited, listVars, vmRequested,
                   lookups, lookedUp, getVms>>

InitIsDone ==
    /\ stage = "connections"
    /\ \A c \in Connections : connection[c] = "done"
    /\ stage' = "done"
    /\ UNCHANGED <<page, visits, connection, systemSocketInactive, vmsInited, listVars,
                   vmRequested, lookups, lookedUp, getVms>>

-----------------------------------------------------------------------------
(* initAllVMs and initVM, after their awaits *)

ListingBegins ==
    /\ allVms = "names"
    /\ allVms' = "listing"
    /\ vmsInited' = (quiet /\ vmsInited)
    /\ UNCHANGED <<page, visits, initVars, quiet, listing, vmRequested, lookups, lookedUp, getVms>>

domainGetAll(c) ==
    /\ allVms = "listing"
    /\ listing[c] = "waiting"
    /\ \E result \in {"done", "failed"} : listing' = [listing EXCEPT ![c] = result]
    /\ UNCHANGED <<page, visits, initVars, vmsInited, allVms, quiet, vmRequested, lookups,
                   lookedUp, getVms>>

(* Faulty: the promise is kept until every connection has been listed.     *)
ListingEndsIfListed ==
    /\ allVms = "listing"
    /\ \A c \in Connections : listing[c] = "done"
    /\ allVms' = "done"
    /\ vmsInited' = TRUE
    /\ UNCHANGED <<page, visits, initVars, quiet, listing, vmRequested, lookups, lookedUp, getVms>>

ListingEnds ==
    /\ allVms = "listing"
    /\ \A c \in Connections : listing[c] # "waiting"
    /\ allVms' = "done"
    /\ vmsInited' = TRUE
    /\ UNCHANGED <<page, visits, initVars, quiet, listing, vmRequested, lookups, lookedUp, getVms>>

LookupIsOver(v) ==
    /\ lookups[v] > 0
    /\ lookups' = [lookups EXCEPT ![v] = @ - 1]
    /\ lookedUp' = lookedUp \cup {v}

(* Faulty: whichever lookup ends, the page is taken to be loaded.          *)
AnyLookupEnds(v) ==
    /\ LookupIsOver(v)
    /\ vmsInited' = TRUE
    /\ UNCHANGED <<page, visits, initVars, listVars, vmRequested, getVms>>

(* domainGetByName has returned: is it still what the page waits for?      *)
LookupEnds(v) ==
    /\ LookupIsOver(v)
    /\ vmsInited' = (vmsInited \/ vmRequested = v)
    /\ UNCHANGED <<page, visits, initVars, listVars, vmRequested, getVms>>

-----------------------------------------------------------------------------
AppUser == (\E p \in Pages : App(p)) \/ CallGetVms

Proceeds ==
    \/ GetVmsReturns \/ UserIsKnown \/ InitIsDone \/ ListingBegins \/ ListingEnds
    \/ \E c \in Connections : VersionReturns(c) \/ ResourcesAreRead(c) \/ domainGetAll(c)
    \/ \E v \in VmNames : LookupEnds(v)

AppNext == AppUser \/ Proceeds

AppSpec == AppInit /\ [][AppNext]_appVars

(* Every promise settles: D-Bus calls have a timeout.  The user needs not  *)
(* do anything.                                                            *)
FairAppSpec == AppSpec /\ WF_appVars(Proceeds)

-----------------------------------------------------------------------------
(* Properties *)

(* A page of a machine that is not loading has had its machine looked up,  *)
(* unless all machines are listed: the lookup for a page that the user has *)
(* left does not end the wait of the next one (initVM).                    *)
DetailsAreLoaded ==
    page \in VmNames /\ ~loadingResources /\ allVms = "none" => page \in lookedUp

(* Whatever fails, and wherever the user goes, loading ends; and a dialog  *)
(* that asks for the list of machines gets one, also when it was the first *)
(* to ask for it, and when a connection fails (initAllVMs, initVM, getVms).*)
WaitingEnds ==
    /\ page # "none" ~> ~loadingResources
    /\ getVms = "waiting" ~> getVms = "returned"
=============================================================================
