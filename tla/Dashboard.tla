----------------------------- MODULE Dashboard -----------------------------
(***************************************************************************)
(* The dashboard (frontend/src/App.jsx) on top of the bridge: it asks for  *)
(* /api/dashboard when it is mounted and every two seconds from then on,   *)
(* whether or not earlier polls have come back, and applies their answers  *)
(* as they come.  Only the state that fetchDashboard sets is modelled, and *)
(* of that not the activity history, a log of what setData was given.      *)
(***************************************************************************)
EXTENDS Bridge

CONSTANT Shared   \* bound: the slots that others use as well

ASSUME DashboardAssumption == "/api/dashboard" \in Urls /\ Shared \subseteq Slots

VARIABLES
  data,     \* what the dashboard shows, None while it is "Connecting"
  online,
  error     \* whether it shows an error

shown == <<data, online, error>>

dashboardVars == <<bridgeVars, shown>>

DashboardTypeOK ==
  /\ BridgeTypeOK
  /\ data \in Versions \cup {None}
  /\ online \in BOOLEAN
  /\ error \in BOOLEAN
  /\ online => data # None /\ ~error

DashboardInit ==
  /\ BridgeInit
  /\ data = None
  /\ online = FALSE
  /\ error = FALSE

(* fetchDashboard is called: on mount, and by setInterval. *)
Poll(r) == Request(r, "/api/dashboard") /\ UNCHANGED shown

(* Mutant of Displayed: the first answer stays. *)
DisplayedOnce(answer) == IF data = None THEN answer ELSE data

(* setData *)
Displayed(answer) == answer

(* The rest of fetchDashboard when response.ok. *)
Apply(r) ==
  /\ url[r] = "/api/dashboard"
  /\ status[r] = 200
  /\ data' = Displayed(info[r])
  /\ online' = TRUE
  /\ error' = FALSE
  /\ Release(r)

(* Its catch clause, for an answer that is not ok. *)
Fail(r) ==
  /\ url[r] = "/api/dashboard"
  /\ status[r] = 503
  /\ online' = FALSE
  /\ error' = TRUE
  /\ Release(r)
  /\ UNCHANGED data

(* Somebody else uses the bridge. *)
Visit(r) ==
  /\ r \in Shared
  /\ \E u \in Urls \ {"/api/dashboard"} : Request(r, u)
  /\ UNCHANGED shown

(* One step towards the end of a request. *)
Step(r) ==
  \/ Progress(r) /\ UNCHANGED shown
  \/ Apply(r)
  \/ Fail(r)
  \/ url[r] # "/api/dashboard" /\ Release(r) /\ UNCHANGED shown

Next ==
  \/ Environment /\ UNCHANGED shown
  \/ \E r \in Slots : Poll(r) \/ Visit(r) \/ Step(r)

(* Whatever a request waits for, something comes of it: Node and the       *)
(* browser run what is due, TCP delivers, visitors take their responses,   *)
(* NeuraCache answers, or if nothing of that happens time runs out.  The   *)
(* interval goes on, and visitors do not keep the dashboard out for ever.  *)
DashboardSpec ==
  /\ DashboardInit /\ [][Next]_dashboardVars
  /\ \A r \in Slots : WF_dashboardVars(Step(r)) /\ SF_dashboardVars(Poll(r))

-----------------------------------------------------------------------------
Readable(bytes) == \A i \in DOMAIN bytes : bytes[i] # "L"

(* Polls overlap and come back in any order, late ones say that NeuraCache *)
(* is offline when it is back, or show what it was.  But once NeuraCache   *)
(* stays up, in one state, answers in time and in single-byte characters,  *)
(* the dashboard shows that state and "online" for good, unless every one  *)
(* of its connections was lost to a request that is never answered.        *)
DashboardCatchesUp ==
  \A v \in Versions :
    (/\ <>[](up /\ version = v /\ \A r \in Slots : Readable(reply[r]))
     /\ <>[][\A r \in Slots : ~Timeout(r)]_dashboardVars
     /\ []<>(\E r \in Slots : ~Stuck(r)))
    => <>[](online /\ data = v)
=============================================================================
