------------------------------- MODULE MapPage -------------------------------
(***************************************************************************)
(* App.jsx over the two data hooks: the controls of ControlDeck choose the *)
(* layer and the window and refresh both layers at once.  They are         *)
(* disabled while a refresh runs or the visible layer loads.               *)
(***************************************************************************)
EXTENDS MapData, FiniteSets

\* Only useFireData loads when the page opens, and its layer is visible then.
ASSUME PageAssumption == \E l \in Layers : EagerLayers = {l}

VARIABLES
    days,        \* the chosen window
    layer,       \* the visible layer
    refreshing,  \* the requests handleRefresh awaits; empty: not refreshing
    selected     \* selectedKey: the layer and the window of the chosen result

pageVars == <<hookVars, days, layer, refreshing, selected>>

NoSelection == <<>>

PageInit ==
    /\ Init
    /\ days = DefaultWindow
    /\ layer \in EagerLayers
    /\ refreshing = {}
    /\ selected = NoSelection

\* loading of ControlDeck
Busy_LayerOnly == loading[layer]
Busy == refreshing # {} \/ loading[layer]

Enabled == mounted /\ ~Busy

\* handleDaysChange: the select fires when another window is chosen.
ChangeDays_KeepsSelection(d) ==
    /\ Enabled
    /\ d # days
    /\ days' = d
    /\ Load(layer, d)
    /\ UNCHANGED <<timer, mounted, layer, refreshing, selected>>

ChangeDays(d) ==
    /\ Enabled
    /\ d # days
    /\ days' = d
    /\ selected' = NoSelection
    /\ Load(layer, d)
    /\ UNCHANGED <<timer, mounted, layer, refreshing>>

\* handleLayerChange, also for the layer that is already visible
ChangeLayer_KeepsData(l) ==
    /\ Enabled
    /\ layer' = l
    /\ selected' = NoSelection
    /\ IF shown[l] = Nothing
       THEN Load(l, days)
       ELSE UNCHANGED <<stored, view, active, open, issued, chosen>>
    /\ UNCHANGED <<timer, mounted, days, refreshing>>

ChangeLayer(l) ==
    /\ Enabled
    /\ layer' = l
    /\ selected' = NoSelection
    /\ Load(l, days)
    /\ UNCHANGED <<timer, mounted, days, refreshing>>

\* handleRefresh, refreshAllLayers: browser cache skipped, both layers at once
Refresh ==
    /\ Enabled
    /\ Request(Layers, days)
    /\ refreshing' = {<<l, issued[l] + 1>> : l \in Layers}
    /\ UNCHANGED <<timer, mounted, days, layer, selected>>

\* Promise.allSettled resolves when neither promise is open any more.
RefreshEnds ==
    /\ refreshing # {}
    /\ \A p \in refreshing : \A r \in open[p[1]] : r.id # p[2]
    /\ refreshing' = {}
    /\ UNCHANGED <<hookVars, days, layer, selected>>

\* onSelect: a click on a marker of the map or on an entry of the list, which
\* stay enabled while the layer loads
Select ==
    /\ mounted
    /\ shown[layer] # Nothing
    /\ selected' = <<layer, shown[layer].days>>
    /\ UNCHANGED <<hookVars, days, layer, refreshing>>

PageNext ==
    \/ \E d \in Windows : ChangeDays(d)
    \/ \E l \in Layers : ChangeLayer(l)
    \/ Refresh
    \/ RefreshEnds
    \/ Select
    \/ Background /\ UNCHANGED <<days, layer, refreshing, selected>>

PageSpec == PageInit /\ [][PageNext]_pageVars

PageFairness == Fairness /\ WF_pageVars(RefreshEnds)

-----------------------------------------------------------------------------
(* Properties *)

\* What the visible layer displays is of the window the control shows, also
\* after switching layers, failed loads and refreshes; and it displays
\* something when nothing loads and nothing failed.
VisibleIsForWindow ==
    /\ shown[layer] # Nothing => shown[layer].days = days
    /\ Enabled /\ ~failed[layer] => shown[layer] # Nothing

\* The disabled controls keep the requests of a layer apart: no call of the
\* page supersedes another, and the hidden layer loads only in a refresh.
OneRequestPerLayer ==
    /\ \A l \in Layers : Cardinality(open[l]) <= 1
    /\ mounted => \A l \in Layers : loading[l] => l = layer \/ refreshing # {}

\* The result that stays selected is one of the layer and the window that are
\* displayed: no request that empties or replaces them leaves it behind.
SelectionIsShown ==
    selected # NoSelection =>
        /\ selected[1] = layer
        /\ shown[layer] # Nothing /\ shown[layer].days = selected[2]

\* The controls are enabled again, whatever fails.
ControlsComeBack == Busy ~> ~Busy \/ ~mounted

\* The notice "Showing the last successful source update"
\* (StaleDataNotice.jsx) stands over data that is shown.
StaleNoticeShowsData ==
    Enabled /\ label[layer].stale => shown[layer] # Nothing
=============================================================================
