------------------------------ MODULE MapPage ------------------------------
(***************************************************************************)
(* The map of the plots in the web client (webcontent/map2): a background   *)
(* map, whose layers may have to be asked for at a WMS or WMTS server, the   *)
(* plots of TubeDB on top of it, and the dialogs of the selected plots.     *)
(***************************************************************************)
EXTENDS Browser

CONSTANTS
  Backgrounds,   \* background map -> [type, url], url None if the user enters it
  FirstMap,      \* the background map at the beginning
  Urls,          \* what a user may enter
  LayersOf,      \* url -> the names of the layers its server tells
  MapPlots,      \* the plots of the server: name -> TRUE iff they have a position
  MaxHovered     \* the most plots named when the pointer is over them

Types == {"XYZ", "WMS", "WMTS"}

Located == {x \in DOMAIN MapPlots : MapPlots[x]}

-----------------------------------------------------------------------------

BackgroundType(p) == Backgrounds[p.background].type
UrlOf(p) ==
  LET url == Backgrounds[p.background].url
  IN  IF url = None THEN p.custom[BackgroundType(p)] ELSE url

\* What refreshLayers puts under the plots: the map of a url, a WMS with or without its
\* selected layer, a WMTS only with one.
BackgroundLayer(p) ==
  LET type == BackgroundType(p)
  IN  CASE type = "XYZ" -> [url |-> UrlOf(p), layer |-> None]
        [] type = "WMS" /\ p.caps.WMS # None -> [url |-> p.caps.WMS, layer |-> p.layer.WMS]
        [] type = "WMTS" /\ p.caps.WMTS # None /\ p.layer.WMTS # None ->
             [url |-> p.caps.WMTS, layer |-> p.layer.WMTS]
        [] OTHER -> None

refreshLayers(t) == [t EXCEPT !.page.drawn = BackgroundLayer(t.page)]

refreshBackgroundMap(t) ==
  LET type == BackgroundType(t.page)
  IN  IF type = "XYZ" THEN refreshLayers(t)
      ELSE Send(refreshLayers([t EXCEPT !.page.message[type] = "loading", !.page.caps[type] = None]),
                type, UrlOf(t.page))

\* backgroundMap is set before the map is made; the watcher refreshes it once more.
openMap(t) ==
  LET new == [name |-> "map", message |-> [plots |-> "query", WMS |-> None, WMTS |-> None],
              features |-> {}, background |-> FirstMap, custom |-> [x \in Types |-> ""],
              caps |-> [WMS |-> None, WMTS |-> None], layer |-> [WMS |-> None, WMTS |-> None],
              drawn |-> None, hovered |-> 0, selected |-> {}, plotsDialog |-> FALSE,
              plotDialog |-> FALSE, plot |-> None]
      made == refreshBackgroundMap(Leave(t, new, {}))
  IN  refreshBackgroundMap(Send(made, "plot_info", None))

MapKinds == {"plot_info", "WMS", "WMTS"}

mapAnswer(f) == IF f.kind = "plot_info" THEN Located ELSE f.key

MapLoaded(t, f) ==
  IF f.kind = "plot_info"
    THEN [t EXCEPT !.page.features = f.answer, !.page.message.plots = None]
    ELSE refreshLayers([t EXCEPT !.page.caps[f.kind] = f.answer, !.page.message[f.kind] = None])

\* The message of the plots stays.
MapNotLoaded(t, f) ==
  IF f.kind = "plot_info" THEN t
  ELSE refreshLayers([t EXCEPT !.page.message[f.kind] = "error"])

OnMap == tab.page.name = "map"

LandMap == OnMap /\ LandWith(MapKinds, mapAnswer, MapLoaded)
FailMap == OnMap /\ FailWith(MapKinds, MapNotLoaded)

selectBackground ==
  /\ Click /\ OnMap
  /\ \E b \in DOMAIN Backgrounds \ {tab.page.background} :
       tab' = refreshBackgroundMap([tab EXCEPT !.page.background = b])

enterUrl ==
  /\ Click /\ OnMap
  /\ Backgrounds[tab.page.background].url = None
  /\ \E u \in Urls \ {UrlOf(tab.page)} :
       tab' = refreshBackgroundMap([tab EXCEPT !.page.custom[BackgroundType(tab.page)] = u])

\* The layers offered are those of the capabilities.
selectLayer ==
  /\ Click /\ OnMap
  /\ LET type == BackgroundType(tab.page)
     IN  /\ type # "XYZ"
         /\ tab.page.caps[type] # None
         /\ \E x \in LayersOf[tab.page.caps[type]] \ {tab.page.layer[type]} :
              tab' = refreshLayers([tab EXCEPT !.page.layer[type] = x])

-----------------------------------------------------------------------------
(* The plots                                                               *)

viewPlot(p, x) == [p EXCEPT !.plot = x, !.plotDialog = TRUE]

\* One plot is viewed, several are listed.
viewSelectedPlots(p) ==
  IF Cardinality(p.selected) = 1 THEN viewPlot(p, CHOOSE x \in p.selected : TRUE)
  ELSE [p EXCEPT !.plotsDialog = @ \/ p.selected # {}]

\* A click at a cluster of plots, or a box around some (or none).
selectPlotsOfMap ==
  /\ Click /\ OnMap /\ ~tab.page.plotsDialog /\ ~tab.page.plotDialog
  /\ tab.page.features # {}
  /\ \E s \in SUBSET tab.page.features :
       tab' = [tab EXCEPT !.page = viewSelectedPlots([tab.page EXCEPT !.selected = s])]

hoverPlots ==
  /\ Click /\ OnMap /\ ~tab.page.plotsDialog /\ ~tab.page.plotDialog
  /\ \E n \in 0..Cardinality(tab.page.features) :
       /\ n # tab.page.hovered
       /\ tab' = [tab EXCEPT !.page.hovered = IF n <= MaxHovered THEN n ELSE MaxHovered]

\* In the list of plots, which stays open below the plot's dialog.
pickPlot ==
  /\ Click /\ OnMap /\ tab.page.plotsDialog /\ ~tab.page.plotDialog
  /\ \E x \in tab.page.selected : tab' = [tab EXCEPT !.page = viewPlot(tab.page, x)]

closeDialog ==
  /\ Click /\ OnMap
  /\ \/ tab.page.plotDialog /\ tab' = [tab EXCEPT !.page.plotDialog = FALSE]
     \/ ~tab.page.plotDialog /\ tab.page.plotsDialog /\ tab' = [tab EXCEPT !.page.plotsDialog = FALSE]

MapNext ==
  \/ selectBackground \/ enterUrl \/ selectLayer
  \/ selectPlotsOfMap \/ hoverPlots \/ pickPlot \/ closeDialog
  \/ LandMap \/ FailMap

\* What is drawn under the plots is always what is selected; when nothing is under way and
\* no answer failed or came late it is of the selected server and no other.
MapCurrent ==
  OnMap =>
    LET p == tab.page
        type == BackgroundType(p)
    IN  /\ p.drawn = BackgroundLayer(p)
        /\ tab.tidy /\ fails = 0 /\ Pending(tab, {"WMS", "WMTS"}) = {} /\ type # "XYZ" =>
             p.caps[type] = UrlOf(p)
=============================================================================
