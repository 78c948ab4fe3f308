------------------------------ MODULE WebPages ------------------------------
(***************************************************************************)
(* The web client: a tab shows one of its pages.  The pages of the export   *)
(* lead to one another and share the session; the others are entered from   *)
(* the page of links and share nothing.                                     *)
(***************************************************************************)
EXTENDS ExportPages, CatalogPages, Explorer, MapPage

vars == <<browser, session, job>>

Init ==
  /\ clicks = 0
  /\ fails = 0
  /\ LET blank == TabOf(NewPage("links"))
     IN  \/ ExportInit /\ tab = openExport(blank)
         \/ /\ session = resetModel
            /\ job = NoJob
            /\ tab \in {openCatalog(blank), openStatus(blank), openExplorer(blank), openMap(blank)}

OnExportPages == OnExport /\ ExportNext
OnOtherPages ==
  /\ \/ CatalogNext
     \/ OnExplorer /\ ExplorerNext
     \/ MapNext
  /\ UNCHANGED <<session, job>>

Next == OnExportPages \/ OnOtherPages

Spec == Init /\ [][Next]_vars

-----------------------------------------------------------------------------

Quiet == tab.tidy /\ tab.flights = <<>> /\ fails = 0

\* In whatever order choices were made and answers came, as long as none was overtaken: a
\* page at rest shows what is selected, or in the session, and nothing older.
PagesCurrent ==
  /\ Quiet => ExportCurrent /\ CatalogCurrent
  /\ ViewsOfSelection
  /\ MapCurrent

\* A page of the export says that it is busy exactly while it waits for an answer - but for
\* a handler that threw after it had counted itself (stuck), whose page stays busy - and the
\* explorer's progress is that of its runners, which are at work until all views are done.
\* A cycle that began without views is covered as long as no request failed and no answer
\* was overtaken.
BusyExact == ExportBusy /\ RunnersAtWork

\* What is asked for is what is shown to be asked for: the rows of a table are exactly those
\* of the time selected, in the order selected, and a time does not end before it starts.
SelectionExact == RowsExact /\ TimeOrdered
=============================================================================
