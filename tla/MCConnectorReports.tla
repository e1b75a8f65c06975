------------------------- MODULE MCConnectorReports -------------------------
(***************************************************************************)
(* What a connector reports of itself, for TLC: with one handler at a time *)
(* in the Worker, with two that overtake each other while the connector's  *)
(* state changes (Two), and with two of which one may go on when the       *)
(* connector has connected again (Late).  A behaviour is about one of      *)
(* them, named by subject.                                                 *)
(***************************************************************************)
EXTENDS ConnectorReports

CONSTANTS idle, degraded, full, drained

VARIABLE subject

Two == INSTANCE ConnectorReports
  WITH Capabilities <- {full}, Handlers <- {1, 2}, Ids <- 3, MaxFaults <- 0
Late == INSTANCE ConnectorReports
  WITH Capabilities <- {full}, Handlers <- {1, 2}, Ids <- 3, MaxChanges <- 0

\* The bounds of the instances are what their module assumes of them.
ASSUME MCReportsAssumption == ReportsAssumption /\ Two!ReportsAssumption /\ Late!ReportsAssumption

all == <<subject, vars>>

About(s) == subject = s /\ UNCHANGED subject
One(A) == About("one") /\ A

MCInit ==
  /\ subject \in {"one", "two", "late"}
  /\ IF subject = "one" THEN Init ELSE Two!Init

MCNext ==
  \/ One(Next)
  \/ About("two") /\ Two!Next
  \/ About("late") /\ Late!Next

(* The fairness of each, as the module explains it.  The actions named here *)
(* do not depend on the bounds in which Two and Late differ.                *)
Pair(A) == subject \in {"two", "late"} /\ UNCHANGED subject /\ A

MCSpec ==
  /\ MCInit /\ [][MCNext]_all
  /\ SF_all(One(Tick(TRUE, TRUE)) \/ Pair(Two!Tick(TRUE, TRUE)))
  /\ WF_all(One(AcknowledgeReady \/ AcknowledgeReport)
            \/ Pair(Two!AcknowledgeReady \/ Two!AcknowledgeReport))
  /\ WF_all(One(\E h \in Handlers : Take(h)) \/ Pair(Two!Take(1) \/ Two!Take(2)))
  /\ WF_all(One(Handle(1)) \/ Pair(Two!Handle(1))) /\ WF_all(Pair(Two!Handle(2)))
  /\ SF_all(One(Accept(1)) \/ Pair(Two!Accept(1))) /\ SF_all(Pair(Two!Accept(2)))
  /\ WF_all(One(CleanUp) \/ Pair(Two!CleanUp))
-----------------------------------------------------------------------------
(* All states have their types.                                             *)
TypesAreCorrect ==
  CASE subject = "one" -> TypeOK [] subject = "two" -> Two!TypeOK [] subject = "late" -> Late!TypeOK

(* What the connector counts as acknowledged, and will not send again, is   *)
(* in the Worker's row when nothing is on its way (one handler); and after  *)
(* the last change the rows of the capabilities (one handler) and of the    *)
(* app-server come to tell the connector's state and stay so.               *)
RowsSettle ==
  /\ subject = "one" => []AckedReadyIsStored /\ CapabilitiesConverge
  /\ RowConverges
=============================================================================
