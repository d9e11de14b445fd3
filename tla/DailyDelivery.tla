---------------------------- MODULE DailyDelivery ----------------------------
(***************************************************************************)
(* What a standup promises for one day, without processes, jobs or retries:*)
(* the day is opened once, a member's report is opened once the member has *)
(* been sent the first question, and what is over stays over unless a      *)
(* member has asked to start again.                                        *)
(***************************************************************************)
EXTENDS Naturals

CONSTANT Member

VARIABLES
    day,         \* "none" before the day's run exists, then "open" and "closed"
    prompted,    \* the members who have been sent the first question
    report,      \* report[m]: "none", "open" or "done"
    requests     \* how often some member asked to start again

vars == <<day, prompted, report, requests>>

Init ==
    /\ day = "none"
    /\ prompted = {}
    /\ report = [m \in Member |-> "none"]
    /\ requests = 0

OpenDay ==
    /\ day = "none"
    /\ day' = "open"
    /\ UNCHANGED <<prompted, report, requests>>

Prompt(m) ==
    /\ day # "none"
    /\ prompted' = prompted \cup {m}
    /\ UNCHANGED <<day, report, requests>>

\* A report may still be opened in a day that the others have closed.
OpenReport(m) ==
    /\ m \in prompted
    /\ report[m] = "none"
    /\ report' = [report EXCEPT ![m] = "open"]
    /\ UNCHANGED <<day, prompted, requests>>

EndReport(m) ==
    /\ report[m] = "open"
    /\ report' = [report EXCEPT ![m] = "done"]
    /\ UNCHANGED <<day, prompted, requests>>

CloseDay ==
    /\ day = "open"
    /\ \E m \in Member : report[m] # "none"
    /\ day' = "closed"
    /\ UNCHANGED <<prompted, report, requests>>

Request ==
    /\ requests' = requests + 1
    /\ UNCHANGED <<day, prompted, report>>

RestartReport(m) ==
    /\ requests > 0
    /\ m \in prompted
    /\ report[m] = "done"
    /\ report' = [report EXCEPT ![m] = "open"]
    /\ UNCHANGED <<day, prompted, requests>>

ReopenDay ==
    /\ requests > 0
    /\ day = "closed"
    /\ day' = "open"
    /\ UNCHANGED <<prompted, report, requests>>

Next ==
    \/ OpenDay \/ CloseDay \/ ReopenDay \/ Request
    \/ \E m \in Member : Prompt(m) \/ OpenReport(m) \/ EndReport(m) \/ RestartReport(m)

Spec == Init /\ [][Next]_vars
=============================================================================
