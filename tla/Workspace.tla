------------------------------ MODULE Workspace ------------------------------
(***************************************************************************)
(* What one Slack workspace shares between its teams: the users of the web *)
(* app, the directory of members and its search box, and the Linear        *)
(* integration, whose issues are matched to a member through the e-mail    *)
(* addresses of the first two.                                             *)
(***************************************************************************)
EXTENDS LinearFeed, MemberSearch

vars == <<accountVars, dirVars, searchVars, linearVars, left>>

Init == \E start \in Starts :
            AccountsInit(start) /\ DirectoryInit(start) /\ SearchInit /\ LinearInit(start)

Next ==
    \/ AccountsNext  /\ UNCHANGED <<dirVars, searchVars, linearVars>>
    \/ DirectoryNext /\ UNCHANGED <<accountVars, searchVars, linearVars>>
    \/ SearchNext    /\ UNCHANGED <<accountVars, dirVars, linearVars>>
    \/ LinearNext    /\ UNCHANGED <<accountVars, dirVars, searchVars>>

Spec == Init /\ [][Next]_vars

\* Every variable has its type.
TypeOK == AccountsTypeOK /\ DirectoryTypeOK /\ SearchTypeOK /\ LinearTypeOK
=============================================================================
