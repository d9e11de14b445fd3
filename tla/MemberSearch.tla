----------------------------- MODULE MemberSearch -----------------------------
(***************************************************************************)
(* The search box with which a member is added to a team.  Typing starts a *)
(* timer; when it fires, the search that is still under way is aborted and *)
(* a new one is sent; answers arrive in any order.  Nothing is aborted     *)
(* when a person is chosen or the box is closed.                           *)
(***************************************************************************)
EXTENDS Directory

VARIABLES
    query,      \* what has been typed
    open,       \* the list is open
    timer,      \* a search is to be sent when the timer fires
    requests,   \* the searches sent whose handler has not ended
    sent,       \* the number of searches sent
    results,    \* the list: the search it is from (0: none), and its users
    loading,    \* the spinner
    selected    \* the person chosen, as a set of at most one

searchVars == <<query, open, timer, requests, sent, results, loading, selected>>

NoResults  == [n |-> 0, q |-> "", users |-> {}, more |-> FALSE]
NoAnswer   == [users |-> {}, more |-> FALSE]

Live == {r \in requests : ~r.aborted}

SearchInit ==
    /\ query = "" /\ open = FALSE /\ timer = FALSE
    /\ requests = {} /\ sent = 0
    /\ results = NoResults /\ loading = FALSE
    /\ selected = {}

\* Faulty variant: the effect runs when the query changes, not when the list opens.
EffectOfTyping(q, o) ==
    /\ query' = q /\ open' = o
    /\ timer' = IF q # query THEN o ELSE (timer /\ o)

(* The effect of [query, open]: a pending timer is cleared, and a new one  *)
(* is started when the list is open.                                       *)
Effect(q, o) ==
    /\ query' = q /\ open' = o
    /\ timer' = IF <<q, o>> # <<query, open>> THEN o ELSE timer

Type(q) ==
    /\ selected = {} /\ q # query
    /\ Spend("type")
    /\ Effect(q, TRUE)
    /\ UNCHANGED <<requests, sent, results, loading, selected>>

(* The box gets the focus, or an arrow key. *)
OpenList ==
    /\ selected = {} /\ ~open
    /\ Spend("pick")
    /\ Effect(query, TRUE)
    /\ UNCHANGED <<requests, sent, results, loading, selected>>

(* Escape, or a click outside. *)
CloseList ==
    /\ open
    /\ Effect(query, FALSE)
    /\ UNCHANGED <<requests, sent, results, loading, selected, left>>

NewRequest == [n |-> sent + 1, q |-> query, aborted |-> FALSE, answered |-> FALSE, reply |-> NoAnswer]

\* Faulty variant: the previous search goes on.
SendAnother ==
    /\ timer /\ open
    /\ requests' = requests \cup {NewRequest}
    /\ sent' = sent + 1 /\ timer' = FALSE /\ loading' = TRUE
    /\ UNCHANGED <<query, open, results, selected, left>>

SendSearch ==
    /\ timer /\ open
    /\ requests' = {[r EXCEPT !.aborted = TRUE] : r \in requests} \cup {NewRequest}
    /\ sent' = sent + 1 /\ timer' = FALSE /\ loading' = TRUE
    /\ UNCHANGED <<query, open, results, selected, left>>

(* GET /api/directory/search reads the directory at some moment. *)
AnswerSearch(r) ==
    /\ r \in requests /\ ~r.answered
    /\ \E reply \in SearchPage(r.q) :
          requests' = (requests \ {r}) \cup {[r EXCEPT !.answered = TRUE, !.reply = reply]}
    /\ UNCHANGED <<query, open, timer, sent, results, loading, selected, left>>

ShowResults(r) ==
    /\ r \in Live /\ r.answered
    /\ results' = [n |-> r.n, q |-> r.q, users |-> r.reply.users, more |-> r.reply.more]
    /\ requests' = requests \ {r} /\ loading' = FALSE
    /\ UNCHANGED <<query, open, timer, sent, selected, left>>

(* A search that fails leaves an empty list; one that was aborted leaves   *)
(* the list alone, but it stops the spinner as well.                       *)
EndSearch(r) ==
    /\ r \in requests
    /\ results' = IF r.aborted THEN results ELSE [results EXCEPT !.n = r.n, !.q = r.q, !.users = {}]
    /\ requests' = requests \ {r} /\ loading' = FALSE
    /\ UNCHANGED <<query, open, timer, sent, selected, left>>

(* The list appears once there is something to show in it, be it that      *)
(* nobody was found.                                                       *)
ShowDropdown == open /\ (loading \/ results.users # {} \/ query # "")

Options == IF ShowDropdown THEN results.users ELSE {}

(* The note that there are more matches stays.                             *)
Choose(i) ==
    /\ i \in Options
    /\ selected' = {i}
    /\ results' = [results EXCEPT !.q = "", !.users = {}]
    /\ Effect("", FALSE)
    /\ UNCHANGED <<requests, sent, loading, left>>

(* The choice is cleared, or the member has been added. *)
ClearChoice ==
    /\ selected # {}
    /\ selected' = {}
    /\ UNCHANGED <<query, open, timer, requests, sent, results, loading, left>>

SearchNext ==
    \/ \E q \in Query : Type(q)
    \/ OpenList \/ CloseList \/ SendSearch \/ ClearChoice
    \/ \E r \in requests : AnswerSearch(r) \/ ShowResults(r) \/ EndSearch(r)
    \/ \E i \in Id : Choose(i)

-----------------------------------------------------------------------------
Reply   == [users : SUBSET Id, more : BOOLEAN]
Request == [n : Nat, q : Query, aborted : BOOLEAN, answered : BOOLEAN, reply : Reply]
List    == [n : Nat, q : Query, users : SUBSET Id, more : BOOLEAN]

SearchTypeOK ==
    /\ query \in Query /\ open \in BOOLEAN /\ timer \in BOOLEAN /\ loading \in BOOLEAN
    /\ sent \in Nat
    /\ requests \subseteq Request
    /\ \A r \in requests :
          /\ r.n \in 1..sent
          /\ r.reply.users \subseteq Matches[r.q] /\ Cardinality(r.reply.users) <= Limit
    /\ results \in List /\ results.n <= sent
    /\ selected \subseteq Id /\ Cardinality(selected) <= 1

(* member-search.tsx:32-33: the results of a search never give way to      *)
(* those of an earlier one, in whatever order the answers arrive.          *)
NoOlderResults == [][results'.n >= results.n]_results

(* member-search.tsx:34-56: when the list is open and nothing is pending   *)
(* any more, it shows the answer to what has been typed, also after it was *)
(* closed, cleared by a choice or overtaken in between.                    *)
SettledSearchIsCurrent ==
    open /\ ~timer /\ Live = {} => results.q = query /\ results.n = sent
=============================================================================
