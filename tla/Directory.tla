------------------------------ MODULE Directory ------------------------------
(***************************************************************************)
(* The workspace directory (slack_directory_users): the worker drains      *)
(* Slack's paged member list and upserts it in chunks, while the workspace *)
(* changes under it; and the search box of the team page, which asks the   *)
(* web process for the members that match what has been typed so far.      *)
(***************************************************************************)
EXTENDS Accounts, FiniteSetsExt

CONSTANTS
    PageOf,     \* PageOf[i]: the page of users.list that i is on
    PageCap,    \* the number of pages that are read at most
    Chunk,      \* the number of rows that are written at once
    Matches,    \* Matches[q]: the ids whose name or address contains the query q
    Limit       \* the number of results the search box asks for

ASSUME PagesAssumption == PageOf \in [Id -> Nat \ {0}] /\ PageCap \in Nat \ {0}
ASSUME ChunkAssumption == Chunk \in Nat \ {0} /\ Limit \in Nat \ {0}

Query  == DOMAIN Matches
ASSUME MatchesAssumption == "" \in Query /\ Matches \in [Query -> SUBSET Id]

Pages  == {PageOf[i] : i \in Id}

VARIABLES
    slack,      \* slack[i]: what Slack's workspace knows of i
    dir,        \* dir[i]: the directory's row of i
    syncs,      \* the sync-directory jobs in the queue
    page,       \* the page listAllUsers reads next, 0 when it is not running
    fetched,    \* fetched[i]: what it has read of i
    unwritten,  \* the members that upsertDirectoryUsers has still to write
    sincesync,  \* history: sincesync[i]: what has been true of i since the latest sync began
    synced      \* history: that sync has ended without failing

dirVars == <<slack, dir, syncs, page, fetched, unwritten, sincesync, synced>>

DirectoryInit(start) ==
    /\ slack = start.slack
    /\ dir = start.dir
    /\ syncs = 0
    /\ page = 0
    /\ fetched = [i \in Id |-> "none"] /\ unwritten = {}
    /\ sincesync = [i \in Id |-> {}] /\ synced = FALSE

-----------------------------------------------------------------------------
(* People join the workspace, are deactivated and come back. *)
ChangePerson(i) ==
    /\ Spend("slack")
    /\ slack' = [slack EXCEPT ![i] = IF @ = "active" THEN "deleted" ELSE "active"]
    /\ sincesync' = [sincesync EXCEPT ![i] = @ \cup {slack'[i]}]
    /\ UNCHANGED <<dir, syncs, page, fetched, unwritten, synced>>

(* The scheduler, the worker's start or an admin asks for a sync. *)
EnqueueSync ==
    /\ Spend("sync")
    /\ syncs' = syncs + 1
    /\ UNCHANGED <<slack, dir, page, fetched, unwritten, sincesync, synced>>

BeginSync ==
    /\ page = 0 /\ unwritten = {}
    /\ syncs > 0
    /\ syncs' = syncs - 1
    /\ page' = 1
    /\ fetched' = [i \in Id |-> "none"]
    /\ sincesync' = [i \in Id |-> {slack[i]}] /\ synced' = FALSE
    /\ UNCHANGED <<slack, dir, unwritten, left>>

Fetched(pg) == [i \in Id |-> IF PageOf[i] = pg THEN slack[i] ELSE fetched[i]]

Listed(f) == {i \in Id : f[i] # "none"}

\* Faulty variant: only the first page is read.
ReadFirstPage ==
    /\ page > 0
    /\ fetched' = Fetched(page)
    /\ page' = 0 /\ unwritten' = Listed(fetched')
    /\ synced' = (unwritten' = {})
    /\ UNCHANGED <<slack, dir, syncs, sincesync, left>>

(* listAllUsers: the cursor leads from page to page until there are no     *)
(* more or the cap is reached; every page shows the workspace of its time. *)
ReadPage ==
    /\ page > 0
    /\ fetched' = Fetched(page)
    /\ IF page >= PageCap \/ page >= Max(Pages)
       THEN page' = 0 /\ unwritten' = Listed(fetched')
       ELSE page' = page + 1 /\ UNCHANGED unwritten
    /\ synced' = (page' = 0 /\ unwritten' = {})
    /\ UNCHANGED <<slack, dir, syncs, sincesync, left>>

(* Rows are inserted or overwritten, never deleted. *)
WriteChunk ==
    /\ unwritten # {}
    /\ \E is \in kSubset(Min({Chunk, Cardinality(unwritten)}), unwritten) :
          /\ dir' = [i \in Id |-> IF i \in is THEN fetched[i] ELSE dir[i]]
          /\ unwritten' = unwritten \ is
    /\ synced' = (unwritten' = {})
    /\ UNCHANGED <<slack, syncs, page, fetched, sincesync, left>>

(* Slack or the database fails, or the worker dies: the job has a single   *)
(* attempt and is not repeated before the next is enqueued.                *)
SyncFails ==
    /\ page > 0 \/ unwritten # {}
    /\ page' = 0 /\ unwritten' = {}
    /\ UNCHANGED <<slack, dir, syncs, fetched, sincesync, synced, left>>

DirectoryNext ==
    \/ \E i \in Id : ChangePerson(i)
    \/ EnqueueSync \/ BeginSync \/ ReadPage \/ WriteChunk \/ SyncFails

-----------------------------------------------------------------------------
(* searchDirectory: one more row than asked for tells whether there are    *)
(* more; which of them come first is left open.                            *)
Selectable == {i \in Id : dir[i] = "active"}

Found(q) == Matches[q] \cap Selectable

SearchPage(q) ==
    LET n == Cardinality(Found(q))
    IN  {[users |-> us, more |-> n > Limit] : us \in kSubset(Min({Limit, n}), Found(q))}

DirectoryTypeOK ==
    /\ slack \in [Id -> Person] /\ dir \in [Id -> Person]
    /\ syncs \in Nat /\ page \in 0..PageCap
    /\ fetched \in [Id -> Person] /\ unwritten \subseteq Listed(fetched)
    /\ sincesync \in [Id -> SUBSET Person] /\ synced \in BOOLEAN

(* slack-client index.ts:138-152, directory.ts:31-64: after a sync that    *)
(* did not fail, the directory holds of everybody within the pages that    *)
(* are read something that has been true since the sync began: nobody is   *)
(* missing who was there all the time, and no deactivated person is        *)
(* offered who was gone before.                                            *)
DirectoryIsCurrent ==
    synced => \A i \in Id : PageOf[i] <= PageCap => dir[i] \in sincesync[i]
=============================================================================
