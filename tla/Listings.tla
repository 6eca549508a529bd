------------------------------ MODULE Listings ------------------------------
(***************************************************************************)
(* Reports on tasks: fetch_by_id and list_all_tasks, which read payloads   *)
(* and metadata in one script and decode what they read into CompactTasks. *)
(* A caller that lists every task asks for page after page until one is    *)
(* empty; the scripts of RedisQueue run between two pages.                 *)
(***************************************************************************)
EXTENDS RedisQueue

CONSTANTS
  IdOrder,  \* all task ids in the order of their bytes
  PageSize  \* Filter::page_size

ASSUME ListingAssumption ==
  /\ IdOrder \in Seq(Tasks) /\ Range(IdOrder) = Tasks /\ IsInjective(IdOrder)
  /\ PageSize \in Nat \ {0}

VARIABLES
  page,      \* the page to ask for next (0: not begun, None: nobody lists)
  finished,  \* the last page was empty
  listed,    \* the tasks that the pages have shown
  present,   \* history: the tasks that had a payload when the listing began
  calm       \* history: nothing has been vacuumed since then

listingVars == <<page, finished, listed, present, calm>>

-----------------------------------------------------------------------------
(* Decoding: a task that lacks one of three fields fails the whole reply.  *)

CompactTask(t) ==
  /\ meta[t].attempts # None
  /\ meta[t].maxAttempts
  /\ meta[t].status # None

FetchByIdFails(t) == t \in data /\ ~CompactTask(t)

-----------------------------------------------------------------------------
(* list_all_tasks, without a status filter.                                *)

\* Mutant: pages are counted from zero, as some callers do.
FirstOfFromZero(n) == n * PageSize + 1

FirstOf(n) == (n - 1) * PageSize + 1

NotAfter(s, t) == \E i, j \in DOMAIN IdOrder : i <= j /\ IdOrder[i] = s /\ IdOrder[j] = t

\* The ids are sorted anew for every page: where t comes among them.
RankOf(t) == Cardinality({s \in data : NotAfter(s, t)})

PageOf(n) == {t \in data : RankOf(t) \in FirstOf(n)..(FirstOf(n) + PageSize - 1)}

StartListing ==
  /\ page = 0
  /\ page' = 1
  /\ present' = data
  /\ calm' = TRUE
  /\ UNCHANGED <<finished, listed>>

ListPage ==
  /\ page \notin {None, 0} /\ ~finished
  /\ \A t \in PageOf(page) : CompactTask(t)
  /\ listed' = listed \cup PageOf(page)
  /\ finished' = (PageOf(page) = {})
  /\ page' = page + 1
  /\ UNCHANGED <<present, calm>>

ListingInit ==
  /\ page \in {None, 0}
  /\ finished = FALSE
  /\ listed = {}
  /\ present = {}
  /\ calm = TRUE

Lister == StartListing \/ ListPage

\* What a step of the queue means for a listing that is going on.
Witnessed ==
  /\ calm' = (calm /\ data \subseteq data')
  /\ UNCHANGED <<page, finished, listed, present>>

ListingNext ==
  \/ Lister /\ UNCHANGED vars
  \/ Next /\ Witnessed

ListingSpec == Init /\ ListingInit /\ [][ListingNext]_<<vars, listingVars>>

-----------------------------------------------------------------------------
(* Properties.                                                             *)

(***************************************************************************)
(* A report fails only on a payload that a push stored before it failed:   *)
(* whatever other scripts ran on a task, and whichever of them failed half *)
(* way, a task that a push accepted has the fields that its decoding needs *)
(* for as long as it has a payload.  The payload of a failed push, which   *)
(* nothing ever deletes, fails every page that it is on.                   *)
(***************************************************************************)
AcceptedTasksDecode == \A t \in issued : ~FetchByIdFails(t)

(***************************************************************************)
(* A listing misses none of the tasks that were there when it began, even  *)
(* if tasks are pushed between its pages and shift the later ones, as long *)
(* as none is vacuumed.                                                    *)
(***************************************************************************)
NoneSkipped == finished /\ calm => present \subseteq listed

=============================================================================
