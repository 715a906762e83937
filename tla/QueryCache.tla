---------------------------- MODULE QueryCache ----------------------------
(***************************************************************************)
(* The server state that the pages show: the queries and mutations of       *)
(* frontend/src/hooks/useListings.ts and useAdmin.ts over the API calls of  *)
(* frontend/src/api, in one TanStack Query cache (main.tsx).                *)
(*                                                                          *)
(* A cached answer is current or behind.  What other people change is left  *)
(* out: staleTime accepts it for half a minute.                             *)
(***************************************************************************)
EXTENDS Naturals

CONSTANTS Queries, WriteKinds,   \* those that are exercised, of the tables below
          MaxWrites           \* bound on the writes

ASSUME WriteKindsAssumption == "none" \notin WriteKinds

VARIABLES mounted,       \* queries that a page on screen uses
          data,          \* query -> "none", "current" or "behind"
          isStale,       \* query -> isInvalidated
          fetching,      \* query -> "idle", "asked", "current" or "behind": what was read
          mutation,      \* the write under way, or "none"
          written,       \* has the back end committed it
          writes,
          \* History:
          crossed,       \* queries with a fetch that a write overtook
          uncovered,     \* queries that a write changed and its hook does not name
          answerDropped  \* a committed write's answer was lost

cacheVars == <<mounted, data, isStale, fetching, mutation, written, writes,
               crossed, uncovered, answerDropped>>

ListQueries == {"browse", "mine", "mySummary"}

\* The answers that a write changes.
Changes(m) ==
    CASE m \in {"create"} -> ListQueries \union {"adminListings"}
      [] m \in {"update", "delete", "sold"} -> ListQueries \union {"detail", "adminListings"}
      [] m = "upload" -> {"detail", "browse", "mine", "adminListings"}
      [] m = "remove" -> ListQueries \union {"detail", "adminListings"}
      [] m \in {"suspend", "reinstate"} -> {"adminUsers", "browse"}
      [] OTHER -> {}

\* Mutant: useMarkListingSold and useDeleteListing without the lists.
Invalidates_DetailOnly(m) ==
    CASE m = "create" -> ListQueries
      [] m \in {"update", "delete", "sold", "upload"} -> {"detail"}
      [] m = "remove" -> {"adminListings"}
      [] m \in {"suspend", "reinstate"} -> {"adminUsers"}
      [] OTHER -> {}

\* onSuccess of each hook.
Invalidates(m) ==
    CASE m = "create" -> ListQueries
      [] m \in {"update", "delete", "sold"} -> ListQueries \union {"detail"}
      [] m = "upload" -> {"detail"}
      [] m = "remove" -> {"adminListings"}
      [] m \in {"suspend", "reinstate"} -> {"adminUsers"}
      [] OTHER -> {}

\* What the hooks leave to old age: an upload changes the pictures in the lists too,
\* and neither side of the application invalidates the queries of the other.
LeftToAge(m) ==
    CASE m = "upload" -> {"browse", "mine", "adminListings"}
      [] m = "remove" -> ListQueries \union {"detail"}
      [] m \in {"suspend", "reinstate"} -> {"browse"}
      [] OTHER -> {"adminListings"}

CacheInit ==
    /\ mounted = {}
    /\ data = [q \in Queries |-> "none"]
    /\ isStale = [q \in Queries |-> FALSE]
    /\ fetching = [q \in Queries |-> "idle"]
    /\ mutation = "none" /\ written = FALSE /\ writes = 0
    /\ crossed = {} /\ uncovered = {} /\ answerDropped = FALSE

-----------------------------------------------------------------------------
\* A page appears: what is missing or invalidated is asked for.
MountQuery(q) ==
    /\ q \notin mounted
    /\ mounted' = mounted \union {q}
    /\ fetching' = IF (data[q] = "none" \/ isStale[q]) /\ fetching[q] = "idle"
                   THEN [fetching EXCEPT ![q] = "asked"] ELSE fetching
    /\ UNCHANGED <<data, isStale, mutation, written, writes, crossed, uncovered, answerDropped>>

\* It goes away; its requests go on.
UnmountQuery(q) ==
    /\ q \in mounted
    /\ mounted' = mounted \ {q}
    /\ UNCHANGED <<data, isStale, fetching, mutation, written, writes, crossed, uncovered,
                   answerDropped>>

\* Half a minute later, when the window gets the focus.
Refocus(q) ==
    /\ q \in mounted /\ fetching[q] = "idle" /\ data[q] = "behind"
    /\ fetching' = [fetching EXCEPT ![q] = "asked"]
    /\ UNCHANGED <<mounted, data, isStale, mutation, written, writes, crossed, uncovered,
                   answerDropped>>

Read(q) ==
    /\ fetching[q] = "asked"
    /\ fetching' = [fetching EXCEPT ![q] = "current"]
    /\ UNCHANGED <<mounted, data, isStale, mutation, written, writes, crossed, uncovered,
                   answerDropped>>

\* The answer is stored and clears the mark; a failed fetch (retry: false) changes
\* nothing here.
Receive(q) ==
    /\ fetching[q] \in {"current", "behind"}
    /\ fetching' = [fetching EXCEPT ![q] = "idle"]
    /\ \/ /\ data' = [data EXCEPT ![q] = fetching[q]]
          /\ isStale' = [isStale EXCEPT ![q] = FALSE]
          /\ IF fetching[q] = "current"
             THEN crossed' = crossed \ {q} /\ uncovered' = uncovered \ {q}
             ELSE UNCHANGED <<crossed, uncovered>>
       \/ UNCHANGED <<data, isStale, crossed, uncovered>>
    /\ UNCHANGED <<mounted, mutation, written, writes, answerDropped>>

-----------------------------------------------------------------------------
Write(m) ==
    /\ mutation = "none" /\ writes < MaxWrites
    /\ mutation' = m /\ writes' = writes + 1
    /\ UNCHANGED <<mounted, data, isStale, fetching, written, crossed, uncovered, answerDropped>>

Behind(f, S) == [q \in Queries |-> IF q \in S /\ f[q] = "current" THEN "behind" ELSE f[q]]

Commit ==
    /\ mutation # "none" /\ ~written
    /\ written' = TRUE
    /\ data' = Behind(data, Changes(mutation))
    /\ fetching' = Behind(fetching, Changes(mutation))
    /\ uncovered' = uncovered \union (LeftToAge(mutation) \intersect Queries)
    /\ UNCHANGED <<mounted, isStale, mutation, writes, crossed, answerDropped>>

\* invalidateQueries: mark all, fetch again those on screen.  A fetch under way is
\* dropped for the new one only if its query is on screen and has data already.
Succeed ==
    LET marked == Invalidates(mutation) \intersect Queries
        Restarts(q) == q \in marked \intersect mounted
                         /\ (fetching[q] = "idle" \/ data[q] # "none")
    IN  /\ written
        /\ isStale' = [q \in Queries |-> isStale[q] \/ q \in marked]
        /\ fetching' = [q \in Queries |-> IF Restarts(q) THEN "asked" ELSE fetching[q]]
        /\ crossed' = crossed \union {q \in marked : ~Restarts(q) /\ fetching[q] = "behind"}
        /\ mutation' = "none" /\ written' = FALSE
        /\ UNCHANGED <<mounted, data, writes, uncovered, answerDropped>>

\* Refused, or the answer never came: no onSuccess.
Fail ==
    /\ mutation # "none"
    /\ answerDropped' = (answerDropped \/ written)
    /\ mutation' = "none" /\ written' = FALSE
    /\ UNCHANGED <<mounted, data, isStale, fetching, writes, crossed, uncovered>>

CacheNext ==
    \/ \E q \in Queries : MountQuery(q) \/ UnmountQuery(q) \/ Refocus(q) \/ Read(q) \/ Receive(q)
    \/ \E m \in WriteKinds : Write(m)
    \/ Commit \/ Succeed \/ Fail

CacheSpec == CacheInit /\ [][CacheNext]_cacheVars

-----------------------------------------------------------------------------
CacheTypeOK ==
    /\ mounted \subseteq Queries
    /\ data \in [Queries -> {"none", "current", "behind"}]
    /\ fetching \in [Queries -> {"idle", "asked", "current", "behind"}]
    /\ mutation \in WriteKinds \union {"none"}

(* main.tsx:33-36: what the user has just changed is fetched again and not      *)
(* shown from the cache for half a minute.  The exceptions: a fetch that the    *)
(* write overtook and that nobody dropped, a write whose answer was lost, and   *)
(* the queries that its hook leaves out on purpose.                             *)
OwnWritesShow ==
    \A q \in Queries :
        data[q] = "behind" /\ mutation = "none"
            => isStale[q] \/ q \in crossed \/ q \in uncovered \/ answerDropped
=============================================================================
