------------------------------ MODULE TaskMerge ------------------------------
(***************************************************************************)
(* The merge of tasks into a target (TasksService.merge), its retries      *)
(* under an idempotency key, and what overlaps with it: other merges, new  *)
(* parents, removals, a lost Redis entry, a request that dies.             *)
(*                                                                         *)
(* A merge reads its tasks, climbs from the target to its ancestors, one   *)
(* query a level, and then writes; the transaction is READ COMMITTED, so   *)
(* all of it may have changed by the time it writes.  Its writes go to the *)
(* sources by id, without a condition, and become visible when it commits. *)
(* The links it moves before are in TaskLinks; of them only the failure    *)
(* counts here.                                                            *)
(***************************************************************************)
EXTENDS Integers, FiniteSets

CONSTANTS
    Task,
    NoTask,         \* no parent, not merged
    Call,           \* merge requests in flight at the same time
    Key,            \* idempotency keys; a client uses one for one merge
    NoKey,          \* a request without the header
    MaxNodes,       \* MAX_NODES of the climb
    MaxStarts,      \* bound on the merge requests, retries included
    MaxEdits        \* bound on what other users change meanwhile

ASSUME MergeAssumption ==
    /\ NoTask \notin Task
    /\ NoKey \notin Key
    /\ MaxNodes \in Nat
    /\ MaxStarts \in Nat
    /\ MaxEdits \in Nat

VARIABLES
    gone,       \* tasks with deletedAt set
    parent,     \* parentId; nothing keeps it from forming a cycle
    mergedInto, \* mergedIntoId
    memo,       \* keys with a result in Redis
    pc,         \* the next statement of each request
    key,        \* its idempotency key
    target,     \* the task it merges into
    sources,    \* the tasks it merges
    visited,    \* tasks whose parent its climb has read
    at,         \* the task whose parent it reads next
    body,       \* history: the merges a key has been used for
    overtaken,  \* history: requests whose reads are no longer true
    raced,      \* history: tasks merged by an overtaken request
    events,     \* history: MERGED_INTO events of each task
    applied,    \* history: how often a key's merge was committed
    clock,      \* history: the number of merges committed
    when,       \* history: the merge that set mergedInto
    asOf,       \* history: the clock when a request read its tasks
    based,      \* history: asOf of the merge that set mergedInto
    starts,     \* requests and changes so far, for the bounds
    edits

tasks == <<gone, parent, mergedInto>>
history == <<raced, events, applied, clock, when, based>>
calls == <<pc, key, target, sources, visited, at, asOf>>
bounds == <<starts, edits>>
vars == <<tasks, memo, body, overtaken, history, calls, bounds>>

Merges == [target : Task, sources : SUBSET Task]

Init ==
    /\ gone = {}
    /\ parent = [t \in Task |-> NoTask]
    /\ mergedInto = [t \in Task |-> NoTask]
    /\ memo = {}
    /\ pc = [c \in Call |-> "idle"]
    /\ key = [c \in Call |-> NoKey]
    /\ target = [c \in Call |-> NoTask]
    /\ sources = [c \in Call |-> {}]
    /\ visited = [c \in Call |-> {}]
    /\ at = [c \in Call |-> NoTask]
    /\ body = [k \in Key |-> {}]
    /\ overtaken = {}
    /\ raced = {}
    /\ events = [t \in Task |-> 0]
    /\ applied = [k \in Key |-> 0]
    /\ clock = 0
    /\ when = [t \in Task |-> 0]
    /\ asOf = [c \in Call |-> 0]
    /\ based = [t \in Task |-> 0]
    /\ starts = 0 /\ edits = 0

-----------------------------------------------------------------------------
(* Other users.                                                            *)

Edit == edits < MaxEdits /\ edits' = edits + 1 /\ UNCHANGED starts

\* Requests that have read whether t is there, or what its parent is.
Readers(t) == {c \in Call : pc[c] \in {"climb", "commit"} /\ t \in {target[c]} \cup sources[c]}
Climbers(t) == {c \in Call : t \in visited[c]}

\* update with a parentId: no look at the hierarchy.
Reparent ==
    /\ Edit
    /\ \E t \in Task \ gone, p \in Task \cup {NoTask} :
        /\ parent' = [parent EXCEPT ![t] = p]
        /\ overtaken' = overtaken \cup Climbers(t)
    /\ UNCHANGED <<gone, mergedInto, memo, body, history, calls>>

\* remove, and the delete_task action.
Remove ==
    /\ Edit
    /\ \E t \in Task \ gone :
        /\ gone' = gone \cup {t}
        /\ overtaken' = overtaken \cup Readers(t)
    /\ UNCHANGED <<parent, mergedInto, memo, body, history, calls>>

\* The Redis entry of a key expires or is evicted.
Forget ==
    /\ \E k \in memo : memo' = memo \ {k}
    /\ UNCHANGED <<tasks, body, overtaken, history, calls, bounds>>

-----------------------------------------------------------------------------
(* merge                                                                   *)

Finish(c) ==
    /\ pc' = [pc EXCEPT ![c] = "idle"]
    /\ key' = [key EXCEPT ![c] = NoKey]
    /\ target' = [target EXCEPT ![c] = NoTask]
    /\ sources' = [sources EXCEPT ![c] = {}]
    /\ visited' = [visited EXCEPT ![c] = {}]
    /\ at' = [at EXCEPT ![c] = NoTask]
    /\ asOf' = [asOf EXCEPT ![c] = 0]

Abort(c) == Finish(c) /\ overtaken' = overtaken \ {c}

\* safeRedisGet: a stored result is replayed, and nothing happens; a target
\* among the sources is refused.  A retry repeats the key and the merge.
StartMerge(c) ==
    /\ pc[c] = "idle"
    /\ starts < MaxStarts /\ starts' = starts + 1
    /\ \E k \in Key \cup {NoKey}, m \in Merges :
        /\ m.sources # {} /\ m.target \notin m.sources
        /\ k \notin memo
        /\ k \in Key => body[k] \subseteq {m}
        /\ body' = [j \in Key |-> IF j = k THEN {m} ELSE body[j]]
        /\ pc' = [pc EXCEPT ![c] = "read"]
        /\ key' = [key EXCEPT ![c] = k]
        /\ target' = [target EXCEPT ![c] = m.target]
        /\ sources' = [sources EXCEPT ![c] = m.sources]
    /\ UNCHANGED <<tasks, memo, visited, at, asOf, overtaken, history, edits>>

\* Mutants of Mergeable: only the target, or only the sources are looked at.
MergeableTarget(c) == target[c] \notin gone
MergeableSources(c) ==
    \A s \in sources[c] : s \notin gone /\ mergedInto[s] = NoTask

\* findForMerge, and what it refuses.
Mergeable(c) ==
    /\ ({target[c]} \cup sources[c]) \cap gone = {}
    /\ \A s \in sources[c] : mergedInto[s] = NoTask

ReadRows(c) ==
    /\ pc[c] = "read"
    /\ IF Mergeable(c)
         THEN /\ pc' = [pc EXCEPT ![c] = "climb"]
              /\ at' = [at EXCEPT ![c] = target[c]]
              /\ asOf' = [asOf EXCEPT ![c] = clock]
              /\ UNCHANGED <<key, target, sources, visited, overtaken>>
         ELSE Abort(c)
    /\ UNCHANGED <<tasks, memo, body, history, bounds>>

\* Mutants of AfterParent: the climb does not remember where it has been, or
\* looks at the parent of the target alone.
AfterParentForgetful(c, p) == p
AfterParentOnce(c, p) == NoTask

\* Where the climb goes from parent p: on, unless it has been there.
AfterParent(c, p) == IF p \in visited[c] \cup {at[c]} THEN NoTask ELSE p

\* assertNoMergeCycle: one level; a frontier is never more than one task.
Climb(c) ==
    /\ pc[c] = "climb"
    /\ LET p == parent[at[c]] IN
        IF Cardinality(visited[c]) > MaxNodes \/ p \in sources[c]
          THEN Abort(c)
          ELSE /\ visited' = [visited EXCEPT ![c] = @ \cup {at[c]}]
               /\ at' = [at EXCEPT ![c] = AfterParent(c, p)]
               /\ pc' = [pc EXCEPT ![c] = IF AfterParent(c, p) = NoTask THEN "commit" ELSE "climb"]
               /\ UNCHANGED <<key, target, sources, asOf, overtaken>>
    /\ UNCHANGED <<tasks, memo, body, history, bounds>>

\* Requests that have read a source of c as it was before c merged it.
Late(c) == {d \in Call \ {c} : \E s \in sources[c] : d \in Readers(s)}

\* markSourcesMerged and the MERGED_INTO events: by id, whatever the sources
\* have become.
MarkSources(c) ==
    LET S == sources[c] IN
    /\ mergedInto' = [t \in Task |-> IF t \in S THEN target[c] ELSE mergedInto[t]]
    /\ gone' = gone \cup S
    /\ events' = [t \in Task |-> IF t \in S THEN events[t] + 1 ELSE events[t]]
    /\ when' = [t \in Task |-> IF t \in S THEN clock + 1 ELSE when[t]]
    /\ based' = [t \in Task |-> IF t \in S THEN asOf[c] ELSE based[t]]
    /\ clock' = clock + 1

CommitMerge(c) ==
    /\ pc[c] = "commit"
    /\ MarkSources(c)
    /\ overtaken' = (overtaken \cup Late(c)) \ {c}
    /\ raced' = IF c \in overtaken THEN raced \cup sources[c] ELSE raced
    /\ IF key[c] = NoKey
         THEN Finish(c) /\ UNCHANGED applied
         ELSE /\ applied' = [applied EXCEPT ![key[c]] = @ + 1]
              /\ pc' = [pc EXCEPT ![c] = "store"]
              /\ visited' = [visited EXCEPT ![c] = {}]
              /\ asOf' = [asOf EXCEPT ![c] = 0]
              /\ UNCHANGED <<key, target, sources, at>>
    /\ UNCHANGED <<parent, memo, body, bounds>>

\* safeRedisSetNx, after the commit; an error is logged and swallowed.
StoreResult(c) ==
    /\ pc[c] = "store"
    /\ memo' \in {memo, memo \cup {key[c]}}
    /\ Abort(c)
    /\ UNCHANGED <<tasks, body, history, bounds>>

\* Mutant of CallFails: the result is stored whether or not it came about.
CallFailsStores(c) ==
    /\ pc[c] # "idle"
    /\ memo' = memo \cup ({key[c]} \cap Key)
    /\ Abort(c)
    /\ UNCHANGED <<tasks, body, history, bounds>>

\* Moved links collide, a query fails or the process dies: the transaction is
\* rolled back, or the result of a committed one is not stored.
CallFails(c) ==
    /\ pc[c] # "idle"
    /\ Abort(c)
    /\ UNCHANGED <<tasks, memo, body, history, bounds>>

MergeStep(c) == ReadRows(c) \/ Climb(c) \/ CommitMerge(c) \/ StoreResult(c) \/ CallFails(c)

Next ==
    \/ Reparent \/ Remove \/ Forget
    \/ \E c \in Call : StartMerge(c) \/ MergeStep(c)

Spec == Init /\ [][Next]_vars

-----------------------------------------------------------------------------
(* Properties.                                                             *)

TypeOK ==
    /\ gone \subseteq Task
    /\ parent \in [Task -> Task \cup {NoTask}]
    /\ mergedInto \in [Task -> Task \cup {NoTask}]
    /\ memo \subseteq Key
    /\ pc \in [Call -> {"idle", "read", "climb", "commit", "store"}]
    /\ key \in [Call -> Key \cup {NoKey}]
    /\ target \in [Call -> Task \cup {NoTask}]
    /\ sources \in [Call -> SUBSET Task]
    /\ visited \in [Call -> SUBSET Task]
    /\ at \in [Call -> Task \cup {NoTask}]
    /\ body \in [Key -> SUBSET Merges]
    /\ overtaken \subseteq Call
    /\ raced \subseteq Task
    /\ events \in [Task -> Nat]
    /\ applied \in [Key -> Nat]
    /\ clock \in Nat
    /\ when \in [Task -> Nat]
    /\ asOf \in [Call -> Nat]
    /\ based \in [Task -> Nat]
    /\ starts \in Nat /\ edits \in Nat

\* "nenhuma ja mergida (409)": a task is merged once and announced once,
\* whatever is retried or overlaps, unless the merge wrote over what another
\* request had changed since it read it.
MergedOnce ==
    \A s \in Task \ raced :
        events[s] = IF mergedInto[s] = NoTask THEN 0 ELSE 1

\* A result that is replayed was committed; and a request whose key has been
\* committed before, its result lost or not yet stored, gets past the checks
\* only if it read each of its tasks before they were merged: a retry does
\* nothing again unless it overlaps the merge it repeats.
RetriesAreSafe ==
    /\ \A k \in memo : applied[k] > 0
    /\ \A c \in Call :
          pc[c] \in {"climb", "commit"} /\ key[c] \in Key /\ applied[key[c]] > 0 =>
              \A s \in sources[c] : asOf[c] < when[s]

\* A merge goes into a task that was not merged when the request read it.
\* Where a merged task leads to another merged one, be it in a circle, the
\* first merge read its tasks before the second was committed: chains and
\* circles that run backwards come from merges that overlap, and from no others.
TargetWasLive ==
    \A s \in Task :
        LET t == mergedInto[s] IN
        t # NoTask /\ mergedInto[t] # NoTask => based[s] < when[t]

\* V is closed upwards and free of the sources: the target is below none.
ClearOf(V, S, t) ==
    /\ t \in V
    /\ \A v \in V : parent[v] \notin S /\ parent[v] \in V \cup {NoTask}

\* "target nao descendente de nenhuma source (409)": a request about to write
\* has no source above its target, cyclic hierarchies included, unless a
\* parent it has read was changed while it climbed.
NotBelowSource ==
    \A c \in Call :
        pc[c] = "commit" /\ c \notin overtaken =>
            \E V \in SUBSET Task : ClearOf(V, sources[c], target[c])

\* A climb reads the parent of a task it has not been at, whatever cycles the
\* hierarchy has or is given meanwhile: so it ends.
ClimbAdvances ==
    [][\A c \in Call :
          pc[c] = "climb" /\ at'[c] # at[c] /\ pc'[c] # "idle" =>
              visited[c] \subseteq visited'[c] /\ visited'[c] # visited[c]]_vars

\* What a request in flight knows of the tasks.
Knows(c) ==
    /\ pc[c] # "idle" => target[c] \in Task \ sources[c] /\ sources[c] # {}
    /\ pc[c] \in {"idle", "read"} => visited[c] = {}
    /\ key[c] \in Key => body[key[c]] = {[target |-> target[c], sources |-> sources[c]]}
    /\ pc[c] \in {"climb", "commit"} /\ c \notin overtaken => Mergeable(c)
    /\ pc[c] \in {"climb", "commit"} =>
           /\ asOf[c] <= clock
           /\ \A t \in {target[c]} \cup sources[c] : mergedInto[t] # NoTask => asOf[c] < when[t]
    /\ pc[c] = "climb" =>
           at[c] \in Task \ visited[c] /\ target[c] \in visited[c] \cup {at[c]}
    /\ pc[c] = "commit" => at[c] = NoTask /\ target[c] \in visited[c]
    /\ c \notin overtaken =>
           \A v \in visited[c] :
               /\ parent[v] \notin sources[c]
               /\ parent[v] \in visited[c] \cup {at[c], NoTask}
    /\ pc[c] = "store" => key[c] \in Key /\ applied[key[c]] > 0

CallKnows == \A c \in Call : Knows(c)

\* What the tasks and keys remember of the merges.
MergesKnown ==
    /\ \A t \in Task :
        /\ mergedInto[t] # NoTask => t \in gone
        /\ events[t] = 0 <=> mergedInto[t] = NoTask
        /\ when[t] <= clock /\ based[t] <= clock
    /\ \A k \in Key :
        /\ applied[k] > 0 => body[k] # {}
        /\ \A m \in body[k] : \A s \in m.sources : applied[k] <= events[s]

\* The inductive invariant.
IInv ==
    /\ TypeOK /\ CallKnows /\ MergesKnown
    /\ MergedOnce /\ TargetWasLive /\ \A k \in memo : applied[k] > 0

-----------------------------------------------------------------------------
(* What holds when requests do not overlap in a certain way.               *)

\* At most one request is between its reads and the end of its transaction.
OneMerge ==
    \A c, d \in Call :
        pc[c] \in {"climb", "commit"} /\ pc[d] \in {"climb", "commit"} => c = d

\* A client does not repeat a request that is still being answered.
OnePerKey ==
    \A c, d \in Call :
        pc[c] \in {"climb", "commit"} /\ pc[d] \in {"climb", "commit"}
            /\ key[c] \in Key /\ key[c] = key[d] => c = d

\* Merges that do not overlap run forward: the task that s was merged into was
\* merged later, if at all; so no circle.
MergesRunForward ==
    \A s \in Task :
        LET t == mergedInto[s] IN
        t # NoTask => mergedInto[t] = NoTask \/ when[s] < when[t]

\* A key's merge is committed once when its requests do not overlap, whatever
\* other merges do meanwhile and whatever Redis has lost.
AppliedOnce == \A k \in Key : applied[k] <= 1
=============================================================================
