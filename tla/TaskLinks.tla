------------------------------ MODULE TaskLinks ------------------------------
(***************************************************************************)
(* The links between tasks while merges move them: moveEdgesForMerge, one  *)
(* statement at a time, beside other merges, users who create and remove   *)
(* links, and automations that add them.                                   *)
(*                                                                         *)
(* Transactions are READ COMMITTED.  A statement sees what was committed   *)
(* when it began and what its own transaction has written; a row that a    *)
(* transaction has written is locked until it ends; an update waits for    *)
(* the locks of the rows it has found and looks at its condition again.    *)
(* A request that writes one row does so when it commits.                  *)
(*                                                                         *)
(* What makes a merge be refused or fail (TaskMerge) is left open here.    *)
(***************************************************************************)
EXTENDS Naturals

CONSTANTS
    Task,
    LinkTypes,      \* RELATES_TO and DUPLICATES, or one of them
    Row,            \* ids of links; no id is used twice
    Merger,         \* merges in flight at the same time
    User,           \* requests to create or remove a link
    NoTask, NoRow, NoLink,
    Free,           \* a row that is still to be inserted
    Dropped,        \* a row that has been deleted
    Clean,          \* a row that a transaction has not written
    MaxMerges,      \* bound on the merges, repetitions included
    MaxEdits        \* bound on the other requests

Link == [from : Task, to : Task, type : LinkTypes]

ASSUME LinksAssumption ==
    /\ {Free, Dropped, Clean, NoLink} \cap Link = {}
    /\ Free # Dropped /\ Clean \notin {Free, Dropped}
    /\ NoTask \notin Task \cup Merger /\ NoRow \notin Row
    /\ MaxMerges \in Nat /\ MaxEdits \in Nat

VARIABLES
    gone,       \* tasks with deletedAt set
    link,       \* the committed work_item_links table
    pc,         \* the next statement of each merge
    dir,        \* the end of the links it is about
    target,     \* the task it merges into
    sources,    \* the tasks it merges
    known,      \* the links of the target that it has read
    doomed,     \* the rows it is going to delete
    found,      \* the rows its update is going to write
    draft,      \* what it has written: its row locks
    upc,        \* the next statement of each user's request
    edge,       \* the link to create
    row,        \* the link to remove
    late,       \* history: rows others wrote since a merge looked for them
    overwritten,\* history: links others changed or deleted since it began
    started,    \* merges and other requests so far, for the bounds
    edits

table == <<gone, link>>
merges == <<pc, dir, target, sources, known, doomed, found, draft>>
users == <<upc, edge, row>>
history == <<late, overwritten>>
bounds == <<started, edits>>
vars == <<table, merges, users, history, bounds>>

Dir == {"from", "to"}
Opposite(d) == IF d = "from" THEN "to" ELSE "from"
End(l, d) == IF d = "from" THEN l.from ELSE l.to
WithEnd(l, d, t) == IF d = "from" THEN [l EXCEPT !.from = t] ELSE [l EXCEPT !.to = t]

\* findEdgePair: RELATES_TO is looked up in both directions.
EdgePair(l) ==
    {l} \cup IF l.type = "RELATES_TO" THEN {[l EXCEPT !.from = l.to, !.to = l.from]}
                                      ELSE {}

\* The unique key [fromTaskId, toTaskId, type].
Unique(f) == \A i, j \in Row : i # j /\ f[i] = f[j] => f[i] \notin Link

\* addTaskLink inserts any link, so a table may hold any.
Init ==
    /\ gone = {}
    /\ link \in [Row -> Link \cup {Free}] /\ Unique(link)
    /\ pc = [m \in Merger |-> "idle"]
    /\ dir = [m \in Merger |-> "from"]
    /\ target = [m \in Merger |-> NoTask]
    /\ sources = [m \in Merger |-> {}]
    /\ known = [m \in Merger |-> {}]
    /\ doomed = [m \in Merger |-> {}]
    /\ found = [m \in Merger |-> {}]
    /\ draft = [m \in Merger |-> [i \in Row |-> Clean]]
    /\ upc = [u \in User |-> "idle"]
    /\ edge = [u \in User |-> NoLink]
    /\ row = [u \in User |-> NoRow]
    /\ late = [m \in Merger |-> [d \in Dir |-> {}]]
    /\ overwritten = [m \in Merger |-> {}]
    /\ started = 0 /\ edits = 0

\* What merge m sees of a row, and which rows it sees a link of t in.
View(m, i) == IF draft[m][i] = Clean THEN link[i] ELSE draft[m][i]
Touching(m, d, S) == {i \in Row : View(m, i) \in Link /\ End(View(m, i), d) \in S}

Locked(i) == \E m \in Merger : draft[m][i] # Clean
LockedForMerge(m, i) == \E n \in Merger \ {m} : draft[n][i] # Clean

\* No transaction but m holds, or may be about to hold, another row with l.
FreshBut(m, i, l) ==
    \A j \in Row \ {i} :
        /\ View(m, j) # l
        /\ \A n \in Merger : draft[n][j] # l

\* Rows W are committed by someone else than merge m.
Notice(m, W) ==
    /\ late' = [n \in Merger |-> [d \in Dir |->
          IF n # m /\ pc[n] \in {"find", "move", "commit"} THEN late[n][d] \cup W ELSE {}]]
    /\ overwritten' = [n \in Merger |->
          IF n = m \/ pc[n] = "idle" THEN {}
          ELSE overwritten[n] \cup {<<i, link[i]>> : i \in {j \in W : link[j] \in Link}}]

-----------------------------------------------------------------------------
(* moveEdgesForMerge                                                       *)

\* The same statement for the other end, or the next one.
Turn(m, again, next) ==
    /\ pc' = [pc EXCEPT ![m] = IF dir[m] = "from" THEN again ELSE next]
    /\ dir' = [dir EXCEPT ![m] = Opposite(@)]

\* The checks of merge before it comes to the links.
StartMerge(m) ==
    /\ pc[m] = "idle"
    /\ started < MaxMerges /\ started' = started + 1
    /\ \E t \in Task \ gone, S \in SUBSET (Task \ gone) :
        /\ S # {} /\ t \notin S
        /\ target' = [target EXCEPT ![m] = t]
        /\ sources' = [sources EXCEPT ![m] = S]
    /\ pc' = [pc EXCEPT ![m] = "target"]
    /\ UNCHANGED <<table, dir, known, doomed, found, draft, users, history, edits>>

\* targetOut and targetIn.
ReadTarget(m) ==
    /\ pc[m] = "target"
    /\ known' = [known EXCEPT ![m] =
                    @ \cup {View(m, i) : i \in Touching(m, dir[m], {target[m]})}]
    /\ Turn(m, "target", "source")
    /\ UNCHANGED <<table, target, sources, doomed, found, draft, users, history, bounds>>

\* Mutant of Duplicate: one set for the links to and from the target.
DuplicateEitherWay(m, l, d) ==
    LET other == End(l, Opposite(d)) IN
    \/ other = target[m]
    \/ \E k \in known[m] : k.type = l.type /\ other \in {k.from, k.to}

\* A link of a source to the target, or one the target has been seen to have.
Duplicate(m, l, d) ==
    \/ End(l, Opposite(d)) = target[m]
    \/ WithEnd(l, d, target[m]) \in known[m]

\* sourceOut and sourceIn, and which of them are duplicates.
ReadSource(m) ==
    /\ pc[m] = "source"
    /\ doomed' = [doomed EXCEPT ![m] = @ \cup
          {i \in Touching(m, dir[m], sources[m]) : Duplicate(m, View(m, i), dir[m])}]
    /\ known' = IF dir[m] = "to" THEN [known EXCEPT ![m] = {}] ELSE known
    /\ Turn(m, "source", "delete")
    /\ UNCHANGED <<table, target, sources, found, draft, users, history, bounds>>

\* deleteMany by id, once nobody else has a lock on the rows.
DeleteRows(m) ==
    /\ pc[m] = "delete"
    /\ \A i \in doomed[m] : ~LockedForMerge(m, i)
    /\ draft' = [draft EXCEPT ![m] = [i \in Row |->
          IF i \in doomed[m] /\ link[i] \in Link THEN Dropped ELSE @[i]]]
    /\ doomed' = [doomed EXCEPT ![m] = {}]
    /\ pc' = [pc EXCEPT ![m] = "find"]
    /\ UNCHANGED <<table, dir, target, sources, known, found, users, history, bounds>>

\* updateMany looks for its rows ...
FindRows(m) ==
    /\ pc[m] = "find"
    /\ found' = [found EXCEPT ![m] = Touching(m, dir[m], sources[m])]
    /\ late' = [late EXCEPT ![m][dir[m]] = {}]
    /\ pc' = [pc EXCEPT ![m] = "move"]
    /\ UNCHANGED <<table, dir, target, sources, known, doomed, draft, users, overwritten, bounds>>

\* Mutant of Moved: the second update starts from the row as it was.
MovedFromCommitted(m, i) ==
    IF i \in found[m] \cap Touching(m, dir[m], sources[m])
      THEN WithEnd(link[i], dir[m], target[m]) ELSE draft[m][i]

\* ... and writes those that still meet its condition.
Moved(m, i) ==
    IF i \in found[m] \cap Touching(m, dir[m], sources[m])
      THEN WithEnd(View(m, i), dir[m], target[m]) ELSE draft[m][i]

MoveRows(m) ==
    /\ pc[m] = "move"
    /\ \A i \in found[m] : ~LockedForMerge(m, i)
    /\ \A i \in found[m] : Moved(m, i) \in Link =>
          /\ FreshBut(m, i, Moved(m, i))
          /\ \A j \in found[m] \ {i} : Moved(m, j) # Moved(m, i)
    /\ draft' = [draft EXCEPT ![m] = [i \in Row |-> Moved(m, i)]]
    /\ found' = [found EXCEPT ![m] = {}]
    /\ Turn(m, "find", "commit")
    /\ UNCHANGED <<table, target, sources, known, doomed, users, history, bounds>>

Finish(m) ==
    /\ pc' = [pc EXCEPT ![m] = "idle"]
    /\ dir' = [dir EXCEPT ![m] = "from"]
    /\ target' = [target EXCEPT ![m] = NoTask]
    /\ sources' = [sources EXCEPT ![m] = {}]
    /\ known' = [known EXCEPT ![m] = {}]
    /\ doomed' = [doomed EXCEPT ![m] = {}]
    /\ found' = [found EXCEPT ![m] = {}]
    /\ draft' = [draft EXCEPT ![m] = [i \in Row |-> Clean]]

\* The rest of the transaction, which ends with the sources gone.
CommitMerge(m) ==
    /\ pc[m] = "commit"
    /\ link' = [i \in Row |-> View(m, i)]
    /\ gone' = gone \cup sources[m]
    /\ Notice(m, {i \in Row : draft[m][i] # Clean})
    /\ Finish(m)
    /\ UNCHANGED <<users, bounds>>

\* A unique key or a deadlock, or anything else that rolls the merge back.
MergeFails(m) ==
    /\ pc[m] # "idle"
    /\ late' = [late EXCEPT ![m] = [d \in Dir |-> {}]]
    /\ overwritten' = [overwritten EXCEPT ![m] = {}]
    /\ Finish(m)
    /\ UNCHANGED <<table, users, bounds>>

-----------------------------------------------------------------------------
(* Users and automations.                                                  *)

Edit == edits < MaxEdits /\ edits' = edits + 1 /\ UNCHANGED started

Done(u) ==
    /\ upc' = [upc EXCEPT ![u] = "idle"]
    /\ edge' = [edge EXCEPT ![u] = NoLink]
    /\ row' = [row EXCEPT ![u] = NoRow]

\* create reads the two tasks, ...
AskLink(u) ==
    /\ upc[u] = "idle"
    /\ Edit
    /\ \E l \in Link :
        /\ l.from # l.to /\ {l.from, l.to} \cap gone = {}
        /\ edge' = [edge EXCEPT ![u] = l]
    /\ upc' = [upc EXCEPT ![u] = "pair"]
    /\ UNCHANGED <<table, merges, row, history>>

\* ... then looks for the link, ...
FindPair(u) ==
    /\ upc[u] = "pair"
    /\ \A i \in Row : link[i] \notin EdgePair(edge[u])
    /\ upc' = [upc EXCEPT ![u] = "insert"]
    /\ UNCHANGED <<table, merges, edge, row, history, bounds>>

\* A new row, unless the unique key refuses it or a merge may be adding it.
Insert(l) ==
    \E i \in Row :
        /\ link[i] = Free
        /\ \A j \in Row : link[j] # l /\ \A m \in Merger : draft[m][j] # l
        /\ link' = [link EXCEPT ![i] = l]
        /\ Notice(NoTask, {i})

\* ... then inserts it, whatever the tasks have become.
InsertLink(u) ==
    /\ upc[u] = "insert"
    /\ Insert(edge[u])
    /\ Done(u)
    /\ UNCHANGED <<gone, merges, bounds>>

\* findEdgeById.
AskRemove(u) ==
    /\ upc[u] = "idle"
    /\ Edit
    /\ \E i \in Row :
        /\ link[i] \in Link /\ {link[i].from, link[i].to} \cap gone = {}
        /\ row' = [row EXCEPT ![u] = i]
    /\ upc' = [upc EXCEPT ![u] = "delete"]
    /\ UNCHANGED <<table, merges, edge, history>>

\* deleteMany by id: the row as it is by now, if it still is.
DeleteLink(u) ==
    /\ upc[u] = "delete"
    /\ ~Locked(row[u])
    /\ link' = [link EXCEPT ![row[u]] = Dropped]
    /\ Notice(NoTask, {row[u]})
    /\ Done(u)
    /\ UNCHANGED <<gone, merges, bounds>>

UserFails(u) ==
    /\ upc[u] # "idle"
    /\ Done(u)
    /\ UNCHANGED <<table, merges, history, bounds>>

\* addTaskLink of an automation: no look at the tasks or at the pair.
AddTaskLink ==
    /\ Edit
    /\ \E l \in Link : Insert(l)
    /\ UNCHANGED <<gone, merges, users>>

\* remove of a task.
RemoveTask ==
    /\ Edit
    /\ \E t \in Task \ gone : gone' = gone \cup {t}
    /\ UNCHANGED <<link, merges, users, history>>

Next ==
    \/ \E m \in Merger :
        \/ StartMerge(m) \/ ReadTarget(m) \/ ReadSource(m) \/ DeleteRows(m)
        \/ FindRows(m) \/ MoveRows(m) \/ CommitMerge(m) \/ MergeFails(m)
    \/ \E u \in User :
        \/ AskLink(u) \/ FindPair(u) \/ InsertLink(u)
        \/ AskRemove(u) \/ DeleteLink(u) \/ UserFails(u)
    \/ AddTaskLink \/ RemoveTask

Spec == Init /\ [][Next]_vars

-----------------------------------------------------------------------------
(* Properties.                                                             *)

TypeOK ==
    /\ gone \subseteq Task
    /\ link \in [Row -> Link \cup {Free, Dropped}]
    /\ pc \in [Merger -> {"idle", "target", "source", "delete", "find", "move", "commit"}]
    /\ dir \in [Merger -> Dir]
    /\ target \in [Merger -> Task \cup {NoTask}]
    /\ sources \in [Merger -> SUBSET Task]
    /\ known \in [Merger -> SUBSET Link]
    /\ doomed \in [Merger -> SUBSET Row]
    /\ found \in [Merger -> SUBSET Row]
    /\ draft \in [Merger -> [Row -> Link \cup {Dropped, Clean}]]
    /\ upc \in [User -> {"idle", "pair", "insert", "delete"}]
    /\ edge \in [User -> Link \cup {NoLink}]
    /\ row \in [User -> Row \cup {NoRow}]
    /\ \A u \in User : /\ upc[u] \in {"pair", "insert"} => edge[u] \in Link
                       /\ upc[u] = "delete" => row[u] \in Row
    /\ late \in [Merger -> [Dir -> SUBSET Row]]
    /\ overwritten \in [Merger -> SUBSET (Row \X Link)]
    /\ started \in Nat /\ edits \in Nat

\* A merge leaves no link on its sources, except one that somebody else
\* committed after the update that moves such links had looked for them.
LinksFollowMerge ==
    \A m \in Merger : pc[m] = "commit" =>
        \A d \in Dir : Touching(m, d, sources[m]) \subseteq late[m][d]

\* A link as the merge means to leave it.
Image(m, l) ==
    [l EXCEPT !.from = IF l.from \in sources[m] THEN target[m] ELSE l.from,
              !.to = IF l.to \in sources[m] THEN target[m] ELSE l.to]

Within(m, l) == {l.from, l.to} \subseteq sources[m] \cup {target[m]}

\* A merge deletes a link only when it is one among its own tasks or the
\* target has the same one; unless, since the merge began, somebody else
\* changed the link or took it from the target.
NoLinkLost ==
    \A m \in Merger : pc[m] = "commit" =>
        \A i \in Row : draft[m][i] = Dropped =>
            \/ Within(m, link[i])
            \/ \E k \in Row : View(m, k) = Image(m, link[i])
            \/ \E k \in Row : <<k, Image(m, link[i])>> \in overwritten[m]
            \/ \E l \in Link : <<i, l>> \in overwritten[m]

\* A row is written by one transaction at a time, and only when it is there.
LocksHeld ==
    \A m \in Merger, i \in Row : draft[m][i] # Clean =>
        /\ link[i] \in Link
        /\ \A n \in Merger \ {m} : draft[n][i] = Clean

Doomed(m) == doomed[m] \cup {i \in Row : draft[m][i] = Dropped}
Changed(m, i) == \E l \in Link : <<i, l>> \in overwritten[m]
OfSources(m, l) == l.from \in sources[m] \/ l.to \in sources[m]

\* Row k had link l when merge m read it, and has it still unless others
\* changed it; m has not touched it, nor is it going to.
Kept(m, k, l) ==
    \/ <<k, l>> \in overwritten[m]
    \/ link[k] = l /\ draft[m][k] = Clean /\ (k \in doomed[m] => OfSources(m, l))

\* Why a merge may delete a row.
Justified(m, i) ==
    \/ Changed(m, i)
    \/ /\ link[i] \in Link
       /\ Within(m, link[i]) \/ \E k \in Row : Kept(m, k, Image(m, link[i]))

\* Where a merge is.
Stage(m) ==
    /\ pc[m] \in {"idle", "delete", "commit"} => dir[m] = "from"
    /\ pc[m] # "idle" => target[m] \in Task \ sources[m]
    /\ pc[m] \in {"idle", "target"} => doomed[m] = {}
    /\ pc[m] \notin {"target", "source"} => known[m] = {}
    /\ pc[m] \in {"idle", "target", "source", "delete"} => \A i \in Row : draft[m][i] = Clean

\* What it knows of the links of its target, and of those it deletes.
DeletesKnown(m) ==
    /\ \A l \in known[m] : \E k \in Row : Kept(m, k, l)
    /\ \A i \in Doomed(m) : Justified(m, i)

\* Which links of its sources it has left behind.
MovesKnown(m) ==
    /\ pc[m] = "move" =>
           Touching(m, dir[m], sources[m]) \subseteq found[m] \cup late[m][dir[m]]
    /\ (pc[m] \in {"find", "move"} /\ dir[m] = "to") \/ pc[m] = "commit" =>
           Touching(m, "from", sources[m]) \subseteq late[m]["from"]
    /\ pc[m] = "commit" => Touching(m, "to", sources[m]) \subseteq late[m]["to"]

Knows(m) == Stage(m) /\ DeletesKnown(m) /\ MovesKnown(m)

\* The inductive invariant.
IInv == TypeOK /\ LocksHeld /\ \A m \in Merger : Knows(m)
=============================================================================
