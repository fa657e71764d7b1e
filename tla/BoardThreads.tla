---------------------------- MODULE BoardThreads ----------------------------
(* The comment threads of the board-game board (gamematcher/api/src/        *)
(* comments.rs, with their routes and storage in api.rs).  A thread is a     *)
(* blob of its own in flash; the plan's row keeps its length and next id.    *)
(* The blob is written inside the call, before the commit of the row: a      *)
(* commit that fails rolls the row back and leaves the blob, and the power   *)
(* may go between the two writes.                                            *)
EXTENDS Integers, FiniteSets, Sequences, SequencesExt

CONSTANTS Plan, Person, Admin,
          PerPlan, Total,      \* Limits: comments_per_plan, comments_total
          MaxNext              \* bounds a plan's comment ids

VARIABLES ram,       \* plan -> [comments, next, status], State
          disk,      \* the rows as the last commit left them
          blob,      \* plan -> sequence of [id, author], the Kv
          torn       \* some write landed without the other
vars == <<ram, disk, blob, torn>>

Status == {"open", "closed", "gone"}
Row == [comments : 0..MaxNext, next : 0..MaxNext, status : Status]

Init == /\ ram = [p \in Plan |-> [comments |-> 0, next |-> 0, status |-> "open"]]
        /\ disk = ram /\ blob = [p \in Plan |-> <<>>] /\ torn = FALSE

comments_open(p) == ram[p].status = "open"

comment_total == LET c[S \in SUBSET Plan] == IF S = {} THEN 0 ELSE
                       LET p == CHOOSE q \in S : TRUE IN ram[p].comments + c[S \ {p}]
                 IN c[Plan]

-----------------------------------------------------------------------------
\* The row is committed, or rolled back, or lost with the power.
CommitRow(p, row) ==
    \/ ram' = [ram EXCEPT ![p] = row] /\ disk' = ram' /\ UNCHANGED torn
    \/ ram' \in {ram, disk} /\ UNCHANGED disk /\ torn' = TRUE

save_thread(p, thread) == blob' = [blob EXCEPT ![p] = thread]

add_comment(who, p) ==
    LET thread == Append(blob[p], [id |-> ram[p].next + 1, author |-> who]) IN
    /\ comments_open(p) /\ ram[p].next < MaxNext
    /\ Len(blob[p]) < PerPlan /\ comment_total < Total
    /\ save_thread(p, thread)
    /\ CommitRow(p, [ram[p] EXCEPT !.next = @ + 1, !.comments = Len(thread)])

\* The first comment with the id is the one that is meant.
Place(p, id) == CHOOSE i \in DOMAIN blob[p] : blob[p][i].id = id
                   /\ \A j \in 1..(i - 1) : blob[p][j].id # id
Ids(p) == {blob[p][i].id : i \in DOMAIN blob[p]}

\* Only the text changes, and no row: nothing to commit, nothing that tears.
edit_comment(who, p) == \E id \in Ids(p) :
    /\ comments_open(p) /\ blob[p][Place(p, id)].author = who
    /\ UNCHANGED vars

delete_comment(who, p) == \E id \in Ids(p) :
    LET thread == RemoveAt(blob[p], Place(p, id)) IN
    /\ ram[p].status # "gone"
    /\ blob[p][Place(p, id)].author = who \/ who \in Admin
    /\ save_thread(p, thread)
    /\ CommitRow(p, [ram[p] EXCEPT !.comments = Len(thread)])

CommentRoute(who) == \E p \in Plan :
    add_comment(who, p) \/ edit_comment(who, p) \/ delete_comment(who, p)

-----------------------------------------------------------------------------
\* plans.rs, as far as threads go: a plan closes, and leaves the ring later.
Close(p) == /\ ram[p].status = "open"
            /\ ram' = [ram EXCEPT ![p].status = "closed"] /\ disk' = ram'
            /\ UNCHANGED <<blob, torn>>

\* Its thread goes with it when it was counted to have one, after the commit
\* of a call, or after the commit of App::tick whether that worked or not; a
\* power cut comes before the removal.
drop_threads(p) == blob' = [blob EXCEPT ![p] = IF ram[p].comments > 0 THEN <<>> ELSE @]
LeaveRing(p) ==
    /\ ram[p].status = "closed"
    /\ LET gone == [ram EXCEPT ![p].comments = 0, ![p].status = "gone"] IN
       \/ ram' = gone /\ disk' = gone /\ drop_threads(p) /\ UNCHANGED torn
       \/ ram' = gone /\ disk' = disk /\ drop_threads(p) /\ torn' = TRUE
       \/ ram' = gone /\ disk' = gone /\ blob' = blob /\ torn' = TRUE

Reboot == ram' = disk /\ UNCHANGED <<disk, blob, torn>>

Next == \/ \E who \in Person : CommentRoute(who)
        \/ \E p \in Plan : Close(p) \/ LeaveRing(p)
        \/ Reboot
Spec == Init /\ [][Next]_vars

-----------------------------------------------------------------------------
TypeOK == /\ ram \in [Plan -> Row] /\ disk \in [Plan -> Row] /\ torn \in BOOLEAN
          /\ \A p \in Plan : Ids(p) \subseteq 1..MaxNext

Distinct(p) == \A i, j \in DOMAIN blob[p] : i # j => blob[p][i].id # blob[p][j].id

\* While no write was torn the row and the blob say the same: the count is the
\* length, ids are distinct and below the next one, the board holds no more
\* than its total, a plan that left took its thread along; and a thread is
\* never longer than its limit, torn or not.
ThreadsAgree ==
    /\ \A p \in Plan : Len(blob[p]) <= PerPlan
    /\ ~torn => /\ ram = disk /\ comment_total <= Total
                /\ \A p \in Plan : /\ ram[p].comments = Len(blob[p]) /\ Distinct(p)
                                   /\ \A id \in Ids(p) : id <= ram[p].next

\* "Could not save; nothing changed": ids stay distinct whatever fails, so
\* that an edit or a deletion reaches the comment it names.
IdsDistinct == \A p \in Plan : Distinct(p)
=============================================================================
