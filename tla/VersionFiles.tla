---------------------------- MODULE VersionFiles ----------------------------
(***************************************************************************)
(* Versions of file lists and the files they see.                          *)
(*                                                                         *)
(* A commit on version v of a file list writes version v + 1: a file it    *)
(* adds starts there, a file it deletes ends there, and version v sees the *)
(* files with start_vid <= v < end_vid.  When the collector removes        *)
(* versions (rcCommit), it takes them from the version chains, merges the  *)
(* gaps it is told of, and moves the files that live inside a gap to       *)
(* DeleteFiles, from where FileManager deletes them for good.              *)
(***************************************************************************)
EXTENDS Integers, SequencesExt

CONSTANTS
    MaxList,        \* file lists are 1..MaxList, in the order of their obj_id
    MaxVid,         \* bound: the largest version id
    MaxFiles,       \* bound: the files clients add
    Stay,           \* the versions of a list that stay reachable: "first" is
                    \* version 0, "newest" the one commits are made on
    OldestFirst,    \* TRUE: versions become unreachable in order
    StaleCommits,   \* TRUE: clients commit on a version that is not the newest
    MayFail         \* the statements of rcCommit that may be given up: "ents"
                    \* deletes versions, "moves" moves files

Lists == 1..MaxList
Vids == 0..MaxVid
Open == MaxVid + 2      \* 2147483647, the end_vid of a file nobody deleted
Invalid == -1           \* VersionChain::invalid_vid_

ASSUME FilesOK ==
    /\ MaxList \in Nat /\ MaxVid \in Nat /\ MaxFiles \in Nat
    /\ Stay \subseteq {"first", "newest"}
    /\ {OldestFirst, StaleCommits} \subseteq BOOLEAN
    /\ MayFail \subseteq {"ents", "moves"}

VARIABLES
    vers,       \* vers[l]: the versions of l in the catalog, without those in
    kept,       \* kept[l]: the versions collected although the statement that
                \* deletes their rows was given up: still in the catalog
    files,      \* rows of ercat.Files
    added,      \* how many files clients added; a file is named by its number
    deleted,    \* the files in ercat.DeleteFiles
    content,    \* content[l][v]: the files the commit of v was meant to leave
    queue,      \* versions whose first reference is on its way to stage 0
    engine,     \* engine[l]: the versions the graph engine knows
    chain,      \* chain[l]: the ids in the version chain of l
    moves,      \* ranges rcCommit has yet to move the files of
    stuck       \* auxiliary: the files of the ranges that were not moved

catalogVars == <<vers, kept, files, added, deleted, content>>
gcVars == <<queue, engine, chain, moves, stuck>>
vars == <<catalogVars, gcVars>>

File == [id : 1..MaxFiles, list : Lists, start : 1..MaxVid, end : 1..Open]
Range3 == [list : Lists, lo : -1..MaxVid, hi : -1..(MaxVid + 1)]

\* The version chain, as the set VersionChain implements.
Set(l) == INSTANCE VersionSet WITH vids <- chain[l], result <- <<>>

Newest(l) == Max(vers[l])       \* the newest version that has references
Rows(l) == vers[l] \cup kept[l]
Seen(l, v) == {f \in files : f.list = l /\ f.start <= v /\ f.end > v}
Ids(F) == {f.id : f \in F}

TypeOK ==
    /\ vers \in [Lists -> SUBSET Vids] /\ kept \in [Lists -> SUBSET Vids]
    /\ files \subseteq File /\ \A f \in files : f.start < f.end
    /\ added \in 0..MaxFiles
    /\ deleted \subseteq 1..MaxFiles
    /\ content \in [Lists -> [Vids -> SUBSET (1..MaxFiles)]]
    /\ queue \subseteq Lists \X Vids
    /\ engine \in [Lists -> SUBSET Vids]
    /\ chain \in [Lists -> SUBSET Vids]
    /\ moves \in Seq(Range3)
    /\ stuck \subseteq 1..MaxFiles

\* Every list has its first version, without files.
Init ==
    /\ vers = [l \in Lists |-> {0}] /\ kept = [l \in Lists |-> {}]
    /\ files = {} /\ added = 0 /\ deleted = {}
    /\ content = [l \in Lists |-> [v \in Vids |-> {}]]
    /\ queue = {<<l, 0>> : l \in Lists}
    /\ engine = [l \in Lists |-> {}]
    /\ chain = [l \in Lists |-> {}]
    /\ moves = <<>> /\ stuck = {}

-----------------------------------------------------------------------------
(* Clients.                                                                 *)

EndingAt(v) == v         \* mutant: the deleted file is gone from v itself
EndOf(v) == v + 1

\* INSERT INTO and DELETE FROM FILELIST on the newest version, and the version
\* after it, in one transaction; a row of that version that the collector left
\* behind is in the way.
Commit(l) ==
    /\ vers[l] # {} /\ Newest(l) < MaxVid
    /\ Newest(l) + 1 \notin kept[l]
    /\ LET v == Newest(l) IN
       \E gone \in SUBSET Seen(l, v), n \in 0..1 :
         /\ gone # {} \/ n = 1
         /\ added + n <= MaxFiles
         /\ LET new == {[id |-> added + 1, list |-> l, start |-> v + 1, end |-> Open] : k \in 1..n}
                ended == {[f EXCEPT !.end = EndOf(v)] : f \in gone}
            IN  /\ files' = (files \ gone) \cup ended \cup new
                /\ content' = [content EXCEPT ![l][v + 1] = (Ids(Seen(l, v)) \ Ids(gone)) \cup Ids(new)]
         /\ added' = added + n
         /\ vers' = [vers EXCEPT ![l] = @ \cup {v + 1}]
         /\ queue' = queue \cup {<<l, v + 1>>}
    /\ UNCHANGED <<kept, deleted, engine, chain, moves, stuck>>

\* A commit on a version that is gone.  The conditions on the version make every
\* statement on files and versions a no-op, the references to version v + 1 are
\* inserted all the same, and the client is told of success.
CommitOnGone(l) ==
    /\ StaleCommits
    /\ \E v \in 0..(MaxVid - 1) :
         /\ v \notin Rows(l) /\ v < Newest(l)
         /\ v + 1 \notin Rows(l) \cup engine[l]
         /\ queue' = queue \cup {<<l, v + 1>>}
    /\ UNCHANGED <<catalogVars, engine, chain, moves, stuck>>

-----------------------------------------------------------------------------
(* The collector.                                                           *)

\* Stage 0: a version that is new to the engine joins its chain.
NewVersion ==
    /\ \E e \in queue :
         /\ \A q \in queue : q[1] = e[1] => q[2] >= e[2]
         /\ queue' = queue \ {e}
         /\ engine' = [engine EXCEPT ![e[1]] = @ \cup {e[2]}]
         /\ chain' = [chain EXCEPT ![e[1]] = Set(e[1])!Inserted(@, e[2])]
    /\ UNCHANGED <<catalogVars, moves, stuck>>

\* The versions of l that may have become unreachable together.  A version that
\* was dropped after its successor was committed is not collected before the
\* successor is known: the log is a consistent cut (EpochLog).
Expired(l) ==
    {S \in SUBSET engine[l] :
        /\ "first" \in Stay => 0 \notin S
        /\ "newest" \in Stay => /\ Newest(l) \notin S
                               /\ \A v \in S : <<l, v + 1>> \notin queue
        /\ OldestFirst => \A v \in S, w \in engine[l] : w < v => w \in S}

\* What one task may find, list by list.
Unreachable == [Lists -> UNION {Expired(l) : l \in Lists}]

Nth(S, k) == CHOOSE v \in S : Cardinality({w \in S : w < v}) = k - 1

\* Removing the version v, of the versions S of list l, from its chain when those
\* below it are gone: the gap the removal returns.
Gap(l, S, v) ==
    LET around == Set(l)!Neighbours(chain[l] \ {w \in S : w < v}, v)
    IN  [list |-> l, lo |-> around[1], hi |-> around[2]]

\* Removing them one by one: the gaps in order.
Gaps(l, S) == [k \in 1..Cardinality(S) |-> Gap(l, S, Nth(S, k))]

\* The ranges of all lists in the order of unreachable_vertices_, merged: a range
\* that starts before the end of the one before it, in the same list, extends it.
MergeTouching(r, s) == r.list = s.list /\ s.lo <= r.hi    \* mutant: < is <=
Overlap(r, s) == r.list = s.list /\ s.lo < r.hi

Merged(ranges) ==
    FoldLeft(LAMBDA acc, r :
                IF acc # <<>> /\ Overlap(Last(acc), r)
                THEN [acc EXCEPT ![Len(acc)].hi = r.hi]
                ELSE Append(acc, r),
             <<>>, ranges)

\* The ranges of the files to move when the versions S go.
Ranges(S) == Merged(FlattenSeq([l \in Lists |-> Gaps(l, S[l])]))

\* rcCommit takes the versions S from their chains, whether or not the statements
\* before it were given up.
Release(S) ==
    /\ moves = <<>>
    /\ \A l \in Lists : S[l] \in Expired(l)
    /\ \E l \in Lists : S[l] # {}
    /\ vers' = [l \in Lists |-> vers[l] \ S[l]]
    /\ engine' = [l \in Lists |-> engine[l] \ S[l]]
    /\ chain' = [l \in Lists |-> chain[l] \ S[l]]
    /\ UNCHANGED <<files, added, deleted, content, queue>>

\* rcCommit up to the moves, with all rows deleted.
Collect ==
    /\ \E S \in Unreachable : Release(S) /\ moves' = Ranges(S)
    /\ UNCHANGED <<kept, stuck>>

\* WHERE f.start_vid > lo AND f.end_vid < hi + 1
WithinStrict(f, r) ==      \* mutant: the + 1 is dropped
    f.list = r.list /\ f.start > r.lo /\ f.end < r.hi
Within(f, r) == f.list = r.list /\ f.start > r.lo /\ f.end < r.hi + 1

\* A range that only spans its own version holds no file.
Affected(r) == {f \in files : r.hi - r.lo > 1 /\ Within(f, r)}

\* The files that stay when the moves of the ranges rs are not tried.
Skipped(rs) == Ids(UNION {Affected(rs[k]) : k \in DOMAIN rs})

\* rcCommit when a statement on relations or rows of versions is given up: valid_
\* is false, the rows of the lists in the tables after it stay, no file is moved,
\* and the chains lose the versions all the same.
CollectFails ==
    /\ "ents" \in MayFail
    /\ \E S \in Unreachable, done \in 0..(MaxList - 1) :
         /\ Release(S)
         /\ kept' = [l \in Lists |-> IF l <= done THEN kept[l] ELSE kept[l] \cup (S[l] \cap vers[l])]
         /\ stuck' = stuck \cup Skipped(Ranges(S))
    /\ UNCHANGED moves

\* rcCommit, the files of one range.
Move ==
    /\ moves # <<>>
    /\ LET out == Affected(Head(moves))
       IN  /\ files' = files \ out
           /\ deleted' = deleted \cup Ids(out)
    /\ moves' = Tail(moves)
    /\ UNCHANGED <<vers, kept, added, content, queue, engine, chain, stuck>>

\* A move is given up: valid_ is false and the others are not tried.
MoveFails ==
    /\ "moves" \in MayFail /\ moves # <<>>
    /\ moves' = <<>>
    /\ stuck' = stuck \cup Skipped(moves)
    /\ UNCHANGED <<catalogVars, queue, engine, chain>>

Next ==
    \/ \E l \in Lists : Commit(l) \/ CommitOnGone(l)
    \/ NewVersion \/ Collect \/ CollectFails \/ Move \/ MoveFails

Spec == Init /\ [][Next]_vars

-----------------------------------------------------------------------------
(* Properties.                                                              *)

\* Every version in the catalog sees exactly the files its commit left, until the
\* collector takes it, whatever versions around it are collected and whichever
\* statements of rcCommit are given up; no file it sees is deleted.  (Not so for a
\* version in kept: it has left its chain, so a later gap reaches across it.)
SnapshotsIntact ==
    \A l \in Lists : \A v \in vers[l] :
        /\ Ids(Seen(l, v)) = content[l][v]
        /\ content[l][v] \cap deleted = {}

\* "move the files that are no longer accessible to deleted files in the catalog"
\* (gcmanager.cpp:497): when the moves of a task are done, every file that is
\* left is seen by a version the engine still counts, or one that is new to it.
\* (Not so for a list that has lost its first version, and for files whose move
\* was given up or never tried.)
FilesAreAccessible ==
    moves = <<>> =>
        \A f \in files : \/ f.id \in stuck \/ 0 \notin vers[f.list]
                          \/ \E v \in vers[f.list] \cup engine[f.list] :
                                f.start <= v /\ f.end > v
=============================================================================
