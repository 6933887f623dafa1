---------------------------- MODULE TableCommit ----------------------------
(***************************************************************************)
(* Clients of the catalog service that write tables.                       *)
(*                                                                         *)
(* A client reads the newest version of a table (GetTable) or of several   *)
(* (StartTransaction), and asks for its changes to be committed on these   *)
(* versions: version v of a table becomes v + 1.  The SQL of a commit runs *)
(* as one serializable transaction.  It takes no locks: conditions on the  *)
(* versions and primary keys make it fail when another client was faster.  *)
(* Old versions lose their Contains row (retain_last) and are collected.   *)
(***************************************************************************)
EXTENDS Integers, Sequences, FiniteSets

CONSTANTS
    Tables, Clients,
    MaxVid,         \* bound: the largest version id
    MaxTries,       \* bound: the attempts of a client, each on what it reads anew
    MaxStmts,       \* bound: the statements of a transaction
    MaxSends,       \* bound: how often the same commit is sent
    RetainLast,     \* the values of retain_last
    LateClients,    \* TRUE: a version may be collected under a client at work
    Misuse          \* "loose": a prepared change without a final one; "after": one
                    \* that follows the final one; "empty": a rewrite of no files

None == -1
Vids == 0..MaxVid
Open == MaxVid + 2      \* 2147483647
Names == Clients \X (1..MaxTries)   \* an attempt adds one file, named after it
File == [table : Tables, name : Names, start : 1..MaxVid, end : 1..Open]

\* AppendFiles or RewriteFiles in a transaction: a file to add, files to replace,
\* and whether the new version is left to a later statement.
Stmt == [table : Tables, add : BOOLEAN, drop : SUBSET Names, prepare : BOOLEAN]

ASSUME TablesOK ==
    /\ MaxVid \in Nat /\ MaxTries \in Nat /\ MaxStmts \in Nat /\ MaxSends \in Nat \ {0}
    /\ RetainLast \subseteq Int
    /\ LateClients \in BOOLEAN /\ Misuse \subseteq {"loose", "after", "empty"}

VARIABLES
    vers,       \* vers[t]: the versions of t with a row in the ent table
    head,       \* head[t]: the versions Head rows of t name
    cont,       \* cont[t]: the versions Contains rows of t name
    oldHead,    \* the same for rows with a delete_time, which still hold their
    oldCont,    \* primary keys
    files,      \* rows of ercat.Files
    tries,      \* tries[c]: the number of attempts c made
    mode,       \* mode[c]: "idle", "single" (no transaction id) or "txn"
    base,       \* base[c][t]: the version c works on; in a transaction, version_map_
    stmts,      \* stmts[c]: the statements of the request, or of command_str_
    sends,      \* sends[c]: how often the commit was sent
    pending,    \* pending[c]: how many of these the service has yet to handle
    closed,     \* closed[c]: the transaction is gone from the service
    told,       \* told[c]: the answer c got, "none" for none
    unsure      \* auxiliary: the service was cut off from a commit's result

catalogVars == <<vers, head, cont, oldHead, oldCont, files>>
clientVars == <<tries, mode, base, stmts, sends, pending, closed, told, unsure>>
vars == <<catalogVars, clientVars>>

TypeOK ==
    /\ {vers, head, cont, oldHead, oldCont} \subseteq [Tables -> SUBSET Vids]
    /\ files \subseteq File /\ \A f \in files : f.start < f.end
    /\ tries \in [Clients -> 0..MaxTries]
    /\ mode \in [Clients -> {"idle", "single", "txn"}]
    /\ base \in [Clients -> [Tables -> {None} \cup 0..(MaxVid - 1)]]
    /\ stmts \in [Clients -> Seq(Stmt)]
    /\ {sends, pending} \subseteq [Clients -> 0..MaxSends]
    /\ \A c \in Clients : pending[c] <= sends[c]
    /\ {closed, unsure} \subseteq [Clients -> BOOLEAN]
    /\ told \in [Clients -> {"none", "yes", "no"}]

Init ==
    /\ vers = [t \in Tables |-> {0}]
    /\ head = vers /\ cont = vers
    /\ oldHead = [t \in Tables |-> {}] /\ oldCont = oldHead
    /\ files = {}
    /\ tries = [c \in Clients |-> 0]
    /\ mode = [c \in Clients |-> "idle"]
    /\ base = [c \in Clients |-> [t \in Tables |-> None]]
    /\ stmts = [c \in Clients |-> <<>>]
    /\ sends = [c \in Clients |-> 0] /\ pending = sends
    /\ closed = [c \in Clients |-> FALSE] /\ unsure = closed
    /\ told = [c \in Clients |-> "none"]

-----------------------------------------------------------------------------
(* Reading.                                                                 *)

\* The files of version v: what ListFiles returns.
Content(t, v) == {f.name : f \in {f \in files : f.table = t /\ f.start <= v /\ f.end > v}}

CanBegin(c) == mode[c] = "idle" /\ tries[c] < MaxTries

Begin(c, m, b) ==
    /\ tries' = [tries EXCEPT ![c] = @ + 1]
    /\ mode' = [mode EXCEPT ![c] = m]
    /\ base' = [base EXCEPT ![c] = b]
    /\ UNCHANGED <<catalogVars, stmts, sends, pending, closed, told, unsure>>

\* The rows Head(t, ts) joins to: a version that is named and exists.
Heads(t) == head[t] \cap vers[t]

\* The newest version, if there is one row for it, or one that is asked for.
GetTable(c, t) ==
    /\ CanBegin(c)
    /\ \E v \in 0..(MaxVid - 1) :
        /\ Heads(t) = {v} \/ v \in cont[t] \cap vers[t]
        /\ Begin(c, "single", [u \in Tables |-> IF u = t THEN v ELSE None])

\* One row is expected for each of the tables T.
StartTransaction(c, T) ==
    /\ CanBegin(c)
    /\ Cardinality({r \in T \X Vids : r[2] \in Heads(r[1])}) = Cardinality(T)
    /\ \E b \in [Tables -> {None} \cup 0..(MaxVid - 1)] :
        /\ \A t \in Tables :
             b[t] \in (IF t \in T /\ Heads(t) # {} THEN Heads(t) ELSE {None})
        /\ Begin(c, "txn", b)

-----------------------------------------------------------------------------
(* Writing.                                                                 *)

On(c, t) == {k \in DOMAIN stmts[c] : stmts[c][k].table = t}
Finals(c, t) == {k \in On(c, t) : ~stmts[c][k].prepare}

\* What clients ask for: to add a file, to replace files they see, or both.
Sensible(c, s) ==
    /\ base[c][s.table] # None
    /\ s.drop \subseteq Content(s.table, base[c][s.table])
    /\ s.add \/ s.drop # {} \/ "empty" \in Misuse
    /\ s.prepare /\ Finals(c, s.table) # {} => "after" \in Misuse

\* With a transaction id a request only adds to command_str_.
AddStmt(c, s) ==
    /\ mode[c] = "txn" /\ sends[c] = 0 /\ Len(stmts[c]) < MaxStmts
    /\ Sensible(c, s)
    /\ stmts' = [stmts EXCEPT ![c] = Append(@, s)]
    /\ UNCHANGED <<catalogVars, tries, mode, base, sends, pending, closed, told, unsure>>

Sent(c) ==
    /\ sends' = [sends EXCEPT ![c] = @ + 1]
    /\ pending' = [pending EXCEPT ![c] = @ + 1]
    /\ UNCHANGED <<catalogVars, tries, mode, base, closed, told, unsure>>

\* Without one it is a commit; prepare is not looked at.
SendSingle(c, s) ==
    /\ mode[c] = "single" /\ sends[c] = 0
    /\ Sensible(c, s) /\ ~s.prepare
    /\ stmts' = [stmts EXCEPT ![c] = <<s>>]
    /\ Sent(c)

AppendFiles(c) == \E s \in Stmt :
    s.drop = {} /\ s.add /\ (AddStmt(c, s) \/ SendSingle(c, s))

\* A rewrite that replaces nothing does what AppendFiles does, and is left to it.
RewriteFiles(c) == \E s \in Stmt :
    (s.drop # {} \/ ~s.add) /\ (AddStmt(c, s) \/ SendSingle(c, s))

SendCommit(c) ==
    /\ mode[c] = "txn" /\ sends[c] = 0
    /\ \A t \in Tables : On(c, t) # {} => Finals(c, t) # {} \/ "loose" \in Misuse
    /\ UNCHANGED stmts
    /\ Sent(c)

\* No answer came: the client sends the same request again.
Resend(c) ==
    /\ sends[c] \in 1..(MaxSends - 1) /\ told[c] = "none"
    /\ UNCHANGED stmts
    /\ Sent(c)

\* The client goes on to its next attempt, or abandons this one.
GiveUp(c) ==
    /\ mode[c] # "idle" /\ pending[c] = 0
    /\ mode' = [mode EXCEPT ![c] = "idle"]
    /\ base' = [base EXCEPT ![c] = [t \in Tables |-> None]]
    /\ stmts' = [stmts EXCEPT ![c] = <<>>]
    /\ sends' = [sends EXCEPT ![c] = 0]
    /\ closed' = [closed EXCEPT ![c] = FALSE]
    /\ told' = [told EXCEPT ![c] = "none"]
    /\ unsure' = [unsure EXCEPT ![c] = FALSE]
    /\ UNCHANGED <<catalogVars, tries, pending>>

-----------------------------------------------------------------------------
(* The SQL of a commit.                                                     *)

\* The condition INSERT and DELETE FROM FILELIST put on the version.
Current(t, v) == v \in vers[t] /\ \A w \in vers[t] : w <= v

\* The statements on files that run before the ent table has version v + 1.
Effective(c, t) == {k \in On(c, t) : \A f \in Finals(c, t) : k <= f}

\* A statement hits a primary key: of the new version, or of its two references.
ConflictsNever(c, t) == FALSE    \* mutant: ON CONFLICT DO NOTHING
Conflicts(c, t) ==
    LET v == base[c][t] IN
    /\ Finals(c, t) # {}
    /\ \/ Cardinality(Finals(c, t)) > 1
       \/ v \in vers[t] /\ v + 1 \in vers[t]
       \/ v + 1 \in head[t] \cup cont[t] \cup oldHead[t] \cup oldCont[t]

\* The tables that get a row in the ent table, copied from that of version v.
Grows(c, t) ==
    /\ base[c][t] \in vers[t]
    /\ \E k \in Finals(c, t) : stmts[c][k].add \/ stmts[c][k].drop # {}

Changed(c, t) == Current(t, base[c][t]) /\ Effective(c, t) # {}
Ending(c, t) == UNION {stmts[c][k].drop : k \in Effective(c, t)}
AddsTo(c, t) == \E k \in Effective(c, t) : stmts[c][k].add

StartOf(c, t) == base[c][t] + 1
EndNow(c, t) == base[c][t]      \* mutant: end_vid without the + 1
EndOf(c, t) == base[c][t] + 1

NewFiles(c) ==
    LET changed == {t \in Tables : Changed(c, t)}
        ended == {f \in files : /\ f.table \in changed
                                /\ f.start <= base[c][f.table] /\ f.end > base[c][f.table]
                                /\ f.name \in Ending(c, f.table)}
    IN  (files \ ended)
        \cup {[f EXCEPT !.end = EndOf(c, f.table)] : f \in ended}
        \cup {[table |-> t, name |-> <<c, tries[c]>>, start |-> StartOf(c, t), end |-> Open] :
                t \in {t \in changed : AddsTo(c, t)}}

\* The versions of t with the next one, where the transaction is to bring it.
WithNext(c, t, has, S) == IF has THEN S \cup {base[c][t] + 1} ELSE S

KeepHeads(c, t) == {}    \* mutant: the Head row of the old version stays
OldHeads(c, t) == IF Finals(c, t) # {} THEN {base[c][t]} \cap head[t] ELSE {}

Commit(c) ==
    /\ vers' = [t \in Tables |-> WithNext(c, t, Grows(c, t), vers[t])]
    /\ files' = NewFiles(c)
    /\ oldHead' = [t \in Tables |-> oldHead[t] \cup OldHeads(c, t)]
    /\ head' = [t \in Tables |-> WithNext(c, t, Finals(c, t) # {}, head[t] \ OldHeads(c, t))]
    /\ cont' = [t \in Tables |-> WithNext(c, t, Finals(c, t) # {}, cont[t])]
    /\ UNCHANGED oldCont

\* The service is done with a request and answers; the answer may not arrive, and
\* only the first that arrives matters.
Answer(c, answer) ==
    /\ pending' = [pending EXCEPT ![c] = @ - 1]
    /\ closed' = [closed EXCEPT ![c] = mode[c] = "txn"]
    /\ told' \in {told, [told EXCEPT ![c] = IF @ = "none" THEN answer ELSE @]}
    /\ UNCHANGED <<tries, mode, base, stmts, sends>>

\* commitAppendFiles, commitRewriteFiles, handleCommit.  The command may be
\* carried out and its result be lost.
Succeed(c) ==
    /\ pending[c] > 0 /\ ~closed[c]
    /\ \A t \in Tables : ~Conflicts(c, t)
    /\ Commit(c)
    /\ \/ Answer(c, "yes") /\ UNCHANGED unsure
       \/ Answer(c, "no") /\ unsure' = [unsure EXCEPT ![c] = TRUE]

RefuseHalf(c) ==    \* mutant: a failed command is not rolled back
    /\ pending[c] > 0 /\ ~closed[c]
    /\ files' = NewFiles(c)
    /\ Answer(c, "no")
    /\ UNCHANGED <<vers, head, cont, oldHead, oldCont, unsure>>

\* A conflict, a serialization failure, no connection, or an unknown transaction.
Refuse(c) ==
    /\ pending[c] > 0
    /\ Answer(c, "no")
    /\ UNCHANGED <<catalogVars, unsure>>

-----------------------------------------------------------------------------
(* Expiry.                                                                  *)

\* expireSnapshotsRetainLast: the head is read first, other commits may follow.
Expire(t, n) ==
    /\ \E v \in Heads(t) : \E h \in 0..v :
         LET gone == {w \in cont[t] \cap vers[t] : w < h - n}
         IN  /\ gone # {}
             /\ cont' = [cont EXCEPT ![t] = @ \ gone]
             /\ oldCont' = [oldCont EXCEPT ![t] = @ \cup gone]
    /\ UNCHANGED <<vers, head, oldHead, files, clientVars>>

\* rcCommit removes a version that no reference in force names, and the rows with
\* a delete_time that name it.
CollectableAny(t, v) == v \notin cont[t]    \* mutant: Head does not count
Collectable(t, v) == v \notin head[t] \cup cont[t]

Collect(t, v) ==
    /\ v \in vers[t] \cup oldHead[t] \cup oldCont[t]
    /\ Collectable(t, v)
    /\ LateClients \/ \A c \in Clients : base[c][t] = None \/ v < base[c][t]
    /\ vers' = [vers EXCEPT ![t] = @ \ {v}]
    /\ oldHead' = [oldHead EXCEPT ![t] = @ \ {v}]
    /\ oldCont' = [oldCont EXCEPT ![t] = @ \ {v}]
    /\ UNCHANGED <<head, cont, files, clientVars>>

Client(c) ==
    \/ \E t \in Tables : GetTable(c, t)
    \/ \E T \in (SUBSET Tables) \ {{}} : StartTransaction(c, T)
    \/ AppendFiles(c) \/ RewriteFiles(c) \/ SendCommit(c) \/ Resend(c) \/ GiveUp(c)

Next ==
    \/ \E c \in Clients : Client(c) \/ Succeed(c) \/ Refuse(c)
    \/ \E t \in Tables, n \in RetainLast : Expire(t, n)
    \/ \E t \in Tables, v \in Vids : Collect(t, v)

Spec == Init /\ [][Next]_vars

-----------------------------------------------------------------------------
(* Properties.                                                              *)

\* After every commit and every expiry a table has one Head, and it is the newest
\* version and exists: the conditions and keys of a commit let nobody win twice.
HeadIsNewest ==
    \A t \in Tables : \E v \in vers[t] : head[t] = {v} /\ \A w \in vers[t] : w <= v

\* The rows of the current attempt of c.
Landed(c, t) == {f \in files : f.table = t /\ f.name = <<c, tries[c]>>}

\* The files c asked to add, for each table it writes.
Asked(c) == {t \in Tables : \E k \in On(c, t) : stmts[c][k].add}

\* A client that is told yes has every file it added in the version after the one
\* it worked on, and replaced files are gone from that version.
YesMeansCommitted ==
    \A c \in Clients : told[c] = "yes" =>
        /\ \A t \in Asked(c) : {f.start : f \in Landed(c, t)} = {base[c][t] + 1}
        /\ \A t \in Tables : \A k \in On(c, t) :
             stmts[c][k].drop \cap Content(t, base[c][t] + 1) = {}

\* A client that is told no has changed nothing, unless the service itself did not
\* learn what became of the commit, or the client has sent it more than once.
NoMeansNothing ==
    \A c \in Clients : told[c] = "no" /\ sends[c] = 1 /\ ~unsure[c] =>
        \A t \in Tables : Landed(c, t) = {}

\* However often a commit is sent, it lands at most once, in all of its tables or
\* in none.
LandsOnce ==
    \A c \in Clients :
        /\ \A t \in Tables : Cardinality(Landed(c, t)) <= 1
        /\ \A t, u \in Asked(c) : sends[c] > 0 => (Landed(c, t) = {} <=> Landed(c, u) = {})

\* The versions a client can read, each with its files.
Snaps == [t \in Tables |-> [v \in vers[t] |-> Content(t, v)]]

Log == INSTANCE TableLog WITH snaps <- Snaps

\* The tables are the logs of immutable snapshots TableLog promises.
ImplementsTableLog == Log!Spec
=============================================================================
