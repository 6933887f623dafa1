------------------------- MODULE TableCommitProofs -------------------------
(***************************************************************************)
(* Proofs about TableCommit, for any number of tables, clients, statements *)
(* and repeated requests: what the tables hold, and what clients are told. *)
(*                                                                         *)
(* That the Head of a table is its newest version rests on a fact about    *)
(* the versions clients work on: as long as none of them is collected,     *)
(* every version from the one a client read to the newest one is there.    *)
(* So the primary key of the next version stops whoever is not first.      *)
(***************************************************************************)
EXTENDS TableCommit, FiniteSetTheorems, TLAPS

\* A client has statements and has sent them only while it is at work, in its first
\* attempt or a later one.
AtWork ==
    \A c \in Clients :
        /\ mode[c] = "idle" => stmts[c] = <<>> /\ sends[c] = 0
        /\ mode[c] # "idle" => tries[c] >= 1

TInv == TypeOK /\ AtWork

LEMMA InitTInv == Init => TInv
  BY TablesOK DEF Init, TInv, TypeOK, AtWork, Vids, None

-----------------------------------------------------------------------------
(* Types.                                                                   *)

LEMMA BeginTInv ==
  ASSUME TInv, NEW c \in Clients, CanBegin(c), NEW m \in {"single", "txn"},
         NEW b \in [Tables -> {None} \cup 0..(MaxVid - 1)], Begin(c, m, b)
  PROVE  TInv'
<1> USE TablesOK DEF TInv, Begin, CanBegin, catalogVars
<1>1. TypeOK'
  BY DEF TypeOK
<1>2. AtWork'
  BY DEF TypeOK, AtWork
<1> QED BY <1>1, <1>2

LEMMA SentTInv ==
  ASSUME TInv, NEW c \in Clients, mode[c] # "idle", sends[c] < MaxSends, Sent(c),
         NEW q \in Seq(Stmt), stmts' = [stmts EXCEPT ![c] = q]
  PROVE  TInv'
<1> USE TablesOK DEF TInv, Sent, catalogVars
<1>1. TypeOK'
  BY DEF TypeOK
<1>2. AtWork'
  BY DEF TypeOK, AtWork
<1> QED BY <1>1, <1>2

LEMMA AddStmtTInv ==
  ASSUME TInv, NEW c \in Clients, NEW s \in Stmt, AddStmt(c, s)
  PROVE  TInv'
<1> USE TablesOK DEF TInv, AddStmt, catalogVars
<1>1. TypeOK'
  <2>1. Append(stmts[c], s) \in Seq(Stmt)
    BY DEF TypeOK
  <2> QED BY <2>1 DEF TypeOK
<1>2. AtWork'
  BY DEF TypeOK, AtWork
<1> QED BY <1>1, <1>2

LEMMA SendSingleTInv ==
  ASSUME TInv, NEW c \in Clients, NEW s \in Stmt, SendSingle(c, s)
  PROVE  TInv'
<1>1. <<s>> \in Seq(Stmt)
  OBVIOUS
<1>2. sends[c] < MaxSends
  BY TablesOK DEF SendSingle
<1> QED BY <1>1, <1>2, SentTInv DEF SendSingle

LEMMA SameStmts ==
  ASSUME TypeOK, UNCHANGED stmts, NEW c \in Clients
  PROVE  stmts[c] \in Seq(Stmt) /\ stmts' = [stmts EXCEPT ![c] = stmts[c]]
  BY DEF TypeOK

LEMMA GiveUpTInv ==
  ASSUME TInv, NEW c \in Clients, GiveUp(c)
  PROVE  TInv'
<1> USE TablesOK DEF TInv, GiveUp, catalogVars
<1>1. TypeOK'
  <2>1. <<>> \in Seq(Stmt)
    OBVIOUS
  <2>2. [t \in Tables |-> None] \in [Tables -> {None} \cup 0..(MaxVid - 1)]
    OBVIOUS
  <2> QED BY <2>1, <2>2 DEF TypeOK
<1>2. AtWork'
  BY DEF TypeOK, AtWork
<1> QED BY <1>1, <1>2

LEMMA ClientTInv ==
  ASSUME TInv, NEW c \in Clients, Client(c)
  PROVE  TInv'
<1>1. ASSUME NEW t \in Tables, GetTable(c, t) PROVE TInv'
  <2>1. PICK v \in 0..(MaxVid - 1) :
          Begin(c, "single", [u \in Tables |-> IF u = t THEN v ELSE None])
    BY <1>1 DEF GetTable
  <2>2. [u \in Tables |-> IF u = t THEN v ELSE None] \in [Tables -> {None} \cup 0..(MaxVid - 1)]
    OBVIOUS
  <2> QED BY <1>1, <2>1, <2>2, BeginTInv DEF GetTable
<1>2. ASSUME NEW T \in SUBSET Tables, StartTransaction(c, T) PROVE TInv'
  BY <1>2, BeginTInv DEF StartTransaction
<1>3. CASE AppendFiles(c)
  BY <1>3, AddStmtTInv, SendSingleTInv DEF AppendFiles
<1>4. CASE RewriteFiles(c)
  BY <1>4, AddStmtTInv, SendSingleTInv DEF RewriteFiles
<1>5. CASE SendCommit(c)
  BY <1>5, SentTInv, SameStmts, TablesOK DEF SendCommit, TInv
<1>6. CASE Resend(c)
  <2>1. mode[c] # "idle" /\ sends[c] < MaxSends
    BY <1>6, TablesOK DEF Resend, TInv, TypeOK, AtWork
  <2> QED BY <1>6, <2>1, SentTInv, SameStmts DEF Resend, TInv
<1>7. CASE GiveUp(c)
  BY <1>7, GiveUpTInv
<1> QED BY <1>1, <1>2, <1>3, <1>4, <1>5, <1>6, <1>7 DEF Client

LEMMA AnswerTInv ==
  ASSUME TInv, NEW c \in Clients, pending[c] > 0, NEW a \in {"yes", "no"}, Answer(c, a),
         unsure' \in [Clients -> BOOLEAN],
         {vers', head', cont', oldHead', oldCont'} \subseteq [Tables -> SUBSET Vids],
         files' \subseteq File, \A f \in files' : f.start < f.end
  PROVE  TInv'
<1> USE TablesOK DEF TInv, Answer
<1>1. TypeOK'
  <2>1. pending' \in [Clients -> 0..MaxSends] /\ \A d \in Clients : pending'[d] <= sends'[d]
    BY DEF TypeOK
  <2>2. told' \in [Clients -> {"none", "yes", "no"}]
    BY DEF TypeOK
  <2>3. closed' \in [Clients -> BOOLEAN]
    BY DEF TypeOK
  <2> QED BY <2>1, <2>2, <2>3 DEF TypeOK
<1>2. AtWork'
  BY DEF TypeOK, AtWork
<1> QED BY <1>1, <1>2

\* A commit writes versions and files of their types.
LEMMA CommitTypes ==
  ASSUME TInv, NEW c \in Clients, Commit(c)
  PROVE  /\ {vers', head', cont', oldHead', oldCont'} \subseteq [Tables -> SUBSET Vids]
         /\ files' \subseteq File /\ \A f \in files' : f.start < f.end
<1> USE TablesOK DEF TInv
<1>1. base[c] \in [Tables -> {None} \cup 0..(MaxVid - 1)]
  BY DEF TypeOK
<1>2. ASSUME NEW t \in Tables, NEW has \in BOOLEAN, NEW S \in SUBSET Vids
      PROVE  WithNext(c, t, has, S) \subseteq Vids
  <2>1. base[c][t] \in {None} \cup 0..(MaxVid - 1)
    BY <1>1
  <2>2. base[c][t] + 1 \in Vids
    BY <2>1 DEF Vids, None
  <2> QED BY <2>2 DEF WithNext
<1>3. \A t \in Tables : OldHeads(c, t) \subseteq Vids
  BY DEF OldHeads, TypeOK
<1>4. \A t \in Tables : Grows(c, t) \in BOOLEAN /\ (Finals(c, t) # {}) \in BOOLEAN
  BY DEF Grows
<1>5. vers' \in [Tables -> SUBSET Vids]
  BY <1>2, <1>4 DEF Commit, TypeOK
<1>6. head' \in [Tables -> SUBSET Vids]
  BY <1>2, <1>4 DEF Commit, TypeOK
<1>7. cont' \in [Tables -> SUBSET Vids]
  BY <1>2, <1>4 DEF Commit, TypeOK
<1>8. oldHead' \in [Tables -> SUBSET Vids]
  BY <1>3 DEF Commit, TypeOK
<1>9. oldCont' \in [Tables -> SUBSET Vids]
  BY DEF Commit, TypeOK
<1>10. ASSUME NEW g \in files' PROVE g \in File /\ g.start < g.end
  <2>1. CASE g \in files
    BY <2>1 DEF TypeOK
  <2>2. ASSUME NEW f \in files, f.start <= base[c][f.table], g = [f EXCEPT !.end = EndOf(c, f.table)]
        PROVE  g \in File /\ g.start < g.end
    <3>1. f \in File
      BY DEF TypeOK
    <3>2. f.table \in Tables /\ f.start \in 1..MaxVid
      BY <3>1 DEF File
    <3>3. EndOf(c, f.table) = base[c][f.table] + 1 /\ EndOf(c, f.table) \in 1..Open
      BY <1>1, <2>2, <3>2 DEF EndOf, Open, None
    <3>4. g \in File /\ g.start = f.start /\ g.end = EndOf(c, f.table)
      BY <2>2, <3>1, <3>3 DEF File
    <3>5. base[c][f.table] \in Int
      BY <1>1, <3>2 DEF None
    <3> QED BY <2>2, <3>2, <3>3, <3>4, <3>5
  <2>3. ASSUME NEW t \in Tables, Changed(c, t), AddsTo(c, t),
               g = [table |-> t, name |-> <<c, tries[c]>>, start |-> StartOf(c, t), end |-> Open]
        PROVE  g \in File /\ g.start < g.end
    <3>1. base[c][t] \in 0..(MaxVid - 1)
      BY <2>3, <1>1 DEF Changed, Current, TypeOK, Vids, None
    <3>2. PICK k \in DOMAIN stmts[c] : TRUE
      BY <2>3 DEF AddsTo, Effective, On
    <3>3. <<c, tries[c]>> \in Names
      <4>1. mode[c] # "idle"
        BY <3>2 DEF AtWork
      <4>2. tries[c] \in 1..MaxTries
        BY <4>1 DEF AtWork, TypeOK
      <4> QED BY <4>2 DEF Names
    <3> QED BY <2>3, <3>1, <3>3 DEF File, StartOf, Open
  <2> QED BY <2>1, <2>2, <2>3, <1>10 DEF Commit, NewFiles
<1> QED BY <1>5, <1>6, <1>7, <1>8, <1>9, <1>10

LEMMA SucceedTInv ==
  ASSUME TInv, NEW c \in Clients, Succeed(c)
  PROVE  TInv'
<1>1. unsure' \in [Clients -> BOOLEAN]
  BY DEF Succeed, TInv, TypeOK
<1> QED BY <1>1, CommitTypes, AnswerTInv DEF Succeed

LEMMA RefuseTInv ==
  ASSUME TInv, NEW c \in Clients, Refuse(c)
  PROVE  TInv'
  BY AnswerTInv DEF Refuse, catalogVars, TInv, TypeOK

LEMMA ExpireTInv ==
  ASSUME TInv, NEW t \in Tables, NEW n \in RetainLast, Expire(t, n)
  PROVE  TInv'
<1> USE DEF TInv, Expire, clientVars
<1>1. PICK gone \in SUBSET cont[t] : /\ cont' = [cont EXCEPT ![t] = @ \ gone]
                                     /\ oldCont' = [oldCont EXCEPT ![t] = @ \cup gone]
  OBVIOUS
<1>2. TypeOK'
  BY <1>1 DEF TypeOK
<1>3. AtWork'
  BY DEF AtWork
<1> QED BY <1>2, <1>3

LEMMA CollectTInv ==
  ASSUME TInv, NEW t \in Tables, NEW v \in Vids, Collect(t, v)
  PROVE  TInv'
<1> USE DEF TInv, Collect, clientVars
<1>1. TypeOK'
  BY DEF TypeOK
<1>2. AtWork'
  BY DEF AtWork
<1> QED BY <1>1, <1>2

LEMMA StepTInv == TInv /\ [Next]_vars => TInv'
<1> SUFFICES ASSUME TInv, [Next]_vars PROVE TInv'
  OBVIOUS
<1>1. CASE UNCHANGED vars
  BY <1>1 DEF TInv, TypeOK, AtWork, vars, catalogVars, clientVars
<1> QED BY <1>1, ClientTInv, SucceedTInv, RefuseTInv, ExpireTInv, CollectTInv DEF Next

\* The variables of TableCommit keep their types: no commit, however late, writes a
\* file that ends before it starts or a version beyond the bound.
THEOREM TypeCorrect == Spec => []TypeOK
<1>1. TInv => TypeOK
  BY DEF TInv
<1> QED BY <1>1, InitTInv, StepTInv, PTL DEF Spec

-----------------------------------------------------------------------------
(* The Head of a table is its newest version.                               *)

\* A statement does something, to a table the client has read.
StmtsOnBase ==
    \A c \in Clients : \A k \in DOMAIN stmts[c] :
        /\ stmts[c][k].add \/ stmts[c][k].drop # {}
        /\ base[c][stmts[c][k].table] # None

\* No version is missing from the one a client works on to the newest one,
BaseKept ==
    \A c \in Clients, t \in Tables : base[c][t] # None =>
        /\ base[c][t] \in vers[t]
        /\ \A w \in vers[t], u \in Vids : base[c][t] <= u /\ u <= w => u \in vers[t]

\* and none from any version with a Contains row on, so that clients may read it.
ContKept ==
    \A t \in Tables :
        /\ cont[t] \subseteq vers[t]
        /\ \A v \in cont[t], w \in vers[t], u \in Vids : v <= u /\ u <= w => u \in cont[t]

HInv == TInv /\ HeadIsNewest /\ StmtsOnBase /\ BaseKept /\ ContKept

\* No version is collected while a client works on it or on an older one, and
\* clients do not rewrite without files.
Careful == ~LateClients /\ "empty" \notin Misuse

LEMMA InitHInv == Init => HInv
<1> SUFFICES ASSUME Init PROVE HInv
  OBVIOUS
<1>1. HeadIsNewest
  BY DEF Init, HeadIsNewest
<1>2. StmtsOnBase /\ BaseKept
  BY DEF Init, StmtsOnBase, BaseKept, None
<1>3. ContKept
  BY DEF Init, ContKept, Vids
<1> QED BY <1>1, <1>2, <1>3, InitTInv DEF HInv

\* What a commit that meets no primary key finds in a table it gives a new version.
LEMMA OnNewest ==
  ASSUME HInv, NEW c \in Clients, NEW t \in Tables, Finals(c, t) # {}, ~Conflicts(c, t)
  PROVE  /\ base[c][t] \in vers[t] /\ base[c][t] + 1 \in Vids
         /\ head[t] = {base[c][t]}
         /\ \A w \in vers[t] : w <= base[c][t]
         /\ Grows(c, t)
<1> DEFINE v == base[c][t]
<1>1. PICK k \in Finals(c, t) : k \in DOMAIN stmts[c] /\ stmts[c][k].table = t
  BY DEF Finals, On
<1>2. v # None /\ (stmts[c][k].add \/ stmts[c][k].drop # {})
  BY <1>1 DEF HInv, StmtsOnBase
<1>3. v \in vers[t] /\ \A w \in vers[t], u \in Vids : v <= u /\ u <= w => u \in vers[t]
  BY <1>2 DEF HInv, BaseKept
<1>4. v \in 0..(MaxVid - 1) /\ v + 1 \in Vids /\ vers[t] \subseteq Vids
  BY <1>2, TablesOK DEF HInv, TInv, TypeOK, Vids, None
<1>5. v + 1 \notin vers[t]
  BY <1>3 DEF Conflicts
<1>6. PICK h \in vers[t] : head[t] = {h} /\ \A w \in vers[t] : w <= h
  BY DEF HInv, HeadIsNewest
<1>7. h = v
  <2>1. v <= h /\ h \in Nat
    BY <1>3, <1>4, <1>6 DEF Vids
  <2>2. CASE v < h
    BY <2>1, <2>2, <1>3, <1>4, <1>5, <1>6
  <2> QED BY <2>1, <2>2, <1>4
<1>8. Grows(c, t)
  BY <1>1, <1>2, <1>3 DEF Grows
<1> QED BY <1>3, <1>4, <1>6, <1>7, <1>8

\* A table a commit gives no version keeps those it has.
LEMMA NotFinal ==
  ASSUME TInv, NEW c \in Clients, Commit(c), NEW t \in Tables, Finals(c, t) = {}
  PROVE  vers'[t] = vers[t] /\ head'[t] = head[t] /\ cont'[t] = cont[t]
  BY DEF Commit, WithNext, Grows, OldHeads

LEMMA Final ==
  ASSUME HInv, NEW c \in Clients, Commit(c), NEW t \in Tables, Finals(c, t) # {}, ~Conflicts(c, t)
  PROVE  /\ vers'[t] = vers[t] \cup {base[c][t] + 1}
         /\ head'[t] = {base[c][t] + 1}
         /\ cont'[t] = cont[t] \cup {base[c][t] + 1}
<1>1. head[t] = {base[c][t]} /\ Grows(c, t)
  BY OnNewest
<1>2. OldHeads(c, t) = {base[c][t]}
  BY <1>1 DEF OldHeads
<1> QED BY <1>1, <1>2 DEF Commit, WithNext

LEMMA SucceedHInv ==
  ASSUME HInv, NEW c \in Clients, Succeed(c), TInv'
  PROVE  HInv'
<1> USE DEF HInv
<1>1. Commit(c) /\ (\A t \in Tables : ~Conflicts(c, t)) /\ UNCHANGED <<base, stmts>>
  BY DEF Succeed, Answer
<1> DEFINE n(t) == base[c][t] + 1
<1>2. \A t \in Tables :
        \/ vers'[t] = vers[t] /\ head'[t] = head[t] /\ cont'[t] = cont[t]
        \/ /\ n(t) \in Vids /\ n(t) - 1 \in vers[t]
           /\ \A w \in vers[t] : w < n(t)
           /\ vers'[t] = vers[t] \cup {n(t)} /\ head'[t] = {n(t)} /\ cont'[t] = cont[t] \cup {n(t)}
  <2> SUFFICES ASSUME NEW t \in Tables
               PROVE  \/ vers'[t] = vers[t] /\ head'[t] = head[t] /\ cont'[t] = cont[t]
                      \/ /\ n(t) \in Vids /\ n(t) - 1 \in vers[t]
                         /\ \A w \in vers[t] : w < n(t)
                         /\ vers'[t] = vers[t] \cup {n(t)} /\ head'[t] = {n(t)}
                         /\ cont'[t] = cont[t] \cup {n(t)}
    OBVIOUS
  <2>1. CASE Finals(c, t) = {}
    BY <2>1, <1>1, NotFinal
  <2>2. CASE Finals(c, t) # {}
    <3>1. base[c][t] \in vers[t] /\ n(t) \in Vids /\ \A w \in vers[t] : w <= base[c][t]
      BY <2>2, <1>1, OnNewest
    <3>2. vers[t] \subseteq Vids
      BY DEF TInv, TypeOK
    <3> HIDE DEF n
    <3>3. n(t) = base[c][t] + 1
      BY DEF n
    <3>4. n(t) - 1 \in vers[t] /\ \A w \in vers[t] : w < n(t)
      BY <3>1, <3>2, <3>3 DEF Vids
    <3>5. vers'[t] = vers[t] \cup {n(t)} /\ head'[t] = {n(t)} /\ cont'[t] = cont[t] \cup {n(t)}
      BY <2>2, <1>1, <3>3, Final
    <3> QED BY <3>1, <3>4, <3>5
  <2> QED BY <2>1, <2>2
<1>3. \A t \in Tables : vers[t] \subseteq Vids /\ cont[t] \subseteq Vids
  BY DEF TInv, TypeOK
<1> HIDE DEF n
<1>4. HeadIsNewest'
  <2> SUFFICES ASSUME NEW t \in Tables
               PROVE  \E v \in vers'[t] : head'[t] = {v} /\ \A w \in vers'[t] : w <= v
    BY DEF HeadIsNewest
  <2>1. PICK v \in vers[t] : head[t] = {v} /\ \A w \in vers[t] : w <= v
    BY DEF HeadIsNewest
  <2> QED BY <1>2, <1>3, <2>1 DEF Vids
<1>5. StmtsOnBase'
  BY <1>1 DEF StmtsOnBase
<1>6. BaseKept'
  <2> SUFFICES ASSUME NEW d \in Clients, NEW t \in Tables, base[d][t] # None
               PROVE  /\ base[d][t] \in vers'[t]
                      /\ \A w \in vers'[t], u \in Vids :
                           base[d][t] <= u /\ u <= w => u \in vers'[t]
    BY <1>1 DEF BaseKept
  <2>1. /\ base[d][t] \in vers[t]
        /\ \A w \in vers[t], u \in Vids : base[d][t] <= u /\ u <= w => u \in vers[t]
    BY DEF BaseKept
  <2> QED BY <1>2, <1>3, <2>1 DEF Vids
<1>7. ContKept'
  <2> SUFFICES ASSUME NEW t \in Tables
               PROVE  /\ cont'[t] \subseteq vers'[t]
                      /\ \A v \in cont'[t], w \in vers'[t], u \in Vids :
                           v <= u /\ u <= w => u \in cont'[t]
    BY DEF ContKept
  <2>1. /\ cont[t] \subseteq vers[t]
        /\ \A v \in cont[t], w \in vers[t], u \in Vids : v <= u /\ u <= w => u \in cont[t]
    BY DEF ContKept
  <2> QED BY <1>2, <1>3, <2>1 DEF Vids
<1> QED BY <1>4, <1>5, <1>6, <1>7

LEMMA ExpireHInv ==
  ASSUME HInv, NEW t \in Tables, NEW n \in RetainLast, Expire(t, n), TInv'
  PROVE  HInv'
<1> USE DEF HInv
<1>1. UNCHANGED <<vers, head, base, stmts>>
  BY DEF Expire, clientVars
<1>2. PICK h \in Int : cont' = [cont EXCEPT ![t] = @ \ {w \in cont[t] \cap vers[t] : w < h - n}]
  <2>1. PICK v \in Heads(t) : \E h \in 0..v :
          cont' = [cont EXCEPT ![t] = @ \ {w \in cont[t] \cap vers[t] : w < h - n}]
    BY DEF Expire
  <2> QED BY <2>1
<1>3. HeadIsNewest' /\ StmtsOnBase' /\ BaseKept'
  BY <1>1 DEF HeadIsNewest, StmtsOnBase, BaseKept
<1>4. ContKept'
  <2> SUFFICES ASSUME NEW u \in Tables
               PROVE  /\ cont'[u] \subseteq vers[u]
                      /\ \A v \in cont'[u], w \in vers[u], x \in Vids :
                           v <= x /\ x <= w => x \in cont'[u]
    BY <1>1 DEF ContKept
  <2>1. /\ cont[u] \subseteq vers[u]
        /\ \A v \in cont[u], w \in vers[u], x \in Vids : v <= x /\ x <= w => x \in cont[u]
    BY DEF ContKept
  <2>2. cont[u] \subseteq Vids /\ vers[u] \subseteq Vids /\ n \in Int
    BY TablesOK DEF TInv, TypeOK
  <2>3. cont'[u] = cont[u] \/ cont'[u] = {w \in cont[u] : ~(w < h - n)}
    BY <1>2, <2>1 DEF TInv, TypeOK
  <2> QED BY <2>1, <2>2, <2>3 DEF Vids
<1> QED BY <1>3, <1>4

LEMMA CollectHInv ==
  ASSUME HInv, Careful, NEW t \in Tables, NEW v \in Vids, Collect(t, v), TInv'
  PROVE  HInv'
<1> USE DEF HInv
<1>1. /\ UNCHANGED <<head, cont, base, stmts>>
      /\ vers' = [vers EXCEPT ![t] = @ \ {v}]
      /\ v \notin head[t] /\ v \notin cont[t]
      /\ \A c \in Clients : base[c][t] = None \/ v < base[c][t]
  BY DEF Collect, clientVars, Collectable, Careful
<1>2. \A u \in Tables : /\ vers[u] \subseteq Vids
                        /\ vers'[u] = IF u = t THEN vers[u] \ {v} ELSE vers[u]
  BY <1>1 DEF TInv, TypeOK
<1>3. HeadIsNewest'
  BY <1>1, <1>2 DEF HeadIsNewest
<1>4. StmtsOnBase'
  BY <1>1 DEF StmtsOnBase
<1>5. BaseKept'
  <2> SUFFICES ASSUME NEW d \in Clients, NEW u \in Tables, base[d][u] # None
               PROVE  /\ base[d][u] \in vers'[u]
                      /\ \A w \in vers'[u], x \in Vids :
                           base[d][u] <= x /\ x <= w => x \in vers'[u]
    BY <1>1 DEF BaseKept
  <2>1. /\ base[d][u] \in vers[u]
        /\ \A w \in vers[u], x \in Vids : base[d][u] <= x /\ x <= w => x \in vers[u]
    BY DEF BaseKept
  <2>2. CASE u = t
    <3>1. v < base[d][t] /\ base[d][t] \in Vids
      BY <1>1, <1>2, <2>1, <2>2
    <3>2. base[d][t] # v /\ ~(base[d][t] <= v)
      BY <3>1 DEF Vids
    <3> QED BY <1>2, <2>1, <2>2, <3>2
  <2>3. CASE u # t
    BY <1>2, <2>1, <2>3
  <2> QED BY <2>2, <2>3
<1>6. ContKept'
  BY <1>1, <1>2 DEF ContKept
<1> QED BY <1>3, <1>4, <1>5, <1>6

\* Clients change neither versions nor rows: what is left is what they read and ask.
LEMMA ReadHInv ==
  ASSUME HInv, TInv', NEW c \in Clients, CanBegin(c), NEW m, NEW b, Begin(c, m, b),
         b \in [Tables -> {None} \cup 0..(MaxVid - 1)],
         \A t \in Tables : b[t] \in {None} \cup Heads(t) \cup (cont[t] \cap vers[t])
  PROVE  HInv'
<1> USE DEF HInv
<1>1. UNCHANGED <<vers, head, cont, stmts>> /\ base' = [base EXCEPT ![c] = b]
  BY DEF Begin, catalogVars
<1>2. HeadIsNewest' /\ ContKept'
  BY <1>1 DEF HeadIsNewest, ContKept
<1>3. StmtsOnBase'
  <2>1. stmts[c] = <<>> /\ DOMAIN stmts[c] = {}
    BY DEF CanBegin, TInv, AtWork
  <2>2. \A d \in Clients : d # c => base'[d] = base[d]
    BY <1>1 DEF TInv, TypeOK
  <2> QED BY <1>1, <2>1, <2>2 DEF StmtsOnBase
<1>4. BaseKept'
  <2> SUFFICES ASSUME NEW d \in Clients, NEW t \in Tables, base'[d][t] # None
               PROVE  /\ base'[d][t] \in vers[t]
                      /\ \A w \in vers[t], u \in Vids :
                           base'[d][t] <= u /\ u <= w => u \in vers[t]
    BY <1>1 DEF BaseKept
  <2>1. CASE d # c
    BY <1>1, <2>1 DEF BaseKept, TInv, TypeOK
  <2>2. CASE d = c
    <3>1. base'[d][t] = b[t]
      BY <1>1, <2>2 DEF TInv, TypeOK
    <3>2. CASE b[t] \in cont[t] \cap vers[t]
      BY <3>1, <3>2 DEF ContKept
    <3>3. CASE b[t] \in Heads(t)
      <4>1. PICK v \in vers[t] : head[t] = {v} /\ \A w \in vers[t] : w <= v
        BY DEF HeadIsNewest
      <4>2. b[t] = v /\ vers[t] \subseteq Vids
        BY <3>3, <4>1 DEF Heads, TInv, TypeOK
      <4> QED BY <3>1, <4>1, <4>2 DEF Vids
    <3> QED BY <3>1, <3>2, <3>3
  <2> QED BY <2>1, <2>2
<1> QED BY <1>2, <1>3, <1>4

\* A statement is sensible, and others stay.
LEMMA WriteHInv ==
  ASSUME HInv, TInv', NEW c \in Clients, UNCHANGED <<catalogVars, base>>,
         NEW q \in Seq(Stmt), stmts' = [stmts EXCEPT ![c] = q],
         \A k \in DOMAIN q : /\ q[k].add \/ q[k].drop # {}
                             /\ base[c][q[k].table] # None
  PROVE  HInv'
<1> USE DEF HInv, catalogVars
<1>1. HeadIsNewest' /\ ContKept' /\ BaseKept'
  BY DEF HeadIsNewest, ContKept, BaseKept
<1>2. StmtsOnBase'
  <2> SUFFICES ASSUME NEW d \in Clients, NEW k \in DOMAIN stmts'[d]
               PROVE  /\ stmts'[d][k].add \/ stmts'[d][k].drop # {}
                      /\ base[d][stmts'[d][k].table] # None
    BY DEF StmtsOnBase
  <2>1. CASE d = c
    BY <2>1 DEF TInv, TypeOK
  <2>2. CASE d # c
    BY <2>2 DEF StmtsOnBase, TInv, TypeOK
  <2> QED BY <2>1, <2>2
<1> QED BY <1>1, <1>2

LEMMA StmtHInv ==
  ASSUME HInv, TInv', Careful, NEW c \in Clients, NEW s \in Stmt,
         AddStmt(c, s) \/ SendSingle(c, s)
  PROVE  HInv'
<1>1. base[c][s.table] # None /\ (s.add \/ s.drop # {})
  BY DEF AddStmt, SendSingle, Sensible, Careful
<1>2. CASE AddStmt(c, s)
  <2> DEFINE q == Append(stmts[c], s)
  <2>1. stmts[c] \in Seq(Stmt)
    BY DEF HInv, TInv, TypeOK
  <2>2. q \in Seq(Stmt) /\ DOMAIN q = DOMAIN stmts[c] \cup {Len(q)} /\ q[Len(q)] = s
        /\ \A k \in DOMAIN stmts[c] : q[k] = stmts[c][k]
    BY <2>1
  <2>3. \A k \in DOMAIN q : (q[k].add \/ q[k].drop # {}) /\ base[c][q[k].table] # None
    BY <1>1, <2>2 DEF HInv, StmtsOnBase
  <2>4. stmts' = [stmts EXCEPT ![c] = q]
    BY <1>2 DEF AddStmt
  <2> HIDE DEF q
  <2> QED BY <1>2, <2>2, <2>3, <2>4, WriteHInv DEF AddStmt
<1>3. CASE SendSingle(c, s)
  <2>1. <<s>> \in Seq(Stmt) /\ DOMAIN <<s>> = {1} /\ <<s>>[1] = s
    OBVIOUS
  <2>2. \A k \in DOMAIN <<s>> : (<<s>>[k].add \/ <<s>>[k].drop # {}) /\ base[c][<<s>>[k].table] # None
    BY <1>1, <2>1
  <2> QED BY <1>3, <2>1, <2>2, WriteHInv DEF SendSingle, Sent
<1> QED BY <1>2, <1>3

LEMMA SameHInv ==
  ASSUME HInv, TInv', UNCHANGED <<catalogVars, base, stmts>>
  PROVE  HInv'
  BY DEF HInv, catalogVars, HeadIsNewest, StmtsOnBase, BaseKept, ContKept

LEMMA ClientHInv ==
  ASSUME HInv, Careful, NEW c \in Clients, Client(c), TInv'
  PROVE  HInv'
<1>1. ASSUME NEW t \in Tables, GetTable(c, t) PROVE HInv'
  <2>1. PICK v \in 0..(MaxVid - 1) :
          /\ Heads(t) = {v} \/ v \in cont[t] \cap vers[t]
          /\ Begin(c, "single", [u \in Tables |-> IF u = t THEN v ELSE None])
    BY <1>1 DEF GetTable
  <2> DEFINE b == [u \in Tables |-> IF u = t THEN v ELSE None]
  <2>2. b \in [Tables -> {None} \cup 0..(MaxVid - 1)]
    OBVIOUS
  <2>3. \A u \in Tables : b[u] \in {None} \cup Heads(u) \cup (cont[u] \cap vers[u])
    BY <2>1
  <2> QED BY <1>1, <2>1, <2>2, <2>3, ReadHInv DEF GetTable
<1>2. ASSUME NEW T \in SUBSET Tables, StartTransaction(c, T) PROVE HInv'
  <2>1. PICK b \in [Tables -> {None} \cup 0..(MaxVid - 1)] :
          /\ \A t \in Tables :
               b[t] \in (IF t \in T /\ Heads(t) # {} THEN Heads(t) ELSE {None})
          /\ Begin(c, "txn", b)
    BY <1>2 DEF StartTransaction
  <2>2. \A t \in Tables : b[t] \in {None} \cup Heads(t) \cup (cont[t] \cap vers[t])
    BY <2>1
  <2> QED BY <1>2, <2>1, <2>2, ReadHInv DEF StartTransaction
<1>3. CASE AppendFiles(c)
  BY <1>3, StmtHInv DEF AppendFiles
<1>4. CASE RewriteFiles(c)
  BY <1>4, StmtHInv DEF RewriteFiles
<1>5. CASE SendCommit(c)
  BY <1>5, SameHInv DEF SendCommit, Sent
<1>6. CASE Resend(c)
  BY <1>6, SameHInv DEF Resend, Sent
<1>7. CASE GiveUp(c)
  <2>1. UNCHANGED catalogVars /\ base' = [base EXCEPT ![c] = [t \in Tables |-> None]]
        /\ stmts' = [stmts EXCEPT ![c] = <<>>]
    BY <1>7 DEF GiveUp
  <2>2. HeadIsNewest' /\ ContKept'
    BY <2>1 DEF HInv, catalogVars, HeadIsNewest, ContKept
  <2>3. BaseKept'
    BY <2>1 DEF HInv, catalogVars, BaseKept, TInv, TypeOK
  <2>4. DOMAIN stmts'[c] = {} /\ \A d \in Clients : d # c => UNCHANGED <<base[d], stmts[d]>>
    BY <2>1 DEF HInv, TInv, TypeOK
  <2>5. StmtsOnBase'
    BY <2>4 DEF HInv, StmtsOnBase
  <2> QED BY <2>2, <2>3, <2>5 DEF HInv
<1> QED BY <1>1, <1>2, <1>3, <1>4, <1>5, <1>6, <1>7 DEF Client

LEMMA StepHInv == Careful /\ HInv /\ [Next]_vars => HInv'
<1> SUFFICES ASSUME Careful, HInv, [Next]_vars PROVE HInv'
  OBVIOUS
<1>1. TInv'
  BY StepTInv DEF HInv
<1>2. CASE UNCHANGED vars
  BY <1>1, <1>2, SameHInv DEF vars, clientVars
<1>3. ASSUME NEW c \in Clients, Refuse(c) PROVE HInv'
  BY <1>1, <1>3, SameHInv DEF Refuse, Answer
<1> QED BY <1>1, <1>2, <1>3, ClientHInv, SucceedHInv, ExpireHInv, CollectHInv DEF Next

\* For any number of tables and clients, whatever statements they collect, repeat or
\* lose the answers of: as long as no version is collected under a client at work and
\* no client rewrites without files, a table has one Head, which is its newest version.
THEOREM HeadStaysNewest == Careful => (Spec => []HeadIsNewest)
<1> SUFFICES ASSUME Careful PROVE Spec => []HeadIsNewest
  OBVIOUS
<1>1. HInv /\ [Next]_vars => HInv'
  BY StepHInv
<1>2. HInv => HeadIsNewest
  BY DEF HInv
<1> QED BY <1>1, <1>2, InitHInv, PTL DEF Spec

-----------------------------------------------------------------------------
(* A table is a log of immutable snapshots.                                 *)

LEMMA InContent ==
  ASSUME NEW t, NEW v, NEW n
  PROVE  n \in Content(t, v) <=>
           \E f \in files : f.table = t /\ f.start <= v /\ f.end > v /\ f.name = n
  BY DEF Content

LEMMA InNextContent ==
  ASSUME NEW t, NEW v, NEW n
  PROVE  n \in Content(t, v)' <=>
           \E f \in files' : f.table = t /\ f.start <= v /\ f.end > v /\ f.name = n
  BY DEF Content

\* A commit changes no version that is there already.
LEMMA CommitKeeps ==
  ASSUME TInv, NEW c \in Clients, Commit(c), NEW t \in Tables, NEW w \in vers[t]
  PROVE  Content(t, w)' = Content(t, w)
<1> DEFINE b == base[c][t]
<1>1. b \in Int /\ w \in Nat /\ (Changed(c, t) => w <= b)
  BY TablesOK DEF TInv, TypeOK, Vids, None, Changed, Current
<1>2. \A f \in files : f \in File
  BY DEF TInv, TypeOK
<1>3. files' = NewFiles(c)
  BY DEF Commit
<1>4. ASSUME NEW g \in files', g.table = t, g.start <= w, g.end > w
      PROVE  \E f \in files : f.table = t /\ f.start <= w /\ f.end > w /\ f.name = g.name
  <2>1. CASE g \in files
    BY <1>4, <2>1
  <2>2. ASSUME NEW f \in files, Changed(c, f.table), f.end > base[c][f.table],
               g = [f EXCEPT !.end = EndOf(c, f.table)]
        PROVE  f.table = t /\ f.start <= w /\ f.end > w /\ f.name = g.name
    <3>1. f \in File
      BY <1>2
    <3>2. g.table = f.table /\ g.start = f.start /\ g.name = f.name /\ f.end \in Nat
      BY <2>2, <3>1 DEF File, Open
    <3> QED BY <1>1, <1>4, <2>2, <3>2
  <2>3. ASSUME NEW u \in Tables, Changed(c, u),
               g = [table |-> u, name |-> <<c, tries[c]>>, start |-> StartOf(c, u), end |-> Open]
        PROVE  FALSE
    <3>1. u = t /\ g.start = b + 1
      BY <1>4, <2>3 DEF StartOf
    <3> HIDE DEF b
    <3> QED BY <1>1, <1>4, <2>3, <3>1
  <2> QED BY <1>3, <1>4, <2>1, <2>2, <2>3 DEF NewFiles
<1>5. ASSUME NEW f \in files, f.table = t, f.start <= w, f.end > w
      PROVE  \E g \in files' : g.table = t /\ g.start <= w /\ g.end > w /\ g.name = f.name
  <2>1. CASE f \in files'
    BY <1>5, <2>1
  <2>2. CASE f \notin files'
    <3> DEFINE g == [f EXCEPT !.end = EndOf(c, f.table)]
    <3>1. Changed(c, t) /\ g \in files'
      BY <1>3, <1>5, <2>2 DEF NewFiles
    <3>2. f \in File
      BY <1>2
    <3>3. g.table = f.table /\ g.start = f.start /\ g.name = f.name /\ g.end = b + 1
      BY <1>5, <3>2 DEF File, EndOf
    <3>4. g.end > w
      <4> HIDE DEF b, g
      <4> QED BY <1>1, <3>1, <3>3
    <3> QED BY <1>5, <3>1, <3>3, <3>4
  <2> QED BY <2>1, <2>2
<1>6. \A n : n \in Content(t, w)' <=> n \in Content(t, w)
  BY <1>4, <1>5, InContent, InNextContent
<1> QED BY <1>6

LEMMA ContentNames ==
  ASSUME TInv', NEW t, NEW v
  PROVE  Content(t, v)' \subseteq Names
<1>1. \A f \in files' : f.name \in Names
  BY DEF TInv, TypeOK, File
<1> QED BY <1>1 DEF Content

LEMMA SnapsAre ==
  /\ DOMAIN Snaps = Tables
  /\ \A t \in Tables : DOMAIN Snaps[t] = vers[t] /\ \A v \in vers[t] : Snaps[t][v] = Content(t, v)
  /\ \A t \in Tables : DOMAIN Snaps'[t] = vers'[t]
                       /\ \A v \in vers'[t] : Snaps'[t][v] = Content(t, v)'
  BY DEF Snaps

\* A table whose versions and their files stay.
LEMMA SameSnaps ==
  ASSUME NEW t \in Tables, vers'[t] = vers[t],
         \A v \in vers[t] : Content(t, v)' = Content(t, v)
  PROVE  Snaps'[t] = Snaps[t]
  BY DEF Snaps

LEMMA SucceedLogs ==
  ASSUME HInv, TInv', NEW c \in Clients, Succeed(c)
  PROVE  Log!Next \/ UNCHANGED Snaps
<1> DEFINE T == {t \in Tables : Finals(c, t) # {}}
<1>1. Commit(c) /\ TInv /\ \A t \in Tables : ~Conflicts(c, t)
  BY DEF Succeed, HInv
<1>2. ASSUME NEW t \in T PROVE Log!Grows(t)
  <2> DEFINE v == base[c][t]
  <2>1. /\ v \in vers[t] /\ v + 1 \in Vids /\ \A w \in vers[t] : w <= v
        /\ vers'[t] = vers[t] \cup {v + 1}
    BY <1>1, OnNewest, Final
  <2>2. v \in 0..(MaxVid - 1)
    BY <2>1, TablesOK DEF HInv, TInv, TypeOK, Vids
  <2>3. Log!IsNewest(t, v)
    BY <2>1, SnapsAre DEF Log!IsNewest, Log!Versions
  <2>4. DOMAIN Snaps'[t] = DOMAIN Snaps[t] \cup {v + 1}
    BY <2>1, SnapsAre
  <2>5. Snaps'[t][v + 1] \subseteq Names
    BY <2>1, SnapsAre, ContentNames
  <2>6. \A w \in DOMAIN Snaps[t] : Snaps'[t][w] = Snaps[t][w]
    BY <1>1, <2>1, SnapsAre, CommitKeeps
  <2> HIDE DEF v
  <2> QED BY <2>2, <2>3, <2>4, <2>5, <2>6 DEF Log!Grows, Log!Versions
<1>3. ASSUME NEW t \in Tables \ T PROVE Snaps'[t] = Snaps[t]
  BY <1>1, NotFinal, CommitKeeps, SameSnaps
<1>4. CASE T = {}
  BY <1>3, <1>4 DEF Snaps
<1>5. CASE T # {}
  <2>1. Log!Commit(T)
    BY <1>2, <1>3 DEF Log!Commit
  <2> QED BY <1>5, <2>1 DEF Log!Next
<1> QED BY <1>4, <1>5

LEMMA CollectLogs ==
  ASSUME HInv, NEW t \in Tables, NEW v \in Vids, Collect(t, v)
  PROVE  Log!Next \/ UNCHANGED Snaps
<1>1. /\ v \notin head[t] /\ UNCHANGED files /\ vers' = [vers EXCEPT ![t] = @ \ {v}]
      /\ vers \in [Tables -> SUBSET Vids]
  BY DEF Collect, Collectable, HInv, TInv, TypeOK
<1>2. \A u, w : Content(u, w)' = Content(u, w)
  BY <1>1 DEF Content
<1>3. CASE v \notin vers[t]
  BY <1>1, <1>2, <1>3 DEF Snaps
<1>4. CASE v \in vers[t]
  <2>1. PICK h \in vers[t] : head[t] = {h} /\ \A w \in vers[t] : w <= h
    BY DEF HInv, HeadIsNewest
  <2>2. ~(h <= v)
    BY <1>1, <1>4, <2>1 DEF Vids
  <2>3. ~Log!IsNewest(t, v) /\ v \in DOMAIN Snaps[t]
    BY <1>4, <2>1, <2>2, SnapsAre DEF Log!IsNewest, Log!Versions
  <2>4. Snaps' = [Snaps EXCEPT ![t] = [w \in vers[t] \ {v} |-> Snaps[t][w]]]
    BY <1>1, <1>2 DEF Snaps
  <2>5. Log!Retire(t, v)
    BY <2>3, <2>4, SnapsAre DEF Log!Retire, Log!Versions
  <2> QED BY <2>5 DEF Log!Next, Vids
<1> QED BY <1>3, <1>4

LEMMA StepLogs ==
  ASSUME HInv, HInv', [Next]_vars
  PROVE  [Log!Next]_Snaps
<1>1. ASSUME UNCHANGED <<vers, files>> PROVE UNCHANGED Snaps
  BY <1>1 DEF Snaps, Content
<1>2. CASE UNCHANGED vars
  BY <1>1, <1>2 DEF vars, catalogVars
<1>3. ASSUME NEW c \in Clients, Client(c) PROVE UNCHANGED <<vers, files>>
  BY <1>3 DEF Client, GetTable, StartTransaction, Begin, AppendFiles, RewriteFiles, AddStmt,
              SendSingle, SendCommit, Resend, Sent, GiveUp, catalogVars
<1>4. ASSUME NEW c \in Clients, Refuse(c) PROVE UNCHANGED <<vers, files>>
  BY <1>4 DEF Refuse, catalogVars
<1>5. ASSUME NEW t \in Tables, NEW n \in RetainLast, Expire(t, n) PROVE UNCHANGED <<vers, files>>
  BY <1>5 DEF Expire
<1>6. TInv'
  BY DEF HInv
<1> QED BY <1>1, <1>2, <1>3, <1>4, <1>5, <1>6, SucceedLogs, CollectLogs DEF Next

\* On the same terms the tables are the logs TableLog promises: every commit adds the
\* next snapshot to each table it writes in one step, no snapshot ever changes, and
\* only those that are not the newest disappear.
THEOREM TablesAreLogs == Careful => (Spec => ImplementsTableLog)
<1> SUFFICES ASSUME Careful PROVE Spec => Log!Spec
  BY DEF ImplementsTableLog
<1>1. Init => Log!Init
  BY DEF Init, Log!Init, Snaps, Content
<1>2. HInv /\ [Next]_vars => HInv'
  BY StepHInv
<1>3. HInv /\ HInv' /\ [Next]_vars => [Log!Next]_Snaps
  BY StepLogs
<1> QED BY <1>1, <1>2, <1>3, InitHInv, PTL DEF Spec, Log!Spec

-----------------------------------------------------------------------------
(* Whoever is told no has changed nothing.                                  *)

\* The attempt c is in, or was in last, has left a file.
HasLanded(c) == \E f \in files : f.name = <<c, tries[c]>>

\* Files are those of attempts that were made.
NamesMade == \A f \in files, c \in Clients, k \in Nat : f.name = <<c, k>> => k <= tries[c]

\* An attempt leaves files only once its commit was sent and handled, and then the
\* client is told no only by a service that does not know.
Handled ==
    \A c \in Clients :
        /\ sends[c] = 0 => told[c] = "none" /\ (mode[c] # "idle" => ~HasLanded(c))
        /\ sends[c] = 1 /\ pending[c] = 1 => told[c] = "none" /\ ~HasLanded(c)
        /\ sends[c] = 1 /\ told[c] = "no" /\ ~unsure[c] => ~HasLanded(c)

NInv == TInv /\ NamesMade /\ Handled

LEMMA InitNInv == Init => NInv
  BY InitTInv DEF Init, NInv, NamesMade, Handled, HasLanded

\* A commit adds no file but those of its own attempt.
LEMMA CommitNames ==
  ASSUME TInv, NEW c \in Clients, Commit(c), NEW g \in files'
  PROVE  g.name = <<c, tries[c]>> \/ \E f \in files : g.name = f.name
<1>1. files' = NewFiles(c)
  BY DEF Commit
<1>2. CASE g \in files
  BY <1>2
<1>3. ASSUME NEW f \in files, g = [f EXCEPT !.end = EndOf(c, f.table)]
      PROVE  g.name = f.name
  <2>1. f \in File
    BY DEF TInv, TypeOK
  <2> QED BY <1>3, <2>1 DEF File
<1>4. ASSUME NEW t \in Tables,
             g = [table |-> t, name |-> <<c, tries[c]>>, start |-> StartOf(c, t), end |-> Open]
      PROVE  g.name = <<c, tries[c]>>
  BY <1>4
<1> QED BY <1>1, <1>2, <1>3, <1>4 DEF NewFiles

LEMMA ReadNInv ==
  ASSUME NInv, TInv', NEW c \in Clients, CanBegin(c), NEW m, NEW b, Begin(c, m, b)
  PROVE  NInv'
<1>1. /\ tries' = [tries EXCEPT ![c] = @ + 1] /\ UNCHANGED <<files, sends, pending, told, unsure>>
      /\ sends[c] = 0 /\ tries[c] \in Nat
      /\ \A d \in Clients : d # c => mode'[d] = mode[d] /\ tries'[d] = tries[d]
      /\ tries'[c] = tries[c] + 1
  BY DEF Begin, CanBegin, catalogVars, NInv, TInv, TypeOK, AtWork
<1>2. NamesMade'
  <2> SUFFICES ASSUME NEW f \in files, NEW d \in Clients, NEW k \in Nat, f.name = <<d, k>>
               PROVE  k <= tries'[d]
    BY <1>1 DEF NamesMade
  <2>1. k <= tries[d]
    BY DEF NInv, NamesMade
  <2> QED BY <1>1, <2>1
<1>3. ~HasLanded(c)'
  <2> SUFFICES ASSUME NEW f \in files, f.name = <<c, tries[c] + 1>> PROVE FALSE
    BY <1>1 DEF HasLanded
  <2>1. tries[c] + 1 <= tries[c]
    BY <1>1 DEF NInv, NamesMade
  <2> QED BY <1>1, <2>1
<1>4. \A d \in Clients : d # c => (HasLanded(d)' <=> HasLanded(d))
  BY <1>1 DEF HasLanded
<1>5. Handled'
  BY <1>1, <1>3, <1>4 DEF NInv, Handled
<1> QED BY <1>2, <1>5 DEF NInv

LEMMA SentNInv ==
  ASSUME NInv, TInv', NEW c \in Clients, mode[c] # "idle",
         sends[c] = 0 \/ (sends[c] >= 1 /\ told[c] = "none"), Sent(c)
  PROVE  NInv'
<1>1. /\ UNCHANGED <<files, tries, mode, told, unsure>>
      /\ \A d \in Clients : d # c => sends'[d] = sends[d] /\ pending'[d] = pending[d]
      /\ sends'[c] = sends[c] + 1 /\ sends[c] \in Nat
  BY DEF Sent, catalogVars, NInv, TInv, TypeOK
<1>2. NamesMade' /\ \A d \in Clients : HasLanded(d)' <=> HasLanded(d)
  BY <1>1 DEF NInv, NamesMade, HasLanded
<1>3. Handled'
  BY <1>1, <1>2 DEF NInv, Handled
<1> QED BY <1>2, <1>3 DEF NInv

LEMMA QuietNInv ==
  ASSUME NInv, TInv', UNCHANGED <<files, tries, mode, sends, pending, told, unsure>>
  PROVE  NInv'
<1>1. NamesMade' /\ \A d \in Clients : HasLanded(d)' <=> HasLanded(d)
  BY DEF NInv, NamesMade, HasLanded
<1> QED BY <1>1 DEF NInv, Handled

LEMMA GiveUpNInv ==
  ASSUME NInv, TInv', NEW c \in Clients, GiveUp(c)
  PROVE  NInv'
<1>1. /\ UNCHANGED <<files, tries>> /\ sends'[c] = 0 /\ told'[c] = "none" /\ mode'[c] = "idle"
      /\ \A d \in Clients : d # c => UNCHANGED <<sends[d], pending[d], mode[d], told[d], unsure[d]>>
  BY DEF GiveUp, catalogVars, NInv, TInv, TypeOK
<1>2. NamesMade' /\ \A d \in Clients : HasLanded(d)' <=> HasLanded(d)
  BY <1>1 DEF NInv, NamesMade, HasLanded
<1>3. Handled'
  BY <1>1, <1>2 DEF NInv, Handled
<1> QED BY <1>2, <1>3 DEF NInv

\* The service handles a request; no other attempt gets a file by it.
LEMMA AnswerNInv ==
  ASSUME NInv, TInv', NEW c \in Clients, pending[c] > 0, NEW a \in {"yes", "no"}, Answer(c, a),
         \A d \in Clients : d # c => unsure'[d] = unsure[d],
         \A g \in files' : g.name = <<c, tries[c]>> \/ \E f \in files : g.name = f.name,
         a = "no" /\ ~unsure'[c] => (HasLanded(c)' <=> HasLanded(c))
  PROVE  NInv'
<1>1. /\ UNCHANGED <<tries, mode, sends>>
      /\ \A d \in Clients : d # c => pending'[d] = pending[d] /\ told'[d] = told[d]
      /\ pending'[c] = pending[c] - 1 /\ told'[c] \in {told[c], IF told[c] = "none" THEN a ELSE told[c]}
      /\ sends[c] \in Nat /\ pending[c] \in Nat /\ pending[c] <= sends[c]
      /\ \A d \in Clients : tries[d] \in Nat
  BY DEF Answer, NInv, TInv, TypeOK
<1>2. NamesMade'
  <2> SUFFICES ASSUME NEW g \in files', NEW d \in Clients, NEW k \in Nat, g.name = <<d, k>>
               PROVE  k <= tries[d]
    BY <1>1 DEF NamesMade
  <2> QED BY <1>1 DEF NInv, NamesMade
<1>3. \A d \in Clients : d # c /\ HasLanded(d)' => HasLanded(d)
  BY <1>1 DEF HasLanded
<1>4. sends[c] # 0 /\ (sends[c] = 1 => pending[c] = 1 /\ pending'[c] = 0)
  BY <1>1
<1>5. sends[c] = 1 => told[c] = "none" /\ ~HasLanded(c)
  BY <1>4 DEF NInv, Handled
<1>6. sends[c] = 1 /\ told'[c] = "no" /\ ~unsure'[c] => ~HasLanded(c)'
  BY <1>1, <1>5
<1>7. Handled'
  BY <1>1, <1>3, <1>4, <1>6 DEF NInv, Handled
<1> QED BY <1>2, <1>7 DEF NInv

LEMMA SucceedNInv ==
  ASSUME NInv, TInv', NEW c \in Clients, Succeed(c)
  PROVE  NInv'
<1>1. \A g \in files' : g.name = <<c, tries[c]>> \/ \E f \in files : g.name = f.name
  BY CommitNames DEF Succeed, NInv
<1>2. pending[c] > 0 /\ \A d \in Clients : d # c => unsure'[d] = unsure[d]
  BY DEF Succeed, NInv, TInv, TypeOK
<1>3. CASE Answer(c, "yes")
  BY <1>1, <1>2, <1>3, AnswerNInv
<1>4. CASE Answer(c, "no") /\ unsure' = [unsure EXCEPT ![c] = TRUE]
  <2>1. unsure'[c]
    BY <1>4 DEF NInv, TInv, TypeOK
  <2> QED BY <1>1, <1>2, <1>4, <2>1, AnswerNInv
<1> QED BY <1>3, <1>4 DEF Succeed

LEMMA RefuseNInv ==
  ASSUME NInv, TInv', NEW c \in Clients, Refuse(c)
  PROVE  NInv'
<1>1. /\ pending[c] > 0 /\ Answer(c, "no") /\ UNCHANGED <<files, unsure, tries>>
  BY DEF Refuse, Answer, catalogVars
<1>2. HasLanded(c)' <=> HasLanded(c)
  BY <1>1 DEF HasLanded
<1> QED BY <1>1, <1>2, AnswerNInv

LEMMA ClientNInv ==
  ASSUME NInv, TInv', NEW c \in Clients, Client(c)
  PROVE  NInv'
<1>1. ASSUME NEW t \in Tables, GetTable(c, t) PROVE NInv'
  BY <1>1, ReadNInv DEF GetTable
<1>2. ASSUME NEW T \in SUBSET Tables, StartTransaction(c, T) PROVE NInv'
  BY <1>2, ReadNInv DEF StartTransaction
<1>3. ASSUME NEW s \in Stmt, AddStmt(c, s) PROVE NInv'
  BY <1>3, QuietNInv DEF AddStmt, catalogVars
<1>4. ASSUME NEW s \in Stmt, SendSingle(c, s) PROVE NInv'
  <2>1. mode[c] # "idle" /\ sends[c] = 0 /\ Sent(c)
    BY <1>4 DEF SendSingle
  <2> QED BY <2>1, SentNInv
<1>5. CASE SendCommit(c)
  <2>1. mode[c] # "idle" /\ sends[c] = 0 /\ Sent(c)
    BY <1>5 DEF SendCommit
  <2> QED BY <2>1, SentNInv
<1>6. CASE Resend(c)
  <2>1. mode[c] # "idle" /\ sends[c] >= 1 /\ told[c] = "none" /\ Sent(c)
    BY <1>6, TablesOK DEF Resend, NInv, TInv, TypeOK, AtWork
  <2> QED BY <2>1, SentNInv
<1>7. CASE GiveUp(c)
  BY <1>7, GiveUpNInv
<1> QED BY <1>1, <1>2, <1>3, <1>4, <1>5, <1>6, <1>7 DEF Client, AppendFiles, RewriteFiles

LEMMA StepNInv == NInv /\ [Next]_vars => NInv'
<1> SUFFICES ASSUME NInv, [Next]_vars PROVE NInv'
  OBVIOUS
<1>1. TInv'
  BY StepTInv DEF NInv
<1>2. CASE UNCHANGED vars
  BY <1>1, <1>2, QuietNInv DEF vars, catalogVars, clientVars
<1>3. ASSUME NEW t \in Tables, NEW n \in RetainLast, Expire(t, n) PROVE NInv'
  BY <1>1, <1>3, QuietNInv DEF Expire, clientVars
<1>4. ASSUME NEW t \in Tables, NEW v \in Vids, Collect(t, v) PROVE NInv'
  BY <1>1, <1>4, QuietNInv DEF Collect, clientVars
<1> QED BY <1>1, <1>2, <1>3, <1>4, ClientNInv, SucceedNInv, RefuseNInv DEF Next

\* However many clients and tables, and wherever versions are collected: a commit that
\* was sent once and refused has left no file, unless its result was lost.
THEOREM RefusalsChangeNothing == Spec => []NoMeansNothing
<1>1. NInv => NoMeansNothing
  BY DEF NInv, Handled, HasLanded, NoMeansNothing, Landed
<1> QED BY <1>1, InitNInv, StepNInv, PTL DEF Spec
-----------------------------------------------------------------------------
(* What clients are told: a commit lands once, in all of its tables, and    *)
(* whoever is told yes finds it there.                                      *)
(*                                                                          *)
(* A file that landed starts at the version after the one its client worked *)
(* on, and that version is there.  So neither the same commit sent again    *)
(* nor another one can add the file a second time.                          *)

\* No version is collected under a client at work, and statements come in the order
\* the service means them to.
Orderly == ~LateClients /\ Misuse = {}

\* What is sent has a final statement for each table, after those that prepare it.
Finished == \A c \in Clients, t \in Tables : sends[c] > 0 /\ On(c, t) # {} => Finals(c, t) # {}
Ordered == \A c \in Clients, t \in Tables : \A k \in On(c, t), j \in Finals(c, t) :
               stmts[c][k].prepare => k <= j

\* No attempt replaces the file it adds.
DropsOthers == \A c \in Clients : \A k \in DOMAIN stmts[c] : <<c, tries[c]>> \notin stmts[c][k].drop

UniqueFiles == \A f, g \in files : f.table = g.table /\ f.name = g.name => f = g

\* The version next to the one a client works on is there.
HasNext(c, t) == base[c][t] # None /\ base[c][t] + 1 \in vers[t]

\* Files start at versions that are there, or were before a newer one,
StartsKnown == \A f \in files : \E w \in vers[f.table] : f.start <= w

\* and those of the attempt a client is in at its next version.
Placed ==
    \A c \in Clients, f \in files : mode[c] # "idle" /\ f.name = <<c, tries[c]>> =>
        HasNext(c, f.table) /\ f.start = base[c][f.table] + 1

\* All files of a commit landed or none.
Together ==
    \A c \in Clients : sends[c] > 0 =>
        \A t, u \in Asked(c) : Landed(c, t) = {} <=> Landed(c, u) = {}

\* Each table c writes has its changes.
Done(c) ==
    \A t \in Tables : On(c, t) # {} =>
        /\ HasNext(c, t)
        /\ t \in Asked(c) => Landed(c, t) # {}
        /\ \A k \in On(c, t) : stmts[c][k].drop \cap Content(t, base[c][t] + 1) = {}

YesIsDone == \A c \in Clients : told[c] = "yes" => Done(c)

StmtInv == Finished /\ Ordered /\ DropsOthers
FileInv == UniqueFiles /\ StartsKnown /\ Placed
Answers == StmtInv /\ FileInv /\ Together /\ YesIsDone
AInv == HInv /\ NInv /\ Answers

LEMMA InitAInv == Init => AInv
<1> SUFFICES ASSUME Init PROVE AInv
  OBVIOUS
<1>1. HInv /\ NInv
  BY InitHInv, InitNInv
<1>2. StmtInv
  BY DEF Init, StmtInv, Finished, Ordered, DropsOthers, On
<1>3. FileInv
  BY DEF Init, FileInv, UniqueFiles, StartsKnown, Placed
<1>4. Together /\ YesIsDone
  BY DEF Init, Together, YesIsDone
<1> QED BY <1>1, <1>2, <1>3, <1>4 DEF AInv, Answers

-----------------------------------------------------------------------------
(* Steps that leave files alone.                                            *)

\* What is said of a client stays true as long as it does.
LEMMA SameClient ==
  ASSUME NEW c \in Clients, UNCHANGED <<vers, files, tries[c], base[c], stmts[c]>>
  PROVE  /\ \A t : On(c, t)' = On(c, t) /\ Finals(c, t)' = Finals(c, t)
         /\ Asked(c)' = Asked(c)
         /\ \A t : Landed(c, t)' = Landed(c, t) /\ (HasNext(c, t)' <=> HasNext(c, t))
         /\ Done(c)' <=> Done(c)
<1>1. \A t : On(c, t)' = On(c, t)
  BY DEF On
<1>2. \A t : Finals(c, t)' = Finals(c, t)
  BY <1>1 DEF Finals
<1>3. Asked(c)' = Asked(c)
  BY <1>1 DEF Asked
<1>4. \A t : Landed(c, t)' = Landed(c, t) /\ (HasNext(c, t)' <=> HasNext(c, t))
  BY DEF Landed, HasNext
<1>5. \A t : Content(t, base[c][t] + 1)' = Content(t, base[c][t] + 1)
  BY DEF Content
<1>6. Done(c)' <=> Done(c)
  BY <1>1, <1>3, <1>4, <1>5 DEF Done
<1> QED BY <1>1, <1>2, <1>3, <1>4, <1>6

LEMMA QuietAnswers ==
  ASSUME Answers, UNCHANGED <<vers, files, tries, mode, base, stmts>>,
         \A d \in Clients : /\ sends'[d] > 0 => sends[d] > 0
                            /\ told'[d] = "yes" => told[d] = "yes"
  PROVE  Answers'
<1>1. StmtInv'
  BY SameClient DEF Answers, StmtInv, Finished, Ordered, DropsOthers
<1>2. FileInv'
  BY SameClient DEF Answers, FileInv, UniqueFiles, StartsKnown, Placed
<1>3. Together' /\ YesIsDone'
  BY SameClient DEF Answers, Together, YesIsDone
<1> QED BY <1>1, <1>2, <1>3 DEF Answers

\* A client that has sent nothing in its attempt has been told nothing.
LEMMA SentNothing ==
  ASSUME TypeOK, Handled, NEW c \in Clients, sends[c] = 0
  PROVE  told[c] = "none" /\ (mode[c] # "idle" => \A t : Landed(c, t) = {})
  BY DEF Handled, HasLanded, Landed

\* A client begins, ends or prepares an attempt that has left no file.
LEMMA WriteAnswers ==
  ASSUME Answers, NEW c \in Clients, UNCHANGED <<vers, files>>,
         \A d \in Clients : d # c =>
             UNCHANGED <<tries[d], mode[d], base[d], stmts[d], sends[d], told[d]>>,
         told'[c] # "yes",
         \A f \in files : mode'[c] # "idle" => f.name # <<c, tries'[c]>>,
         sends'[c] > 0 => mode'[c] # "idle",
         \A t \in Tables : sends'[c] > 0 /\ On(c, t)' # {} => Finals(c, t)' # {},
         \A t \in Tables : \A k \in On(c, t)', j \in Finals(c, t)' : stmts'[c][k].prepare => k <= j,
         \A k \in DOMAIN stmts'[c] : <<c, tries'[c]>> \notin stmts'[c][k].drop
  PROVE  Answers'
<1>1. \A d \in Clients : d # c =>
        /\ \A t : On(d, t)' = On(d, t) /\ Finals(d, t)' = Finals(d, t)
        /\ Asked(d)' = Asked(d)
        /\ \A t : Landed(d, t)' = Landed(d, t) /\ (HasNext(d, t)' <=> HasNext(d, t))
        /\ Done(d)' <=> Done(d)
  BY SameClient
<1>2. StmtInv'
  <2>1. Finished'
    BY <1>1 DEF Answers, StmtInv, Finished
  <2>2. Ordered'
    BY <1>1 DEF Answers, StmtInv, Ordered
  <2>3. DropsOthers'
    BY <1>1 DEF Answers, StmtInv, DropsOthers
  <2> QED BY <2>1, <2>2, <2>3 DEF StmtInv
<1>3. UniqueFiles' /\ StartsKnown'
  BY DEF Answers, FileInv, UniqueFiles, StartsKnown
<1>4. Placed'
  BY <1>1 DEF Answers, FileInv, Placed
<1>5. Together'
  <2>1. sends'[c] > 0 => \A t : Landed(c, t)' = {}
    BY DEF Landed
  <2> QED BY <1>1, <2>1 DEF Answers, Together
<1>6. YesIsDone'
  BY <1>1 DEF Answers, YesIsDone
<1> QED BY <1>2, <1>3, <1>4, <1>5, <1>6 DEF Answers, FileInv

LEMMA BeginAnswers ==
  ASSUME AInv, NEW c \in Clients, CanBegin(c), NEW m, NEW b, Begin(c, m, b)
  PROVE  Answers'
<1>1. /\ stmts'[c] = <<>> /\ sends'[c] = 0 /\ told'[c] = "none"
      /\ tries'[c] = tries[c] + 1 /\ tries[c] \in Nat
      /\ UNCHANGED <<vers, files>>
      /\ \A d \in Clients : d # c =>
           UNCHANGED <<tries[d], mode[d], base[d], stmts[d], sends[d], told[d]>>
  BY DEF Begin, CanBegin, AInv, HInv, TInv, TypeOK, AtWork, NInv, Handled, catalogVars
<1>2. \A f \in files : f.name # <<c, tries'[c]>>
  <2> SUFFICES ASSUME NEW f \in files, f.name = <<c, tries[c] + 1>> PROVE FALSE
    BY <1>1
  <2>1. tries[c] + 1 <= tries[c]
    BY <1>1 DEF AInv, NInv, NamesMade
  <2> QED BY <1>1, <2>1
<1>3. \A t : On(c, t)' = {} /\ Finals(c, t)' = {}
  BY <1>1 DEF On, Finals
<1>4. DOMAIN stmts'[c] = {} /\ ~(sends'[c] > 0) /\ told'[c] # "yes"
  BY <1>1
<1> QED BY <1>1, <1>2, <1>3, <1>4, WriteAnswers DEF AInv

LEMMA GiveUpAnswers ==
  ASSUME AInv, NEW c \in Clients, GiveUp(c)
  PROVE  Answers'
<1>1. /\ stmts'[c] = <<>> /\ sends'[c] = 0 /\ told'[c] = "none" /\ mode'[c] = "idle"
      /\ UNCHANGED <<vers, files>>
      /\ \A d \in Clients : d # c =>
           UNCHANGED <<tries[d], mode[d], base[d], stmts[d], sends[d], told[d]>>
  BY DEF GiveUp, AInv, HInv, TInv, TypeOK, catalogVars
<1>2. \A t : On(c, t)' = {} /\ Finals(c, t)' = {}
  BY <1>1 DEF On, Finals
<1>3. DOMAIN stmts'[c] = {} /\ ~(sends'[c] > 0) /\ told'[c] # "yes"
  BY <1>1
<1> QED BY <1>1, <1>2, <1>3, WriteAnswers DEF AInv

\* The version a client works on and the next one are not collected.
LEMMA CollectAnswers ==
  ASSUME Orderly, AInv, NEW t \in Tables, NEW v \in Vids, Collect(t, v)
  PROVE  Answers'
<1>1. /\ UNCHANGED <<files, tries, mode, base, stmts, sends, told>>
      /\ vers' = [vers EXCEPT ![t] = @ \ {v}] /\ vers \in [Tables -> SUBSET Vids]
      /\ v \notin head[t] /\ \A c \in Clients : base[c][t] = None \/ v < base[c][t]
  BY DEF Collect, Collectable, Orderly, clientVars, AInv, HInv, TInv, TypeOK
<1>2. \A c \in Clients, u \in Tables : HasNext(c, u) => HasNext(c, u)'
  <2> SUFFICES ASSUME NEW c \in Clients, NEW u \in Tables, HasNext(c, u) PROVE HasNext(c, u)'
    OBVIOUS
  <2>1. base[c][u] \in Int /\ v \in Int
    BY TablesOK DEF AInv, HInv, TInv, TypeOK, None, Vids
  <2>2. u = t => v # base[c][u] + 1
    BY <1>1, <2>1 DEF HasNext
  <2> QED BY <1>1, <2>2 DEF HasNext
<1>3. \A c \in Clients : \A u : /\ On(c, u)' = On(c, u) /\ Finals(c, u)' = Finals(c, u)
                                /\ Landed(c, u)' = Landed(c, u)
  BY <1>1 DEF On, Finals, Landed
<1>4. \A c \in Clients : Asked(c)' = Asked(c)
  BY <1>1, <1>3 DEF Asked
<1>5. \A u, w : Content(u, w)' = Content(u, w)
  BY <1>1 DEF Content
<1>6. StmtInv' /\ Together'
  BY <1>1, <1>3, <1>4 DEF AInv, Answers, StmtInv, Finished, Ordered, DropsOthers, Together
<1>7. StartsKnown'
  <2> SUFFICES ASSUME NEW f \in files PROVE \E w \in vers'[f.table] : f.start <= w
    BY <1>1 DEF StartsKnown
  <2>1. PICK w \in vers[f.table] : f.start <= w
    BY DEF AInv, Answers, FileInv, StartsKnown
  <2>2. f.table \in Tables /\ f.start \in Nat
    BY DEF AInv, HInv, TInv, TypeOK, File
  <2>3. PICK h \in vers[f.table] : head[f.table] = {h} /\ \A u \in vers[f.table] : u <= h
    BY <2>2 DEF AInv, HInv, HeadIsNewest
  <2>4. h \in vers'[f.table] /\ f.start <= h
    BY <1>1, <2>1, <2>2, <2>3 DEF Vids
  <2> QED BY <2>4
<1>8. UniqueFiles' /\ Placed'
  <2>1. \A f \in files : f.table \in Tables
    BY DEF AInv, HInv, TInv, TypeOK, File
  <2> QED BY <1>1, <1>2, <2>1 DEF AInv, Answers, FileInv, UniqueFiles, Placed
<1>9. YesIsDone'
  <2>1. \A c \in Clients : Done(c) => Done(c)'
    BY <1>1, <1>2, <1>3, <1>4, <1>5 DEF Done
  <2> QED BY <1>1, <2>1 DEF AInv, Answers, YesIsDone
<1> QED BY <1>6, <1>7, <1>8, <1>9 DEF Answers, FileInv

\* What a client may ask for replaces no file of its attempt.
LEMMA SensibleDrops ==
  ASSUME AInv, NEW c \in Clients, mode[c] # "idle", sends[c] = 0, NEW s \in Stmt, Sensible(c, s)
  PROVE  <<c, tries[c]>> \notin s.drop
<1>1. s.drop \subseteq Content(s.table, base[c][s.table])
  BY DEF Sensible
<1>2. \A f \in files : f.name # <<c, tries[c]>>
  BY DEF AInv, NInv, Handled, HasLanded
<1> QED BY <1>1, <1>2 DEF Content

LEMMA AddStmtAnswers ==
  ASSUME Orderly, AInv, NEW c \in Clients, NEW s \in Stmt, AddStmt(c, s)
  PROVE  Answers'
<1>1. /\ stmts'[c] = Append(stmts[c], s) /\ sends'[c] = 0 /\ sends[c] = 0 /\ told'[c] = "none"
      /\ UNCHANGED <<vers, files, tries, mode, base, sends, told>> /\ mode[c] # "idle"
      /\ \A d \in Clients : d # c => stmts'[d] = stmts[d]
      /\ stmts[c] \in Seq(Stmt)
      /\ Sensible(c, s)
  BY DEF AddStmt, AInv, HInv, TInv, TypeOK, NInv, Handled, catalogVars
<1> DEFINE n == Len(stmts[c])
<1>2. /\ n \in Nat /\ DOMAIN stmts[c] = 1..n /\ DOMAIN stmts'[c] = 1..(n + 1)
      /\ \A k \in 1..n : stmts'[c][k] = stmts[c][k]
      /\ stmts'[c][n + 1] = s
  BY <1>1
<1> HIDE DEF n
<1>3. \A k \in DOMAIN stmts'[c] : <<c, tries'[c]>> \notin stmts'[c][k].drop
  <2>1. <<c, tries[c]>> \notin s.drop
    BY <1>1, SensibleDrops
  <2>2. \A k \in 1..n : <<c, tries[c]>> \notin stmts[c][k].drop
    BY <1>2 DEF AInv, Answers, StmtInv, DropsOthers
  <2>3. \A k \in 1..(n + 1) : k \in 1..n \/ k = n + 1
    BY <1>2
  <2> QED BY <1>1, <1>2, <2>1, <2>2, <2>3
<1>4. ASSUME NEW t \in Tables, NEW k \in On(c, t)', NEW j \in Finals(c, t)', stmts'[c][k].prepare
      PROVE  k <= j
  <2>1. /\ k \in 1..(n + 1) /\ stmts'[c][k].table = t
        /\ j \in 1..(n + 1) /\ stmts'[c][j].table = t /\ ~stmts'[c][j].prepare
    BY <1>2, <1>4 DEF On, Finals
  <2>2. CASE j = n + 1
    BY <2>1, <2>2, <1>2
  <2>3. CASE j \in 1..n
    <3>1. j \in Finals(c, t)
      BY <1>2, <2>1, <2>3 DEF On, Finals
    <3>2. k \in 1..n
      BY <1>1, <1>2, <1>4, <2>1, <3>1 DEF Sensible, Orderly
    <3>3. k \in On(c, t)
      BY <1>2, <2>1, <3>2 DEF On
    <3> QED BY <1>2, <1>4, <3>1, <3>2, <3>3 DEF AInv, Answers, StmtInv, Ordered
  <2> QED BY <2>1, <2>2, <2>3, <1>2
<1>5. \A f \in files : f.name # <<c, tries'[c]>>
  BY <1>1 DEF AInv, NInv, Handled, HasLanded
<1>6. ~(sends'[c] > 0) /\ told'[c] # "yes"
  BY <1>1
<1>7. \A d \in Clients : d # c =>
        UNCHANGED <<tries[d], mode[d], base[d], stmts[d], sends[d], told[d]>>
  BY <1>1
<1>8. Answers
  BY DEF AInv
<1> QED BY <1>1, <1>3, <1>4, <1>5, <1>6, <1>7, <1>8, WriteAnswers

\* A commit is sent for the first time.
LEMMA SendAnswers ==
  ASSUME AInv, NEW c \in Clients, mode[c] # "idle", sends[c] = 0, Sent(c),
         \A d \in Clients : d # c => stmts'[d] = stmts[d],
         \A t \in Tables : On(c, t)' # {} => Finals(c, t)' # {},
         \A t \in Tables : \A k \in On(c, t)', j \in Finals(c, t)' : stmts'[c][k].prepare => k <= j,
         \A k \in DOMAIN stmts'[c] : <<c, tries[c]>> \notin stmts'[c][k].drop
  PROVE  Answers'
<1>1. /\ told'[c] # "yes" /\ UNCHANGED <<vers, files, tries>> /\ mode'[c] # "idle"
      /\ \A d \in Clients : d # c =>
           UNCHANGED <<tries[d], mode[d], base[d], stmts[d], sends[d], told[d]>>
  BY DEF Sent, AInv, HInv, TInv, TypeOK, NInv, Handled, catalogVars
<1>2. \A f \in files : f.name # <<c, tries'[c]>>
  BY <1>1 DEF AInv, NInv, Handled, HasLanded
<1>3. Answers
  BY DEF AInv
<1> QED BY <1>1, <1>2, <1>3, WriteAnswers

LEMMA SendSingleAnswers ==
  ASSUME AInv, NEW c \in Clients, NEW s \in Stmt, SendSingle(c, s)
  PROVE  Answers'
<1>1. /\ stmts'[c] = <<s>> /\ ~s.prepare /\ Sent(c) /\ mode[c] # "idle" /\ sends[c] = 0
      /\ \A d \in Clients : d # c => stmts'[d] = stmts[d]
      /\ Sensible(c, s)
  BY DEF SendSingle, AInv, HInv, TInv, TypeOK
<1>2. DOMAIN stmts'[c] = {1} /\ stmts'[c][1] = s
  BY <1>1
<1>3. \A t \in Tables : Finals(c, t)' = On(c, t)' /\ \A k \in On(c, t)' : ~stmts'[c][k].prepare
  BY <1>1, <1>2 DEF On, Finals
<1>4. <<c, tries[c]>> \notin s.drop
  BY <1>1, SensibleDrops
<1> QED BY <1>1, <1>2, <1>3, <1>4, SendAnswers

LEMMA SendCommitAnswers ==
  ASSUME Orderly, AInv, NEW c \in Clients, SendCommit(c)
  PROVE  Answers'
<1>1. /\ Sent(c) /\ mode[c] # "idle" /\ sends[c] = 0 /\ UNCHANGED stmts
      /\ \A t \in Tables : On(c, t) # {} => Finals(c, t) # {}
  BY DEF SendCommit, Orderly
<1>2. \A t \in Tables : On(c, t)' = On(c, t) /\ Finals(c, t)' = Finals(c, t)
  BY <1>1 DEF On, Finals
<1>3. \A k \in DOMAIN stmts[c] : <<c, tries[c]>> \notin stmts[c][k].drop
  BY DEF AInv, Answers, StmtInv, DropsOthers
<1>4. \A t \in Tables : \A k \in On(c, t), j \in Finals(c, t) : stmts[c][k].prepare => k <= j
  BY DEF AInv, Answers, StmtInv, Ordered
<1> QED BY <1>1, <1>2, <1>3, <1>4, SendAnswers

-----------------------------------------------------------------------------
(* A commit.                                                                *)

\* The file f after a commit of c, and the file the commit adds to t.
Ended(c, f) ==
    /\ Changed(c, f.table) /\ f.name \in Ending(c, f.table)
    /\ f.start <= base[c][f.table] /\ f.end > base[c][f.table]
After(c, f) == IF Ended(c, f) THEN [f EXCEPT !.end = EndOf(c, f.table)] ELSE f
Added(c, t) == [table |-> t, name |-> <<c, tries[c]>>, start |-> StartOf(c, t), end |-> Open]

LEMMA AfterKeeps ==
  ASSUME TInv, NEW c \in Clients, NEW f \in files
  PROVE  /\ f.table \in Tables
         /\ After(c, f).table = f.table /\ After(c, f).name = f.name /\ After(c, f).start = f.start
         /\ Ended(c, f) => After(c, f).end = base[c][f.table] + 1
<1>1. f \in File
  BY DEF TInv, TypeOK
<1> QED BY <1>1 DEF File, After, EndOf

LEMMA FilesAfter ==
  ASSUME TInv, NEW c \in Clients, Commit(c)
  PROVE  /\ \A f \in files : After(c, f) \in files'
         /\ \A t \in Tables : Changed(c, t) /\ AddsTo(c, t) => Added(c, t) \in files'
         /\ \A g \in files' : \/ \E f \in files : g = After(c, f)
                              \/ \E t \in Tables : Changed(c, t) /\ AddsTo(c, t) /\ g = Added(c, t)
<1>1. files' = NewFiles(c)
  BY DEF Commit
<1>2. \A f \in files : f.table \in Tables
  BY AfterKeeps
<1>3. ASSUME NEW f \in files PROVE After(c, f) \in NewFiles(c)
  BY <1>2 DEF After, Ended, NewFiles
<1>4. ASSUME NEW t \in Tables, Changed(c, t), AddsTo(c, t) PROVE Added(c, t) \in NewFiles(c)
  BY <1>4 DEF Added, NewFiles
<1>5. ASSUME NEW g \in NewFiles(c)
      PROVE  \/ \E f \in files : g = After(c, f)
             \/ \E t \in Tables : Changed(c, t) /\ AddsTo(c, t) /\ g = Added(c, t)
  <2>1. CASE g \in files /\ ~Ended(c, g)
    BY <2>1 DEF After
  <2>2. CASE \E f \in files : Ended(c, f) /\ g = [f EXCEPT !.end = EndOf(c, f.table)]
    BY <2>2 DEF After
  <2>3. CASE \E t \in Tables : Changed(c, t) /\ AddsTo(c, t) /\ g = Added(c, t)
    BY <2>3
  <2> QED BY <1>2, <2>1, <2>2, <2>3 DEF NewFiles, Ended, Added
<1> QED BY <1>1, <1>3, <1>4, <1>5

\* Each statement of a commit that meets no key takes effect.
LEMMA AllEffective ==
  ASSUME TInv, Ordered, NEW c \in Clients, NEW t \in Tables, Finals(c, t) # {}, ~Conflicts(c, t)
  PROVE  Effective(c, t) = On(c, t)
<1> DEFINE F == Finals(c, t)
<1>1. IsFiniteSet(F) /\ Cardinality(F) <= 1
  <2>1. DOMAIN stmts[c] = 1..Len(stmts[c]) /\ Len(stmts[c]) \in Nat
    BY DEF TInv, TypeOK
  <2>2. F \subseteq 1..Len(stmts[c])
    BY <2>1 DEF Finals, On
  <2>3. IsFiniteSet(1..Len(stmts[c]))
    BY <2>1, FS_Interval
  <2>4. IsFiniteSet(F)
    BY <2>2, <2>3, FS_Subset
  <2> QED BY <2>4, FS_CardinalityType DEF Conflicts
<1>2. \A j, k \in F : j = k
  <2> SUFFICES ASSUME NEW j \in F, NEW k \in F, j # k PROVE FALSE
    OBVIOUS
  <2> HIDE DEF F
  <2>1. IsFiniteSet(F \ {j}) /\ Cardinality(F \ {j}) = Cardinality(F) - 1
    BY <1>1, FS_RemoveElement
  <2>2. Cardinality(F \ {j}) = 0
    BY <1>1, <2>1, FS_CardinalityType
  <2>3. F \ {j} = {}
    BY <2>1, <2>2, FS_EmptySet
  <2> QED BY <2>3
<1>3. ASSUME NEW k \in On(c, t), NEW j \in F PROVE k <= j
  <2>1. k \in Nat /\ stmts[c][k] \in Stmt
    BY DEF On, TInv, TypeOK
  <2>2. CASE stmts[c][k].prepare
    BY <2>2 DEF Ordered
  <2>3. CASE ~stmts[c][k].prepare
    <3>1. k \in F
      BY <2>3 DEF Finals
    <3>2. k = j
      BY <1>2, <3>1
    <3> QED BY <2>1, <3>2
  <2> QED BY <2>2, <2>3
<1> QED BY <1>3 DEF Effective

\* What a commit that succeeds finds in a table its client writes, and leaves there.
LEMMA Written ==
  ASSUME AInv, NEW c \in Clients, Succeed(c), NEW t \in Tables, On(c, t) # {}
  PROVE  /\ base[c][t] \in Nat /\ \A w \in vers[t] : w <= base[c][t]
         /\ Changed(c, t) /\ Effective(c, t) = On(c, t) /\ HasNext(c, t)'
<1>1. /\ Commit(c) /\ ~Conflicts(c, t) /\ pending[c] > 0 /\ UNCHANGED base
  BY DEF Succeed, Answer
<1>2. Finals(c, t) # {}
  <2>1. sends[c] > 0
    BY <1>1 DEF AInv, HInv, TInv, TypeOK
  <2> QED BY <2>1 DEF AInv, Answers, StmtInv, Finished
<1>3. Effective(c, t) = On(c, t)
  BY <1>1, <1>2, AllEffective DEF AInv, HInv, Answers, StmtInv
<1>4. base[c][t] \in vers[t] /\ \A w \in vers[t] : w <= base[c][t]
  BY <1>1, <1>2, OnNewest DEF AInv
<1>5. base[c][t] + 1 \in vers'[t]
  BY <1>1, <1>2, Final DEF AInv
<1>6. base[c][t] \in Nat
  BY <1>4 DEF AInv, HInv, TInv, TypeOK, Vids
<1> QED BY <1>1, <1>3, <1>4, <1>5, <1>6 DEF Changed, Current, HasNext, None

LEMMA CommitVers ==
  ASSUME AInv, NEW c \in Clients, Succeed(c), NEW t \in Tables
  PROVE  vers[t] \subseteq vers'[t]
<1>1. Commit(c) /\ ~Conflicts(c, t)
  BY DEF Succeed
<1>2. CASE Finals(c, t) = {}
  BY <1>1, <1>2, NotFinal DEF AInv, HInv
<1>3. CASE Finals(c, t) # {}
  BY <1>1, <1>3, Final DEF AInv
<1> QED BY <1>2, <1>3

\* A table a commit adds a file to is one its client writes, and has no such file yet.
LEMMA Adding ==
  ASSUME AInv, NEW c \in Clients, Succeed(c), NEW t \in Tables, Changed(c, t), AddsTo(c, t)
  PROVE  /\ base[c][t] \in Nat /\ HasNext(c, t)'
         /\ Added(c, t).table = t /\ Added(c, t).name = <<c, tries[c]>>
         /\ Added(c, t).start = base[c][t] + 1
         /\ \A f \in files : f.table = t => f.name # <<c, tries[c]>>
<1>1. On(c, t) # {}
  BY DEF Changed, Effective
<1>2. base[c][t] \in Nat /\ HasNext(c, t)' /\ \A w \in vers[t] : w <= base[c][t]
  BY <1>1, Written
<1>3. mode[c] # "idle"
  <2>1. pending[c] > 0 /\ pending[c] <= sends[c] /\ sends[c] \in Nat /\ pending[c] \in Nat
    BY DEF Succeed, AInv, HInv, TInv, TypeOK
  <2> QED BY <2>1 DEF AInv, HInv, TInv, AtWork
<1>4. ASSUME NEW f \in files, f.table = t, f.name = <<c, tries[c]>> PROVE FALSE
  <2>1. base[c][t] + 1 \in vers[t]
    BY <1>3, <1>4 DEF AInv, Answers, FileInv, Placed, HasNext
  <2> QED BY <1>2, <2>1
<1> QED BY <1>2, <1>4 DEF Added, StartOf

LEMMA SucceedFileInv ==
  ASSUME AInv, NEW c \in Clients, Succeed(c)
  PROVE  FileInv'
<1>1. Commit(c) /\ TInv /\ UNCHANGED <<tries, mode, base>>
  BY DEF Succeed, Answer, AInv, HInv
<1>2. \A g \in files' : \/ \E f \in files : g = After(c, f)
                        \/ \E t \in Tables : Changed(c, t) /\ AddsTo(c, t) /\ g = Added(c, t)
  BY <1>1, FilesAfter
<1>3. \A d \in Clients, t \in Tables : HasNext(d, t) => HasNext(d, t)'
  BY <1>1, CommitVers DEF HasNext
<1>4. UniqueFiles'
  <2> SUFFICES ASSUME NEW g \in files', NEW h \in files', g.table = h.table, g.name = h.name
               PROVE  g = h
    BY DEF UniqueFiles
  <2>1. ASSUME NEW e \in files, NEW f \in files, g = After(c, e), h = After(c, f) PROVE g = h
    <3>1. e.table = f.table /\ e.name = f.name
      BY <1>1, <2>1, AfterKeeps
    <3> QED BY <2>1, <3>1 DEF AInv, Answers, FileInv, UniqueFiles
  <2>2. ASSUME NEW f \in files, NEW t \in Tables, Changed(c, t), AddsTo(c, t),
               After(c, f).table = Added(c, t).table, After(c, f).name = Added(c, t).name
        PROVE  FALSE
    BY <1>1, <2>2, AfterKeeps, Adding
  <2>3. ASSUME NEW t \in Tables, NEW u \in Tables, Changed(c, t), AddsTo(c, t),
               Changed(c, u), AddsTo(c, u), g = Added(c, t), h = Added(c, u)
        PROVE  g = h
    BY <2>3, Adding
  <2> QED BY <1>2, <2>1, <2>2, <2>3
<1>5. StartsKnown'
  <2> SUFFICES ASSUME NEW g \in files' PROVE \E w \in vers'[g.table] : g.start <= w
    BY DEF StartsKnown
  <2>1. ASSUME NEW f \in files, g = After(c, f) PROVE \E w \in vers'[g.table] : g.start <= w
    <3>1. f.table \in Tables /\ g.table = f.table /\ g.start = f.start
      BY <1>1, <2>1, AfterKeeps
    <3>2. PICK w \in vers[f.table] : f.start <= w
      BY DEF AInv, Answers, FileInv, StartsKnown
    <3> QED BY <3>1, <3>2, CommitVers
  <2>2. ASSUME NEW t \in Tables, Changed(c, t), AddsTo(c, t), g = Added(c, t)
        PROVE  \E w \in vers'[g.table] : g.start <= w
    <3>1. /\ g.table = t /\ g.start = base[c][t] + 1 /\ base[c][t] \in Nat
          /\ base[c][t] + 1 \in vers'[t]
      BY <1>1, <2>2, Adding DEF HasNext
    <3> QED BY <3>1
  <2> QED BY <1>2, <2>1, <2>2
<1>6. Placed'
  <2> SUFFICES ASSUME NEW d \in Clients, NEW g \in files', mode[d] # "idle", g.name = <<d, tries[d]>>
               PROVE  HasNext(d, g.table)' /\ g.start = base[d][g.table] + 1
    BY <1>1 DEF Placed
  <2>1. ASSUME NEW f \in files, g = After(c, f)
        PROVE  HasNext(d, g.table)' /\ g.start = base[d][g.table] + 1
    <3>1. f.table \in Tables /\ g.table = f.table /\ g.start = f.start /\ f.name = <<d, tries[d]>>
      BY <1>1, <2>1, AfterKeeps
    <3>2. HasNext(d, f.table) /\ f.start = base[d][f.table] + 1
      BY <3>1 DEF AInv, Answers, FileInv, Placed
    <3> QED BY <1>3, <3>1, <3>2
  <2>2. ASSUME NEW t \in Tables, Changed(c, t), AddsTo(c, t), g = Added(c, t)
        PROVE  HasNext(d, g.table)' /\ g.start = base[d][g.table] + 1
    <3>1. d = c /\ g.table = t
      BY <2>2, Adding
    <3> QED BY <2>2, <3>1, Adding
  <2> QED BY <1>2, <2>1, <2>2
<1> QED BY <1>4, <1>5, <1>6 DEF FileInv

\* The files of an attempt after a commit of c: those of others stay, and each table c
\* adds to has one.
LEMMA SucceedLanded ==
  ASSUME AInv, NEW c \in Clients, Succeed(c)
  PROVE  /\ \A d \in Clients, t \in Tables : d # c => (Landed(d, t)' = {} <=> Landed(d, t) = {})
         /\ \A t \in Asked(c) : Landed(c, t)' # {}
<1>1. Commit(c) /\ TInv /\ UNCHANGED tries
  BY DEF Succeed, Answer, AInv, HInv
<1>2. ASSUME NEW d \in Clients, NEW t \in Tables, d # c
      PROVE  Landed(d, t)' = {} <=> Landed(d, t) = {}
  <2>1. ASSUME NEW f \in Landed(d, t) PROVE After(c, f) \in Landed(d, t)'
    <3>1. f \in files /\ f.table = t /\ f.name = <<d, tries[d]>>
      BY DEF Landed
    <3>2. After(c, f) \in files' /\ After(c, f).table = t /\ After(c, f).name = <<d, tries[d]>>
      BY <1>1, <3>1, AfterKeeps, FilesAfter
    <3> QED BY <1>1, <3>2 DEF Landed
  <2>2. ASSUME NEW g \in Landed(d, t)' PROVE \E f \in files : f \in Landed(d, t)
    <3>1. g \in files' /\ g.table = t /\ g.name = <<d, tries[d]>>
      BY <1>1 DEF Landed
    <3>2. \A u \in Tables : g # Added(c, u)
      BY <1>2, <3>1 DEF Added
    <3>3. PICK f \in files : g = After(c, f)
      BY <1>1, <3>1, <3>2, FilesAfter
    <3>4. f.table = t /\ f.name = <<d, tries[d]>>
      BY <1>1, <3>1, <3>3, AfterKeeps
    <3> QED BY <3>4 DEF Landed
  <2> QED BY <2>1, <2>2
<1>3. ASSUME NEW t \in Asked(c) PROVE Landed(c, t)' # {}
  <2>1. t \in Tables /\ \E k \in On(c, t) : stmts[c][k].add
    BY DEF Asked
  <2>2. Changed(c, t) /\ AddsTo(c, t)
    BY <2>1, Written DEF AddsTo
  <2>3. Added(c, t) \in files' /\ Added(c, t).table = t /\ Added(c, t).name = <<c, tries[c]>>
    BY <1>1, <2>1, <2>2, Adding, FilesAfter
  <2> QED BY <1>1, <2>3 DEF Landed
<1> QED BY <1>2, <1>3

\* What a commit replaces is gone from the version it brings.
LEMMA Replaced ==
  ASSUME AInv, NEW c \in Clients, Succeed(c), NEW t \in Tables, NEW k \in On(c, t)
  PROVE  stmts[c][k].drop \cap Content(t, base[c][t] + 1)' = {}
<1> DEFINE b == base[c][t]
<1>1. Commit(c) /\ TInv
  BY DEF Succeed, AInv, HInv
<1>2. b \in Nat /\ (\A w \in vers[t] : w <= b) /\ Changed(c, t) /\ k \in Effective(c, t)
  BY Written
<1> SUFFICES ASSUME NEW n \in stmts[c][k].drop, n \in Content(t, base[c][t] + 1)'
             PROVE  FALSE
  OBVIOUS
<1>3. base'[c][t] + 1 = b + 1
  BY DEF Succeed, Answer
<1> HIDE DEF b
<1>4. PICK g \in files' : g.table = t /\ g.name = n /\ g.start <= b + 1 /\ g.end > b + 1
  BY <1>3 DEF Content
<1>5. g.name \in Ending(c, t)
  BY <1>2, <1>4 DEF Ending
<1>6. ASSUME NEW f \in files, g = After(c, f) PROVE FALSE
  <2>1. /\ f.table = t /\ f.name = g.name /\ f.start = g.start
        /\ Ended(c, f) => g.end = b + 1
    BY <1>1, <1>6, <1>4, AfterKeeps DEF b
  <2>2. PICK w \in vers[t] : f.start <= w
    BY <2>1 DEF AInv, Answers, FileInv, StartsKnown
  <2>3. w \in Nat /\ f.start \in Nat /\ f.end \in Nat
    BY <1>1, <2>1, <2>2, AfterKeeps DEF TInv, TypeOK, Vids, File, Open
  <2>4. f.start <= b
    BY <1>2, <2>2, <2>3
  <2>5. ~Ended(c, f)
    BY <1>2, <1>4, <2>1
  <2>6. f = g
    BY <1>6, <2>5 DEF After
  <2>7. f.end > b
    BY <1>2, <1>4, <2>3, <2>6
  <2> QED BY <1>2, <1>5, <2>1, <2>4, <2>5, <2>7 DEF Ended, b
<1>7. ASSUME NEW u \in Tables, g = Added(c, u) PROVE FALSE
  <2>1. g.name = <<c, tries[c]>> /\ k \in DOMAIN stmts[c]
    BY <1>7 DEF Added, On
  <2> QED BY <1>4, <2>1 DEF AInv, Answers, StmtInv, DropsOthers
<1> QED BY <1>1, <1>6, <1>7, FilesAfter

LEMMA SucceedAnswers ==
  ASSUME AInv, TInv', NEW c \in Clients, Succeed(c)
  PROVE  Answers'
<1>1. /\ Commit(c) /\ TInv /\ UNCHANGED <<tries, mode, base, stmts, sends>>
      /\ \A d \in Clients : d # c => told'[d] = told[d]
  BY DEF Succeed, Answer, AInv, HInv, TInv, TypeOK
<1>2. \A d \in Clients, t \in Tables : On(d, t)' = On(d, t) /\ Finals(d, t)' = Finals(d, t)
  BY <1>1 DEF On, Finals
<1>3. \A d \in Clients : Asked(d)' = Asked(d) /\ Asked(d) \subseteq Tables
  BY <1>1, <1>2 DEF Asked
<1>4. StmtInv'
  BY <1>1, <1>2 DEF AInv, Answers, StmtInv, Finished, Ordered, DropsOthers
<1>5. FileInv'
  BY SucceedFileInv
<1>6. Together'
  BY <1>1, <1>3, SucceedLanded DEF AInv, Answers, Together
<1>7. Done(c)'
  <2> SUFFICES ASSUME NEW t \in Tables, On(c, t) # {}
               PROVE  /\ HasNext(c, t)'
                      /\ t \in Asked(c) => Landed(c, t)' # {}
                      /\ \A k \in On(c, t) :
                           stmts[c][k].drop \cap Content(t, base[c][t] + 1)' = {}
    BY <1>1, <1>2, <1>3 DEF Done
  <2> QED BY Written, SucceedLanded, Replaced
<1>8. ASSUME NEW d \in Clients, d # c, Done(d) PROVE Done(d)'
  <2> SUFFICES ASSUME NEW t \in Tables, On(d, t) # {}
               PROVE  /\ HasNext(d, t)'
                      /\ t \in Asked(d) => Landed(d, t)' # {}
                      /\ \A k \in On(d, t) :
                           stmts[d][k].drop \cap Content(t, base[d][t] + 1)' = {}
    BY <1>1, <1>2, <1>3 DEF Done
  <2>1. /\ HasNext(d, t)
        /\ t \in Asked(d) => Landed(d, t) # {}
        /\ \A k \in On(d, t) : stmts[d][k].drop \cap Content(t, base[d][t] + 1) = {}
    BY <1>8 DEF Done
  <2>2. HasNext(d, t)'
    BY <1>1, <2>1, CommitVers DEF HasNext
  <2>3. Content(t, base[d][t] + 1)' = Content(t, base[d][t] + 1)
    BY <1>1, <2>1, CommitKeeps DEF HasNext
  <2> QED BY <1>8, <2>1, <2>2, <2>3, SucceedLanded
<1>9. YesIsDone'
  BY <1>1, <1>7, <1>8 DEF AInv, Answers, YesIsDone
<1> QED BY <1>4, <1>5, <1>6, <1>9 DEF Answers

LEMMA ClientAnswers ==
  ASSUME Orderly, AInv, NEW c \in Clients, Client(c)
  PROVE  Answers'
<1>1. ASSUME NEW t \in Tables, GetTable(c, t) PROVE Answers'
  BY <1>1, BeginAnswers DEF GetTable
<1>2. ASSUME NEW T \in SUBSET Tables, StartTransaction(c, T) PROVE Answers'
  BY <1>2, BeginAnswers DEF StartTransaction
<1>3. CASE AppendFiles(c)
  BY <1>3, AddStmtAnswers, SendSingleAnswers DEF AppendFiles
<1>4. CASE RewriteFiles(c)
  BY <1>4, AddStmtAnswers, SendSingleAnswers DEF RewriteFiles
<1>5. CASE SendCommit(c)
  BY <1>5, SendCommitAnswers
<1>6. CASE Resend(c)
  <2>1. /\ UNCHANGED <<vers, files, tries, mode, base, stmts, told>> /\ sends[c] > 0
        /\ \A d \in Clients : d # c => sends'[d] = sends[d]
    BY <1>6 DEF Resend, Sent, catalogVars, AInv, HInv, TInv, TypeOK
  <2> QED BY <2>1, QuietAnswers DEF AInv
<1>7. CASE GiveUp(c)
  BY <1>7, GiveUpAnswers
<1> QED BY <1>1, <1>2, <1>3, <1>4, <1>5, <1>6, <1>7 DEF Client

LEMMA StepAInv == Orderly /\ AInv /\ [Next]_vars => AInv'
<1> SUFFICES ASSUME Orderly, AInv, [Next]_vars PROVE AInv'
  OBVIOUS
<1>1. HInv' /\ NInv' /\ TInv'
  BY StepHInv, StepNInv DEF AInv, HInv, Orderly, Careful
<1>2. ASSUME UNCHANGED vars PROVE Answers'
  BY <1>2, QuietAnswers DEF vars, catalogVars, clientVars, AInv
<1>3. ASSUME NEW c \in Clients, Refuse(c) PROVE Answers'
  <2>1. \A d \in Clients : told'[d] = "yes" => told[d] = "yes"
    BY <1>3 DEF Refuse, Answer, AInv, HInv, TInv, TypeOK
  <2> QED BY <1>3, <2>1, QuietAnswers DEF Refuse, Answer, catalogVars, AInv
<1>4. ASSUME NEW t \in Tables, NEW n \in RetainLast, Expire(t, n) PROVE Answers'
  BY <1>4, QuietAnswers DEF Expire, clientVars, AInv
<1>5. Answers'
  BY <1>1, <1>2, <1>3, <1>4, ClientAnswers, SucceedAnswers, CollectAnswers DEF Next
<1> QED BY <1>1, <1>5 DEF AInv

\* For any number of clients and tables: however often a commit is sent and whatever
\* becomes of its answers, it lands once, in all of its tables or in none.
THEOREM CommitsLandOnce == Orderly => (Spec => []LandsOnce)
<1> SUFFICES ASSUME Orderly PROVE Spec => []LandsOnce
  OBVIOUS
<1>1. AInv /\ [Next]_vars => AInv'
  BY StepAInv
<1>2. AInv => LandsOnce
  <2> SUFFICES ASSUME AInv, NEW c \in Clients
               PROVE  /\ \A t \in Tables : Cardinality(Landed(c, t)) <= 1
                      /\ \A t, u \in Asked(c) :
                           sends[c] > 0 => (Landed(c, t) = {} <=> Landed(c, u) = {})
    BY DEF LandsOnce
  <2>1. ASSUME NEW t \in Tables PROVE Cardinality(Landed(c, t)) <= 1
    <3>1. CASE Landed(c, t) = {}
      BY <3>1, FS_EmptySet
    <3>2. ASSUME NEW f \in Landed(c, t) PROVE Cardinality(Landed(c, t)) <= 1
      <4>1. Landed(c, t) = {f}
        BY DEF Landed, AInv, Answers, FileInv, UniqueFiles
      <4> QED BY <4>1, FS_Singleton
    <3> QED BY <3>1, <3>2
  <2> QED BY <2>1 DEF AInv, Answers, Together
<1> QED BY <1>1, <1>2, InitAInv, PTL DEF Spec

\* Under the same conditions whoever is told yes finds each file it added in the version
\* after the one it worked on, and none of those it replaced.
THEOREM YesIsTrue == Orderly => (Spec => []YesMeansCommitted)
<1> SUFFICES ASSUME Orderly PROVE Spec => []YesMeansCommitted
  OBVIOUS
<1>1. AInv /\ [Next]_vars => AInv'
  BY StepAInv
<1>2. AInv => YesMeansCommitted
  <2> SUFFICES ASSUME AInv, NEW c \in Clients, told[c] = "yes"
               PROVE  /\ \A t \in Asked(c) : {f.start : f \in Landed(c, t)} = {base[c][t] + 1}
                      /\ \A t \in Tables : \A k \in On(c, t) :
                           stmts[c][k].drop \cap Content(t, base[c][t] + 1) = {}
    BY DEF YesMeansCommitted
  <2>1. Done(c) /\ mode[c] # "idle"
    BY DEF AInv, HInv, TInv, AtWork, NInv, Handled, Answers, YesIsDone
  <2>2. ASSUME NEW t \in Asked(c) PROVE {f.start : f \in Landed(c, t)} = {base[c][t] + 1}
    <3>1. Landed(c, t) # {}
      BY <2>1 DEF Done, Asked
    <3>2. \A f \in Landed(c, t) : f.start = base[c][t] + 1
      BY <2>1 DEF Landed, AInv, Answers, FileInv, Placed
    <3> QED BY <3>1, <3>2
  <2> QED BY <2>1, <2>2 DEF Done
<1> QED BY <1>1, <1>2, InitAInv, PTL DEF Spec
=============================================================================
