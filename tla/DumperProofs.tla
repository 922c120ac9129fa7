---------------------------- MODULE DumperProofs ----------------------------
(***************************************************************************)
(* Proofs about Dumper, for any number of processes, files, tables, rows   *)
(* and options: the type invariant, that the database only ever holds      *)
(* whole demos, that its file implements DemoArchive, and what a run's     *)
(* exit says of the demos on its command line.                             *)
(***************************************************************************)
EXTENDS Dumper, SequenceTheorems, TLAPS

\* A committed state, appended or not, keeps the log a log of databases.
LEMMA PublishType ==
  ASSUME wal \in Seq(Database), wal # <<>>, NEW db \in Database, Publish(db)
  PROVE  wal' \in Seq(Database) /\ wal' # <<>>
<1>1. CASE wal' = wal
  BY <1>1
<1>2. CASE wal' = Append(wal, db)
  BY <1>2
<1> QED BY <1>1, <1>2 DEF Publish

LEMMA CommittedType ==
  ASSUME wal \in Seq(Database), wal # <<>>
  PROVE  Committed \in Database /\ Len(wal) \in Nat \ {0}
BY DEF Committed

LEMMA NewFileType == NewFile \in Database
BY DEF NewFile, Database

\* What changing one field of a database does.
LEMMA WithRows ==
  ASSUME NEW db \in Database, NEW rows \in SUBSET ChildRow
  PROVE  LET new == [db EXCEPT !.rows = rows]
         IN /\ new \in Database /\ new.rows = rows /\ new.demos = db.demos
            /\ new.user_version = db.user_version
BY DEF Database

LEMMA WithDemos ==
  ASSUME NEW db \in Database, NEW demos \in SUBSET DemoRow
  PROVE  LET new == [db EXCEPT !.demos = demos]
         IN new \in Database /\ new.demos = demos /\ new.rows = db.rows
BY DEF Database

LEMMA DoneType ==
  ASSUME TypeOK, NEW p \in Procs, NEW outcome \in {"parsed", "skipped", "failed"},
         Done(p, outcome)
  PROVE  /\ pc' \in [Procs -> Label]
         /\ tally' \in [Procs -> Seq({"parsed", "skipped", "failed"})]
<1>1. Append(tally[p], outcome) \in Seq({"parsed", "skipped", "failed"})
  BY DEF TypeOK
<1> QED BY <1>1 DEF TypeOK, Done, Goto, Label

\* While parse_one works on a demo, the demo is on the command line and its
\* file was read.
Working == {"find", "extract", "begin", "insert_demo", "insert_rows", "commit"}

FileRead ==
  \A p \in Procs : pc[p] \in Working => Len(tally[p]) < Len(argv[p]) /\ File(p) \in Content

\* TypeOK is inductive once FileRead is known: InsertDemo's row needs it.
LEMMA TypeStep == TypeOK /\ FileRead /\ [Next]_vars => TypeOK'
<1> SUFFICES ASSUME TypeOK, FileRead, [Next]_vars PROVE TypeOK'
  OBVIOUS
<1> USE DumperAssumption, DemoRowsAssumption
<1>c. Committed \in Database
  BY CommittedType DEF TypeOK
<1>1. ASSUME NEW p \in Procs, Start(p) PROVE TypeOK'
  <2>1. \E line \in Seq(Path), opt \in Option :
          /\ argv' = [argv EXCEPT ![p] = line]
          /\ opts' = [opts EXCEPT ![p] = opt]
    BY <1>1 DEF Start
  <2>2. argv' \in [Procs -> Seq(Path)] /\ opts' \in [Procs -> Option]
    BY <2>1 DEF TypeOK
  <2>3. tally' \in [Procs -> Seq({"parsed", "skipped", "failed"})]
    BY <1>1 DEF Start, TypeOK
  <2> QED BY <1>1, <2>2, <2>3 DEF Start, TypeOK, Goto, Label
<1>2. ASSUME NEW p \in Procs, Open(p) PROVE TypeOK'
  BY <1>2 DEF Open, TypeOK, Goto, Label, bounds
<1>3. ASSUME NEW p \in Procs, CheckVersion(p) PROVE TypeOK'
  BY <1>3 DEF CheckVersion, TypeOK, Goto, Leave, Label, bounds
<1>4. ASSUME NEW p \in Procs, CreateSchema(p) PROVE TypeOK'
  <2>1. [Committed EXCEPT !.has_demos = TRUE] \in Database
    BY <1>c DEF Database
  <2>2. wal' \in Seq(Database) /\ wal' # <<>>
    BY <1>4, <2>1, PublishType DEF CreateSchema, TypeOK
  <2> QED BY <1>4, <2>2 DEF CreateSchema, TypeOK, Goto, Label, bounds
<1>5. ASSUME NEW p \in Procs, StampVersion(p) PROVE TypeOK'
  <2>1. [Committed EXCEPT !.user_version = SchemaVersion[p]] \in Database
    BY <1>c DEF Database
  <2>2. wal' \in Seq(Database) /\ wal' # <<>>
    BY <1>5, <2>1, PublishType DEF StampVersion, TypeOK
  <2> QED BY <1>5, <2>2 DEF StampVersion, TypeOK, Goto, Label, bounds
<1>6. ASSUME NEW p \in Procs, NextDemo(p) PROVE TypeOK'
  BY <1>6 DEF NextDemo, TypeOK, Goto, Label, bounds
<1>7. ASSUME NEW p \in Procs, Finish(p) PROVE TypeOK'
  BY <1>7 DEF Finish, TypeOK, Goto, Leave, Label, bounds
<1>8. ASSUME NEW p \in Procs, FindDemo(p) PROVE TypeOK'
  <2>1. CASE Done(p, "skipped")
    BY <1>8, <2>1, DoneType DEF FindDemo, TypeOK, bounds
  <2>2. CASE Goto(p, "extract") /\ UNCHANGED tally
    BY <1>8, <2>2 DEF FindDemo, TypeOK, Goto, Label, bounds
  <2> QED BY <1>8, <2>1, <2>2 DEF FindDemo
<1>9. ASSUME NEW p \in Procs, Extract(p) PROVE TypeOK'
  BY <1>9 DEF Extract, TypeOK, Goto, Label, bounds
<1>10. ASSUME NEW p \in Procs, Begin(p) PROVE TypeOK'
  BY <1>10 DEF Begin, TypeOK, Goto, Label, bounds
<1>11. ASSUME NEW p \in Procs, InsertDemo(p) PROVE TypeOK'
  <2> DEFINE c == File(p)
             row == [id |-> IdOf[c], sha256 |-> c, opt |-> opts[p],
                     version |-> SchemaVersion[p]]
  <2>1. c \in Content
    BY <1>11 DEF InsertDemo, FileRead, Working
  <2>2. [Committed EXCEPT !.demos = @ \cup {row}] \in Database
    <3>1. row \in DemoRow
      BY <2>1 DEF DemoRow, TypeOK
    <3>2. Committed.demos \cup {row} \in SUBSET DemoRow
      BY <1>c, <3>1 DEF Database
    <3> QED BY <1>c, <3>2, WithDemos
  <2>3. txn' \in [Procs -> Database]
    BY <1>c, <1>11, <2>2 DEF InsertDemo, TypeOK
  <2>4. /\ step' \in [Procs -> Nat \ {0}]
        /\ conn' \in [Procs -> {"auto", "begun", "writing"}]
    BY <1>11 DEF InsertDemo, TypeOK
  <2>6. Goto(p, "fail") \/ Goto(p, "insert_rows")
    BY <1>11 DEF InsertDemo
  <2>7. pc' \in [Procs -> Label]
    BY <2>6 DEF Goto, TypeOK, Label
  <2>5. UNCHANGED <<wal, argv, opts, tally, exit, faulted, runs, faults, kills, losses>>
    BY <1>11 DEF InsertDemo, bounds
  <2> QED BY <2>3, <2>4, <2>5, <2>7 DEF TypeOK
<1>12. ASSUME NEW p \in Procs, InsertRows(p) PROVE TypeOK'
  <2> DEFINE new == TableRows(File(p), opts[p], InsertOrder[step[p]])
  <2>1. File(p) \in Content /\ InsertOrder[step[p]] \in Table
    BY <1>12 DEF InsertRows, FileRead, Working, TypeOK
  <2>2. new \subseteq ChildRow
    <3>1. RowsOf[File(p)] \subseteq Table \X Tick /\ IdOf[File(p)] \in Id
      BY <2>1, DemoRowsAssumption
    <3>2. ASSUME NEW r \in RowsOf[File(p)]
          PROVE  [demo_id |-> IdOf[File(p)], table |-> InsertOrder[step[p]], tick |-> r[2]] \in ChildRow
      BY <2>1, <3>1 DEF ChildRow
    <3> QED BY <3>2 DEF TableRows
  <2>3. [txn[p] EXCEPT !.rows = @ \cup new] \in Database
    <3>1. txn[p] \in Database
      BY DEF TypeOK
    <3>2. txn[p].rows \in SUBSET ChildRow
      BY <3>1 DEF Database
    <3> HIDE DEF new
    <3>3. txn[p].rows \cup new \in SUBSET ChildRow
      BY <2>2, <3>2
    <3> QED BY <3>1, <3>3, WithRows
  <2>4. txn' \in [Procs -> Database]
    BY <1>12, <2>3 DEF InsertRows, TypeOK
  <2>5. /\ step' \in [Procs -> Nat \ {0}]
        /\ UNCHANGED <<wal, pc, argv, opts, tally, conn, exit, faulted, runs, faults, kills, losses>>
    BY <1>12 DEF InsertRows, TypeOK, bounds
  <2> QED BY <2>4, <2>5 DEF TypeOK
<1>13. ASSUME NEW p \in Procs, CutAt(p) PROVE TypeOK'
  <2>1. [txn[p] EXCEPT !.rows = @ \ CutRows(p)] \in Database
    <3>1. txn[p] \in Database /\ txn[p].rows \ CutRows(p) \in SUBSET ChildRow
      BY DEF TypeOK, Database
    <3> QED BY <3>1, WithRows
  <2>2. txn' \in [Procs -> Database]
    BY <1>13, <2>1 DEF CutAt, TypeOK
  <2>3. pc' \in [Procs -> Label]
    BY <1>13 DEF CutAt, TypeOK, Goto, Label
  <2>4. UNCHANGED <<wal, argv, opts, tally, conn, step, exit, faulted, runs, faults, kills, losses>>
    BY <1>13 DEF CutAt, bounds
  <2> QED BY <2>2, <2>3, <2>4 DEF TypeOK
<1>14. ASSUME NEW p \in Procs, Commit(p) PROVE TypeOK'
  <2>1. wal' \in Seq(Database) /\ wal' # <<>>
    BY <1>14, PublishType DEF Commit, TypeOK
  <2>2. /\ pc' \in [Procs -> Label]
        /\ tally' \in [Procs -> Seq({"parsed", "skipped", "failed"})]
    BY <1>14, DoneType DEF Commit
  <2> QED BY <1>14, <2>1, <2>2, NewFileType DEF Commit, TypeOK, bounds
<1>15. ASSUME NEW p \in Procs, Fail(p) PROVE TypeOK'
  <2>1. /\ pc' \in [Procs -> Label]
        /\ tally' \in [Procs -> Seq({"parsed", "skipped", "failed"})]
    BY <1>15, DoneType DEF Fail
  <2> QED BY <1>15, <2>1, NewFileType DEF Fail, TypeOK, bounds
<1>16. ASSUME NEW p \in Procs, Fault(p) PROVE TypeOK'
  <2>1. pc' \in [Procs -> Label] /\ exit' \in [Procs -> {"none", "ok", "error", "refused", "killed"}]
    BY <1>16 DEF Fault, TypeOK, Goto, Leave, Label
  <2>2. /\ conn' \in [Procs -> {"auto", "begun", "writing"}]
        /\ txn' \in [Procs -> Database]
    <3>1. CASE UNCHANGED <<conn, txn>>
      BY <3>1 DEF TypeOK
    <3>2. CASE conn' = [conn EXCEPT ![p] = "auto"] /\ txn' = [txn EXCEPT ![p] = NewFile]
      BY <3>2, NewFileType DEF TypeOK
    <3> QED BY <1>16, <3>1, <3>2 DEF Fault
  <2>3. /\ faulted' \in [Procs -> BOOLEAN] /\ faults' \in Nat
        /\ UNCHANGED <<wal, argv, opts, tally, step, runs, kills, losses>>
    BY <1>16 DEF Fault, TypeOK
  <2>4. /\ wal' \in Seq(Database) /\ wal' # <<>>
        /\ argv' \in [Procs -> Seq(Path)] /\ opts' \in [Procs -> Option]
        /\ tally' \in [Procs -> Seq({"parsed", "skipped", "failed"})] /\ step' \in [Procs -> Nat \ {0}]
    BY <2>3 DEF TypeOK
  <2>5. runs' \in Nat /\ kills' \in Nat /\ losses' \in Nat
    BY <2>3 DEF TypeOK
  <2> QED BY <2>1, <2>2, <2>3, <2>4, <2>5 DEF TypeOK
<1>17. ASSUME NEW ps \in SUBSET Procs, Die(ps),
              wal' \in Seq(Database) /\ wal' # <<>>,
              runs' \in Nat /\ faults' \in Nat /\ kills' \in Nat /\ losses' \in Nat
       PROVE  TypeOK'
  BY <1>17, NewFileType DEF Die, TypeOK, Label
<1>18. ASSUME NEW p \in Procs, Kill(p) PROVE TypeOK'
  <2>1. {p} \in SUBSET Procs /\ Die({p}) /\ UNCHANGED <<wal, runs, faults, losses>> /\ kills' = kills + 1
    BY <1>18 DEF Kill
  <2>2. /\ wal' \in Seq(Database) /\ wal' # <<>>
        /\ runs' \in Nat /\ faults' \in Nat /\ kills' \in Nat /\ losses' \in Nat
    BY <2>1 DEF TypeOK
  <2> QED BY <1>17, <2>1, <2>2
<1>19. CASE PowerLoss
  <2>1. PICK n \in 1..Len(wal) : wal' = SubSeq(wal, 1, n)
    BY <1>19 DEF PowerLoss
  <2>2. SubSeq(wal, 1, n) \in Seq(Database) /\ SubSeq(wal, 1, n) # <<>>
    <3>1. n \in Int /\ 1 <= n /\ \A i \in 1..n : wal[i] \in Database
      BY DEF TypeOK
    <3>2. /\ SubSeq(wal, 1, n) \in Seq(Database)
          /\ Len(SubSeq(wal, 1, n)) = IF 1 <= n THEN n - 1 + 1 ELSE 0
      BY <3>1, SubSeqProperties
    <3>3. Len(SubSeq(wal, 1, n)) = n /\ Len(<<>>) = 0 /\ n # 0
      BY <3>1, <3>2
    <3> QED BY <3>2, <3>3
  <2>3. wal' \in Seq(Database) /\ wal' # <<>>
    BY <2>1, <2>2
  <2>4. Die(Procs) /\ UNCHANGED <<runs, faults, kills>> /\ losses' \in Nat
    BY <1>19 DEF PowerLoss, TypeOK
  <2> QED BY <1>17, <2>3, <2>4 DEF TypeOK
<1>20. CASE Checkpoint
  BY <1>20, <1>c DEF Checkpoint, TypeOK, bounds
<1>21. CASE UNCHANGED vars
  BY <1>21 DEF vars, bounds, TypeOK
<1> QED BY <1>1, <1>2, <1>3, <1>4, <1>5, <1>6, <1>7, <1>8, <1>9, <1>10, <1>11, <1>12,
           <1>13, <1>14, <1>15, <1>16, <1>18, <1>19, <1>20, <1>21 DEF Next, Step

LEMMA FileStep == TypeOK /\ FileRead /\ [Next]_vars => FileRead'
<1> SUFFICES ASSUME TypeOK, FileRead, [Next]_vars PROVE FileRead'
  OBVIOUS
<1> USE DumperAssumption DEF Working
<1>1. ASSUME NEW p \in Procs, Start(p) PROVE FileRead'
  BY <1>1 DEF Start, TypeOK, FileRead, File, Goto
<1>2. ASSUME NEW p \in Procs, NextDemo(p) PROVE FileRead'
  <2>1. argv[p][Len(tally[p]) + 1] \in Path
    BY <1>2 DEF NextDemo, TypeOK
  <2>2. UNCHANGED <<argv, tally>> /\ pc' = [pc EXCEPT ![p] = IF File(p) = NoFile THEN "fail" ELSE "find"]
    BY <1>2 DEF NextDemo, Goto
  <2>3. Len(tally[p]) < Len(argv[p]) /\ (File(p) # NoFile => File(p) \in Content)
    BY <1>2, <2>1 DEF NextDemo, File
  <2>4. \A q \in Procs : File(q)' = File(q)
    BY <2>2 DEF File
  <2> QED BY <2>2, <2>3, <2>4 DEF TypeOK, FileRead
\* The steps between reading a demo and leaving it keep the tally and argv.
<1>3. ASSUME NEW p \in Procs, NEW label \in Label, pc' = [pc EXCEPT ![p] = label],
             label \in Working => pc[p] \in Working,
             UNCHANGED <<argv, tally>>
      PROVE  FileRead'
  BY <1>3 DEF TypeOK, FileRead, File
<1>4. ASSUME NEW p \in Procs, NEW outcome, Done(p, outcome), UNCHANGED argv
      PROVE  FileRead'
  BY <1>4 DEF Done, TypeOK, FileRead, File, Goto
<1>5. ASSUME UNCHANGED <<pc, argv, tally>> PROVE FileRead'
  BY <1>5 DEF FileRead, File
<1>6. ASSUME NEW ps \in SUBSET Procs, Die(ps) PROVE FileRead'
  BY <1>6 DEF Die, TypeOK, FileRead, File
<1>7. ASSUME NEW p \in Procs, Step(p), ~NextDemo(p) PROVE FileRead'
  <2>1. CASE Open(p) \/ CheckVersion(p) \/ CreateSchema(p) \/ StampVersion(p) \/ Finish(p)
    BY <1>3, <2>1
       DEF Open, CheckVersion, CreateSchema, StampVersion, Finish, Goto, Leave, Label, TypeOK
  <2>2. CASE Extract(p) \/ Begin(p) \/ InsertDemo(p) \/ CutAt(p)
    BY <1>3, <2>2 DEF Extract, Begin, InsertDemo, CutAt, Goto, Label
  <2>3. CASE FindDemo(p)
    BY <1>3, <1>4, <2>3 DEF FindDemo, Goto, Label
  <2>4. CASE InsertRows(p)
    BY <1>5, <2>4 DEF InsertRows
  <2>5. CASE Commit(p) \/ Fail(p)
    BY <1>4, <2>5 DEF Commit, Fail
  <2> QED BY <1>7, <2>1, <2>2, <2>3, <2>4, <2>5 DEF Step
<1>8. ASSUME NEW p \in Procs, Fault(p) PROVE FileRead'
  BY <1>3, <1>8 DEF Fault, Goto, Leave, Label
<1>9. ASSUME NEW p \in Procs, Kill(p) PROVE FileRead'
  BY <1>6, <1>9 DEF Kill
<1>10. CASE PowerLoss
  BY <1>6, <1>10 DEF PowerLoss
<1>11. CASE Checkpoint \/ UNCHANGED vars
  BY <1>5, <1>11 DEF Checkpoint, vars
<1> QED BY <1>1, <1>2, <1>7, <1>8, <1>9, <1>10, <1>11 DEF Next

\* Every variable keeps its type: the first theorem the others stand on.
THEOREM TypeCorrect == Spec => [](TypeOK /\ FileRead)
<1>1. Init => TypeOK /\ FileRead
  BY NewFileType DEF Init, TypeOK, FileRead, Working, Label, Option
<1>2. TypeOK /\ FileRead /\ [Next]_vars => (TypeOK /\ FileRead)'
  BY TypeStep, FileStep
<1> QED BY <1>1, <1>2, PTL DEF Spec

-----------------------------------------------------------------------------
(* Whole demos only                                                        *)

\* The two keys of the demos table: the hash decides the id, and no two rows
\* share an id.
Keys(db) ==
  /\ \A d \in db.demos : d.id = IdOf[d.sha256]
  /\ \A d, e \in db.demos : d.id = e.id => d = e

Sound(db) == Keys(db) /\ Whole(db)

\* What the first n - 1 tables have received of demo c: the rows of the
\* rounds table trimmed already, the others not cut yet.
PartRows(c, opt, n) ==
  {r \in RowsOf[c] : /\ r[1] \notin opt.omitted
                     /\ r[1] = Rounds => Kept(c, opt, r[2])
                     /\ \E i \in 1..(n - 1) : InsertOrder[i] = r[1]}

Written(p) == PartRows(File(p), opts[p], step[p])

\* p's open transaction: whole demos, and p's own as far as it has come.
HalfDone(p) ==
  /\ Keys(txn[p])
  /\ \A r \in txn[p].rows : \E d \in txn[p].demos : d.id = r.demo_id
  /\ \A d \in txn[p].demos :
       d.sha256 # File(p) => RowsIn(txn[p], d.id) = WholeRows(d.sha256, d.opt)
  /\ \E d \in txn[p].demos : d.sha256 = File(p) /\ d.opt = opts[p]
  /\ RowsIn(txn[p], IdOf[File(p)]) = Written(p)

TxnsSound ==
  \A p \in Procs : /\ pc[p] = "insert_rows" => HalfDone(p)
                   /\ pc[p] = "commit" => Sound(txn[p])

LogSound == \A i \in 1..Len(wal) : Sound(wal[i])

\* WholeDemosOnly says nothing of open transactions, which become commits,
\* nor of the keys, without which a new demo's rows could join another's.
IInv == TypeOK /\ FileRead /\ LogSound /\ TxnsSound

LEMMA RowsInOf ==
  ASSUME NEW db \in Database, NEW id \in Id, NEW r
  PROVE  r \in RowsIn(db, id) <=>
           r \in Table \X Tick /\ [demo_id |-> id, table |-> r[1], tick |-> r[2]] \in db.rows
<1>1. ASSUME r \in RowsIn(db, id)
      PROVE  r \in Table \X Tick /\ [demo_id |-> id, table |-> r[1], tick |-> r[2]] \in db.rows
  <2>1. PICK x \in db.rows : x.demo_id = id /\ r = <<x.table, x.tick>>
    BY <1>1 DEF RowsIn
  <2>2. x \in ChildRow
    BY DEF Database
  <2>3. x = [demo_id |-> id, table |-> r[1], tick |-> r[2]]
    BY <2>1, <2>2 DEF ChildRow
  <2> QED BY <2>1, <2>2, <2>3 DEF ChildRow
<1>2. ASSUME r \in Table \X Tick, [demo_id |-> id, table |-> r[1], tick |-> r[2]] \in db.rows
      PROVE  r \in RowsIn(db, id)
  BY <1>2 DEF RowsIn
<1> QED BY <1>1, <1>2

\* Only a database's demos and rows decide whether it is sound.
LEMMA SoundFields ==
  ASSUME NEW db, NEW e, db.demos = e.demos, db.rows = e.rows
  PROVE  Sound(db) <=> Sound(e)
BY DEF Sound, Keys, Whole, RowsIn

LEMMA PublishSound ==
  ASSUME TypeOK, LogSound, NEW db, Sound(db), Publish(db)
  PROVE  LogSound'
<1>1. CASE wal' = wal
  BY <1>1 DEF LogSound
<1>2. CASE wal' = Append(wal, db)
  BY <1>2 DEF LogSound, TypeOK
<1> QED BY <1>1, <1>2 DEF Publish

LEMMA CommittedSound == ASSUME TypeOK, LogSound PROVE Sound(Committed)
BY CommittedType DEF LogSound, Committed, TypeOK

\* A process that does not move keeps what is known of its transaction.
LEMMA Frame ==
  ASSUME NEW q \in Procs, txn'[q] = txn[q], step'[q] = step[q], opts'[q] = opts[q],
         argv'[q] = argv[q], tally'[q] = tally[q]
  PROVE  (HalfDone(q) => HalfDone(q)') /\ (Sound(txn[q]) => Sound(txn[q])')
BY DEF HalfDone, Written, PartRows, File, Sound, Whole, Keys, RowsIn

Unmoved(q) ==
  /\ pc'[q] = pc[q] /\ txn'[q] = txn[q] /\ step'[q] = step[q]
  /\ opts'[q] = opts[q] /\ argv'[q] = argv[q] /\ tally'[q] = tally[q]

LEMMA OneMoves ==
  ASSUME TxnsSound, NEW p \in Procs, \A q \in Procs \ {p} : Unmoved(q),
         pc'[p] = "insert_rows" => HalfDone(p)',
         pc'[p] = "commit" => Sound(txn[p])'
  PROVE  TxnsSound'
<1>1. ASSUME NEW q \in Procs \ {p}
      PROVE  (pc'[q] = "insert_rows" => HalfDone(q)') /\ (pc'[q] = "commit" => Sound(txn[q])')
  BY Frame DEF Unmoved, TxnsSound
<1> QED BY <1>1 DEF TxnsSound

\* The demos row goes in before any row of the demo.
LEMMA InsertDemoStep ==
  ASSUME TypeOK, FileRead, LogSound, TxnsSound, NEW p \in Procs, InsertDemo(p)
  PROVE  TxnsSound'
<1> DEFINE c == File(p)
           row == [id |-> IdOf[c], sha256 |-> c, opt |-> opts[p], version |-> SchemaVersion[p]]
           db == [Committed EXCEPT !.demos = @ \cup {row}]
<1>1. \A q \in Procs \ {p} : Unmoved(q)
  BY DEF InsertDemo, Unmoved, TypeOK, Goto
<1>2. CASE \E d \in Committed.demos : d.id = IdOf[c] \/ d.sha256 = c
  <2>1. pc'[p] = "fail"
    BY <1>2 DEF InsertDemo, TypeOK, Goto
  <2> QED BY <1>1, <2>1, OneMoves
<1>3. CASE ~\E d \in Committed.demos : d.id = IdOf[c] \/ d.sha256 = c
  <2>1. c \in Content /\ row \in DemoRow
    BY DumperAssumption DEF InsertDemo, FileRead, Working, TypeOK, DemoRow
  <2>2. Committed \in Database /\ Sound(Committed)
    BY CommittedType, CommittedSound DEF TypeOK
  <2>3. /\ db \in Database
        /\ db.demos = Committed.demos \cup {row} /\ db.rows = Committed.rows
    BY <2>1, <2>2, WithDemos DEF Database
  <2>4. pc'[p] = "insert_rows" /\ txn'[p] = db /\ step'[p] = 1
    BY <1>3 DEF InsertDemo, TypeOK, Goto
  <2>5. UNCHANGED <<argv, opts, tally>> /\ File(p)' = c
    BY DEF InsertDemo, File
  <2>6. Keys(db)
    BY <1>3, <2>2, <2>3 DEF Sound, Keys
  <2>7. \A r \in db.rows : \E d \in db.demos : d.id = r.demo_id
    BY <2>2, <2>3 DEF Sound, Whole
  <2>8. \A id : RowsIn(db, id) = RowsIn(Committed, id)
    BY <2>3 DEF RowsIn
  <2>9. \A d \in db.demos : d.sha256 # c => RowsIn(db, d.id) = WholeRows(d.sha256, d.opt)
    BY <2>2, <2>3, <2>8 DEF Sound, Whole
  <2>10. RowsIn(db, IdOf[c]) = {}
    BY <1>3, <2>2, <2>8 DEF Sound, Whole, RowsIn
  <2>11. Written(p)' = {}
    BY <2>4, <2>5 DEF Written, PartRows
  <2>12. row \in db.demos /\ row.sha256 = c /\ row.opt = opts[p]
    BY <2>3
  <2>13. HalfDone(p)'
    BY <2>4, <2>5, <2>6, <2>7, <2>9, <2>10, <2>11, <2>12 DEF HalfDone
  <2> QED BY <1>1, <2>4, <2>13, OneMoves
<1> QED BY <1>2, <1>3

\* In a database with sound keys, rows tagged with one demo's id leave every
\* other demo as it was.
LEMMA OtherDemos ==
  ASSUME NEW db \in Database, NEW new \in Database, Keys(db), NEW id,
         new.demos = db.demos,
         \A r \in ChildRow : r.demo_id # id => (r \in new.rows <=> r \in db.rows),
         NEW d \in db.demos, d.id # id
  PROVE  RowsIn(new, d.id) = RowsIn(db, d.id)
<1>1. d.id \in Id
  BY DEF Database, DemoRow
<1>2. ASSUME NEW r \in Table \X Tick
      PROVE  [demo_id |-> d.id, table |-> r[1], tick |-> r[2]] \in new.rows <=>
             [demo_id |-> d.id, table |-> r[1], tick |-> r[2]] \in db.rows
  BY <1>1 DEF ChildRow
<1>3. \A r : r \in RowsIn(new, d.id) <=> r \in RowsIn(db, d.id)
  BY <1>1, <1>2, RowsInOf
<1> QED BY <1>3

\* The rows an insert adds to its demo.
LEMMA TableRowsIn ==
  ASSUME NEW c \in Content, NEW opt, NEW t \in Table, NEW db \in Database,
         NEW new \in Database, new.rows = db.rows \cup TableRows(c, opt, t), NEW r
  PROVE  r \in RowsIn(new, IdOf[c]) <=>
           \/ r \in RowsIn(db, IdOf[c])
           \/ /\ r \in RowsOf[c] /\ r[1] = t /\ t \notin opt.omitted
              /\ t = Rounds => Kept(c, opt, r[2])
<1> DEFINE Row(s) == [demo_id |-> IdOf[c], table |-> s[1], tick |-> s[2]]
<1>1. IdOf[c] \in Id /\ RowsOf[c] \subseteq Table \X Tick
  BY DumperAssumption, DemoRowsAssumption
<1>2. ASSUME NEW s \in Table \X Tick
      PROVE  Row(s) \in TableRows(c, opt, t) <=>
               /\ s \in RowsOf[c] /\ s[1] = t /\ t \notin opt.omitted
               /\ t = Rounds => Kept(c, opt, s[2])
  <2>1. ASSUME NEW s2 \in Table \X Tick,
               Row(s) = [demo_id |-> IdOf[c], table |-> t, tick |-> s2[2]], s2[1] = t
        PROVE  s2 = s
    <3>1. Row(s).table = t /\ Row(s).tick = s2[2]
      BY <2>1
    <3> QED BY <2>1, <3>1
  <2>2. s[1] = t => Row(s) = [demo_id |-> IdOf[c], table |-> t, tick |-> s[2]]
    OBVIOUS
  <2> HIDE DEF Row
  <2>3. Row(s) \in TableRows(c, opt, t) =>
          /\ s \in RowsOf[c] /\ s[1] = t /\ t \notin opt.omitted
          /\ t = Rounds => Kept(c, opt, s[2])
    <3>1. ASSUME Row(s) \in TableRows(c, opt, t)
          PROVE  \E s2 \in RowsOf[c] :
                   /\ s2[1] = t /\ t \notin opt.omitted
                   /\ t = Rounds => Kept(c, opt, s2[2])
                   /\ Row(s) = [demo_id |-> IdOf[c], table |-> t, tick |-> s2[2]]
      BY <3>1, Zenon DEF TableRows
    <3> QED BY <1>1, <2>1, <3>1
  <2>4. ASSUME s \in RowsOf[c], s[1] = t, t \notin opt.omitted,
               t = Rounds => Kept(c, opt, s[2])
        PROVE  Row(s) \in TableRows(c, opt, t)
    BY <2>2, <2>4, Zenon DEF TableRows
  <2> QED BY <2>3, <2>4
<1>3. r \in RowsIn(new, IdOf[c]) <=>
        r \in Table \X Tick /\ (Row(r) \in db.rows \/ Row(r) \in TableRows(c, opt, t))
  BY <1>1, RowsInOf
<1>4. r \in RowsIn(db, IdOf[c]) <=> r \in Table \X Tick /\ Row(r) \in db.rows
  BY <1>1, RowsInOf
<1> HIDE DEF Row
<1> QED BY <1>1, <1>2, <1>3, <1>4

LEMMA PartRowsNext ==
  ASSUME NEW c, NEW opt, NEW n \in Nat \ {0}, NEW r
  PROVE  r \in PartRows(c, opt, n + 1) <=>
           \/ r \in PartRows(c, opt, n)
           \/ /\ r \in RowsOf[c] /\ r[1] = InsertOrder[n] /\ r[1] \notin opt.omitted
              /\ r[1] = Rounds => Kept(c, opt, r[2])
<1>1. \A i : i \in 1..((n + 1) - 1) <=> i \in 1..(n - 1) \/ i = n
  OBVIOUS
<1> QED BY <1>1, Zenon DEF PartRows

\* What every insert writes is tagged with its demo.
LEMMA TableRowsType ==
  ASSUME NEW c \in Content, NEW opt, NEW t \in Table, NEW x \in TableRows(c, opt, t)
  PROVE  x \in ChildRow /\ x.demo_id = IdOf[c]
<1>1. PICK r \in RowsOf[c] : x = [demo_id |-> IdOf[c], table |-> t, tick |-> r[2]]
  BY Zenon DEF TableRows
<1> QED BY <1>1, DumperAssumption, DemoRowsAssumption DEF ChildRow

LEMMA InsertRowsStep ==
  ASSUME TypeOK, FileRead, TxnsSound, NEW p \in Procs, InsertRows(p)
  PROVE  TxnsSound'
<1> DEFINE c == File(p)
           t == InsertOrder[step[p]]
           db == txn[p]
           added == TableRows(c, opts[p], t)
           new == [db EXCEPT !.rows = @ \cup added]
<1>1. \A q \in Procs \ {p} : Unmoved(q)
  BY DEF InsertRows, Unmoved, TypeOK
<1>2. c \in Content /\ t \in Table /\ db \in Database /\ step[p] \in Nat \ {0}
  BY DumperAssumption DEF InsertRows, FileRead, Working, TypeOK
<1>3. /\ Keys(db)
      /\ \A r \in db.rows : \E d \in db.demos : d.id = r.demo_id
      /\ \A d \in db.demos : d.sha256 # c => RowsIn(db, d.id) = WholeRows(d.sha256, d.opt)
      /\ \E d \in db.demos : d.sha256 = c /\ d.opt = opts[p]
      /\ RowsIn(db, IdOf[c]) = Written(p)
  BY DEF TxnsSound, InsertRows, HalfDone
<1>4. pc'[p] = "insert_rows" /\ txn'[p] = new /\ step'[p] = step[p] + 1
  BY DEF InsertRows, TypeOK
<1>5. opts'[p] = opts[p] /\ File(p)' = c
  BY DEF InsertRows, File
<1>6. Written(p)' = PartRows(c, opts[p], step[p] + 1)
  <2>1. Written(p)' = PartRows(File(p)', opts'[p], step'[p])
    BY DEF Written, PartRows
  <2> HIDE DEF c
  <2> QED BY <1>4, <1>5, <2>1
<1>7. \A r \in added : r \in ChildRow /\ r.demo_id = IdOf[c]
  <2> HIDE DEF c, t
  <2> QED BY <1>2, TableRowsType
<1>8. new \in Database /\ new.rows = db.rows \cup added /\ new.demos = db.demos
  <2> HIDE DEF added
  <2>1. db.rows \cup added \in SUBSET ChildRow
    BY <1>2, <1>7 DEF Database
  <2> QED BY <1>2, <2>1, WithRows
<1>9. RowsIn(db, IdOf[c]) = PartRows(c, opts[p], step[p])
  BY <1>3 DEF Written
<1> HIDE DEF c, db, added, new
<1>10. Keys(new)
  BY <1>3, <1>8 DEF Keys
<1>11. \E d \in db.demos : d.sha256 = c /\ d.opt = opts[p] /\ d.id = IdOf[c]
  BY <1>3 DEF Keys
<1>12. \A r \in new.rows : \E d \in new.demos : d.id = r.demo_id
  BY <1>3, <1>7, <1>8, <1>11
<1>13. \A d \in new.demos : d.sha256 # c => RowsIn(new, d.id) = WholeRows(d.sha256, d.opt)
  <2> SUFFICES ASSUME NEW d \in db.demos, d.sha256 # c
               PROVE  RowsIn(new, d.id) = WholeRows(d.sha256, d.opt)
    BY <1>8
  <2>1. d.id # IdOf[c]
    BY <1>3, <1>11 DEF Keys
  <2>2. RowsIn(new, d.id) = RowsIn(db, d.id)
    BY <1>2, <1>3, <1>7, <1>8, <2>1, OtherDemos
  <2> QED BY <1>3, <2>2
<1>14. RowsIn(new, IdOf[c]) = PartRows(c, opts[p], step[p] + 1)
  <2> SUFFICES ASSUME NEW r
               PROVE  r \in RowsIn(new, IdOf[c]) <=> r \in PartRows(c, opts[p], step[p] + 1)
    OBVIOUS
  <2>1. r \in RowsIn(new, IdOf[c]) <=>
          \/ r \in RowsIn(db, IdOf[c])
          \/ /\ r \in RowsOf[c] /\ r[1] = t /\ t \notin opts[p].omitted
             /\ t = Rounds => Kept(c, opts[p], r[2])
    <3>1. new.rows = db.rows \cup TableRows(c, opts[p], t)
      BY <1>8 DEF added
    <3> HIDE DEF t
    <3> QED BY <1>2, <1>8, <3>1, TableRowsIn
  <2>2. r \in PartRows(c, opts[p], step[p] + 1) <=>
          \/ r \in PartRows(c, opts[p], step[p])
          \/ /\ r \in RowsOf[c] /\ r[1] = t /\ r[1] \notin opts[p].omitted
             /\ r[1] = Rounds => Kept(c, opts[p], r[2])
    BY <1>2, PartRowsNext
  <2> HIDE DEF t
  <2> QED BY <1>9, <2>1, <2>2
<1>15. HalfDone(p)'
  BY <1>4, <1>5, <1>6, <1>8, <1>10, <1>11, <1>12, <1>13, <1>14 DEF HalfDone
<1> QED BY <1>1, <1>4, <1>15, OneMoves

\* Once every table is written, only the cut is missing.
LEMMA PartRowsAll ==
  ASSUME NEW c \in Content, NEW opt, NEW n \in Nat \ {0}, n > Len(InsertOrder), NEW r
  PROVE  r \in WholeRows(c, opt) <=>
           r \in PartRows(c, opt, n) /\ (r[1] = Rounds \/ Kept(c, opt, r[2]))
<1>1. InsertOrder \in Seq(Table)
  BY DumperAssumption
<1>2. \A t \in Table : \E i \in 1..(n - 1) : InsertOrder[i] = t
  <2> SUFFICES ASSUME NEW t \in Table PROVE \E i \in 1..(n - 1) : InsertOrder[i] = t
    OBVIOUS
  <2>1. PICK i \in 1..Len(InsertOrder) : InsertOrder[i] = t
    BY DumperAssumption
  <2> QED BY <1>1, <2>1
<1>3. r \in RowsOf[c] => r[1] \in Table
  BY DemoRowsAssumption
<1> QED BY <1>2, <1>3 DEF PartRows, WholeRows

\* With the cut made, the transaction holds whole demos only.
LEMMA CutAtStep ==
  ASSUME TypeOK, FileRead, TxnsSound, NEW p \in Procs, CutAt(p)
  PROVE  TxnsSound'
<1> DEFINE c == File(p)
           db == txn[p]
           cut == CutRows(p)
           new == [db EXCEPT !.rows = @ \ cut]
<1>1. \A q \in Procs \ {p} : Unmoved(q)
  BY DEF CutAt, Unmoved, TypeOK, Goto
<1>2. /\ c \in Content /\ db \in Database /\ step[p] \in Nat \ {0}
      /\ step[p] > Len(InsertOrder)
  BY DEF CutAt, FileRead, Working, TypeOK
<1>3. /\ Keys(db)
      /\ \A r \in db.rows : \E d \in db.demos : d.id = r.demo_id
      /\ \A d \in db.demos : d.sha256 # c => RowsIn(db, d.id) = WholeRows(d.sha256, d.opt)
      /\ \E d \in db.demos : d.sha256 = c /\ d.opt = opts[p]
      /\ RowsIn(db, IdOf[c]) = PartRows(c, opts[p], step[p])
  BY DEF TxnsSound, CutAt, HalfDone, Written
<1>4. pc'[p] = "commit" /\ txn'[p] = new
  BY DEF CutAt, TypeOK, Goto
<1>5. new \in Database /\ new.rows = db.rows \ cut /\ new.demos = db.demos
  <2> HIDE DEF cut
  <2>1. db.rows \ cut \in SUBSET ChildRow
    BY <1>2 DEF Database
  <2> QED BY <1>2, <2>1, WithRows
<1>6. \A r \in ChildRow :
        r \in new.rows <=>
          /\ r \in db.rows
          /\ r.demo_id = IdOf[c] => r.table = Rounds \/ Kept(c, opts[p], r.tick)
  BY <1>5 DEF CutRows
<1> HIDE DEF c, db, cut, new
<1>7. PICK own \in db.demos : own.sha256 = c /\ own.opt = opts[p] /\ own.id = IdOf[c]
  BY <1>3 DEF Keys
<1>8. Keys(new)
  BY <1>3, <1>5 DEF Keys
<1>9. \A r \in new.rows : \E d \in new.demos : d.id = r.demo_id
  BY <1>3, <1>5
<1>10. ASSUME NEW d \in db.demos, d # own
       PROVE  RowsIn(new, d.id) = WholeRows(d.sha256, d.opt)
  <2>1. d.id # IdOf[c] /\ d.sha256 # c
    BY <1>3, <1>7, <1>10 DEF Keys
  <2>2. RowsIn(new, d.id) = RowsIn(db, d.id)
    BY <1>2, <1>3, <1>5, <1>6, <2>1, OtherDemos
  <2> QED BY <1>3, <2>1, <2>2
<1>11. RowsIn(new, IdOf[c]) = WholeRows(c, opts[p])
  <2> SUFFICES ASSUME NEW r
               PROVE  r \in RowsIn(new, IdOf[c]) <=> r \in WholeRows(c, opts[p])
    OBVIOUS
  <2> DEFINE row == [demo_id |-> IdOf[c], table |-> r[1], tick |-> r[2]]
  <2>1. IdOf[c] \in Id
    BY <1>2, DumperAssumption
  <2>2. r \in RowsIn(new, IdOf[c]) <=> r \in Table \X Tick /\ row \in new.rows
    BY <1>5, <2>1, RowsInOf
  <2>3. r \in RowsIn(db, IdOf[c]) <=> r \in Table \X Tick /\ row \in db.rows
    BY <1>2, <2>1, RowsInOf
  <2>4. ASSUME r \in Table \X Tick
        PROVE  row \in new.rows <=>
                 row \in db.rows /\ (r[1] = Rounds \/ Kept(c, opts[p], r[2]))
    <3>1. row \in ChildRow
      BY <2>1, <2>4 DEF ChildRow
    <3>2. row.demo_id = IdOf[c] /\ row.table = r[1] /\ row.tick = r[2]
      OBVIOUS
    <3> HIDE DEF row
    <3> QED BY <1>6, <3>1, <3>2
  <2>5. r \in WholeRows(c, opts[p]) <=>
          r \in PartRows(c, opts[p], step[p]) /\ (r[1] = Rounds \/ Kept(c, opts[p], r[2]))
    BY <1>2, PartRowsAll
  <2> HIDE DEF row
  <2> QED BY <1>3, <2>2, <2>3, <2>4, <2>5
<1>12. Whole(new)
  BY <1>5, <1>7, <1>9, <1>10, <1>11 DEF Whole
<1>13. Sound(txn[p])'
  <2>1. Sound(txn'[p])
    BY <1>4, <1>8, <1>12 DEF Sound
  <2> QED BY <2>1 DEF Sound, Keys, Whole, RowsIn
<1> QED BY <1>1, <1>4, <1>13, OneMoves

LEMMA WholeStep == IInv /\ [Next]_vars => (LogSound /\ TxnsSound)'
<1> SUFFICES ASSUME TypeOK, FileRead, LogSound, TxnsSound, [Next]_vars
             PROVE  LogSound' /\ TxnsSound'
  BY DEF IInv
<1>1. Committed \in Database /\ Sound(Committed)
  BY CommittedType, CommittedSound DEF TypeOK
\* Steps that leave the transaction and do not enter or continue the writing.
<1>2. ASSUME NEW p \in Procs, \A q \in Procs \ {p} : Unmoved(q),
             pc'[p] \notin {"insert_rows", "commit"}
      PROVE  TxnsSound'
  BY <1>2, OneMoves
<1>3. ASSUME UNCHANGED wal PROVE LogSound'
  BY <1>3 DEF LogSound
<1>4. ASSUME UNCHANGED <<pc, argv, opts, tally, txn, step>> PROVE TxnsSound'
  BY <1>4, Frame DEF TxnsSound
<1>5. ASSUME NEW p \in Procs, Start(p) PROVE LogSound' /\ TxnsSound'
  BY <1>2, <1>3, <1>5 DEF Start, Unmoved, TypeOK, Goto
<1>6. ASSUME NEW p \in Procs,
             Open(p) \/ CheckVersion(p) \/ NextDemo(p) \/ Finish(p) \/ Extract(p) \/ Begin(p)
      PROVE  LogSound' /\ TxnsSound'
  <2>1. UNCHANGED <<wal, argv, opts, tally, txn, step>>
    BY <1>6 DEF Open, CheckVersion, NextDemo, Finish, Extract, Begin
  <2>2. \E label : Goto(p, label) /\ label \notin {"insert_rows", "commit"}
    BY <1>6 DEF Open, CheckVersion, NextDemo, Finish, Extract, Begin, Goto, Leave
  <2> QED BY <1>2, <1>3, <2>1, <2>2 DEF Unmoved, TypeOK, Goto
<1>7. ASSUME NEW p \in Procs, CreateSchema(p) \/ StampVersion(p)
      PROVE  LogSound' /\ TxnsSound'
  <2>1. LogSound'
    <3>1. /\ Sound([Committed EXCEPT !.has_demos = TRUE])
          /\ Sound([Committed EXCEPT !.user_version = SchemaVersion[p]])
      BY <1>1, SoundFields DEF Database
    <3> QED BY <1>7, <3>1, PublishSound DEF CreateSchema, StampVersion
  <2>2. TxnsSound'
    BY <1>2, <1>7 DEF CreateSchema, StampVersion, Unmoved, TypeOK, Goto
  <2> QED BY <2>1, <2>2
<1>8. ASSUME NEW p \in Procs, FindDemo(p) \/ Fail(p) PROVE LogSound' /\ TxnsSound'
  <2>1. UNCHANGED <<wal, argv, opts, step>> /\ \A q \in Procs \ {p} : Unmoved(q)
    BY <1>8 DEF FindDemo, Fail, Unmoved, TypeOK, Done, Goto
  <2>2. pc'[p] \in {"next", "extract"}
    BY <1>8 DEF FindDemo, Fail, TypeOK, Done, Goto
  <2> QED BY <1>2, <1>3, <2>1, <2>2
<1>9. ASSUME NEW p \in Procs, InsertDemo(p) \/ InsertRows(p) \/ CutAt(p)
      PROVE  LogSound' /\ TxnsSound'
  <2>1. UNCHANGED wal
    BY <1>9 DEF InsertDemo, InsertRows, CutAt
  <2> QED BY <1>3, <1>9, <2>1, InsertDemoStep, InsertRowsStep, CutAtStep
<1>10. ASSUME NEW p \in Procs, Commit(p) PROVE LogSound' /\ TxnsSound'
  <2>1. LogSound'
    BY <1>10, PublishSound DEF Commit, TxnsSound
  <2>2. (\A q \in Procs \ {p} : Unmoved(q)) /\ pc'[p] = "next"
    BY <1>10 DEF Commit, Done, Goto, Unmoved, TypeOK
  <2> QED BY <1>2, <2>1, <2>2
<1>11. ASSUME NEW p \in Procs, Fault(p) PROVE LogSound' /\ TxnsSound'
  <2>1. UNCHANGED <<wal, argv, opts, tally, step>> /\ pc'[p] \in {"fail", "off"}
    BY <1>11 DEF Fault, Goto, Leave, TypeOK
  <2>2. \A q \in Procs \ {p} : pc'[q] = pc[q]
    BY <1>11 DEF Fault, Goto, Leave, TypeOK
  <2>3. \A q \in Procs \ {p} : txn'[q] = txn[q]
    BY <1>11 DEF Fault, TypeOK
  <2> QED BY <1>2, <1>3, <2>1, <2>2, <2>3 DEF Unmoved
<1>12. ASSUME NEW ps \in SUBSET Procs, Die(ps) PROVE TxnsSound'
  <2>1. \A q \in Procs \ ps : Unmoved(q)
    BY <1>12 DEF Die, Unmoved
  <2>2. \A q \in ps : pc'[q] = "off"
    BY <1>12 DEF Die
  <2>3. ASSUME NEW q \in Procs \ ps
        PROVE  (pc'[q] = "insert_rows" => HalfDone(q)') /\ (pc'[q] = "commit" => Sound(txn[q])')
    BY <2>1, Frame DEF Unmoved, TxnsSound
  <2> QED BY <2>2, <2>3 DEF TxnsSound
<1>13. ASSUME NEW p \in Procs, Kill(p) PROVE LogSound' /\ TxnsSound'
  BY <1>3, <1>12, <1>13 DEF Kill
<1>14. CASE PowerLoss
  <2>1. PICK n \in 1..Len(wal) : wal' = SubSeq(wal, 1, n)
    BY <1>14 DEF PowerLoss
  <2>2. n \in Int /\ Len(wal) \in Nat /\ 1 <= n /\ \A i \in 1..n : wal[i] \in Database
    BY DEF TypeOK
  <2>3. /\ Len(wal') = IF 1 <= n THEN n - 1 + 1 ELSE 0
        /\ \A i \in 1..(n - 1 + 1) : wal'[i] = wal[1 + i - 1]
    BY <2>1, <2>2, SubSeqProperties
  <2>4. LogSound'
    BY <2>2, <2>3 DEF LogSound
  <2> QED BY <1>12, <1>14, <2>4 DEF PowerLoss
<1>15. CASE Checkpoint
  <2>1. LogSound'
    BY <1>1, <1>15 DEF Checkpoint, LogSound
  <2> QED BY <1>4, <1>15, <2>1 DEF Checkpoint
<1>16. CASE UNCHANGED vars
  BY <1>3, <1>4, <1>16 DEF vars
<1> QED BY <1>5, <1>6, <1>7, <1>8, <1>9, <1>10, <1>11, <1>13, <1>14, <1>15, <1>16
        DEF Next, Step

\* Whatever processes, faults, kills and power losses do to the file, for any
\* number of processes and demos, every committed state holds whole demos
\* only: each demos row with exactly the rows its recorded options call for.
THEOREM WholeDemos == Spec => []WholeDemosOnly
<1>1. Init => IInv
  <2>1. Init => LogSound
    BY DEF Init, LogSound, Sound, Keys, Whole, RowsIn, NewFile
  <2>2. Init => TxnsSound
    BY DEF Init, TxnsSound
  <2>3. Init => TypeOK /\ FileRead
    BY NewFileType DEF Init, TypeOK, FileRead, Working, Label, Option
  <2> QED BY <2>1, <2>2, <2>3 DEF IInv
<1>2. IInv /\ [Next]_vars => IInv'
  <2>1. IInv /\ [Next]_vars => TypeOK' /\ FileRead'
    BY TypeStep, FileStep DEF IInv
  <2> QED BY <2>1, WholeStep DEF IInv
<1>3. IInv => WholeDemosOnly
  BY DEF IInv, LogSound, Sound, WholeDemosOnly
<1> QED BY <1>1, <1>2, <1>3, PTL DEF Spec

-----------------------------------------------------------------------------
(* One version per file, when runs do not overlap                          *)

\* A database's demos are of the version it is stamped with, in a table that
\* exists.
Versioned(db) ==
  /\ \A d \in db.demos : d.version = db.user_version
  /\ db.demos # {} => db.has_demos

LogVersioned == \A i \in 1..Len(wal) : Versioned(wal[i])

Alone == \A p, q \in Procs : pc[p] # "off" /\ pc[q] # "off" => p = q

\* The labels past the stamp.
Stamped == Working \cup {"next", "fail"}

MineTo(p, db) == db.has_demos /\ db.user_version = SchemaVersion[p]

\* What p has established about the file, by where it is: nothing before the
\* version check, then that no demo in it is of another version, and past the
\* stamp that the file is its build's own.
Claim(p) ==
  /\ pc[p] \in {"schema", "stamp"} =>
       Committed.demos = {} \/ Committed.user_version = SchemaVersion[p]
  /\ pc[p] = "stamp" => Committed.has_demos
  /\ pc[p] \in Stamped => MineTo(p, Committed)
  /\ pc[p] \in {"insert_rows", "commit"} => Versioned(txn[p]) /\ MineTo(p, txn[p])

\* A claim outlives the step that made it only because nobody else runs.
VInv == TypeOK /\ FileRead /\ LogVersioned /\ Alone /\ \A p \in Procs : Claim(p)

LEMMA SerialIsNext == [SerialNext]_vars => [Next]_vars
BY DEF SerialNext, Next, StartAlone

\* What is published is committed, and the log stays versioned if it is.
LEMMA PublishVersioned ==
  ASSUME TypeOK, LogVersioned, NEW db, Versioned(db), Publish(db)
  PROVE  LogVersioned' /\ Committed' = db
<1>1. CASE wal' = wal /\ db = Committed
  BY <1>1 DEF LogVersioned, Committed
<1>2. CASE wal' = Append(wal, db)
  BY <1>2 DEF LogVersioned, Committed, TypeOK
<1> QED BY <1>1, <1>2 DEF Publish

LEMMA CommittedVersioned ==
  ASSUME TypeOK, LogVersioned
  PROVE  Committed \in Database /\ Versioned(Committed)
BY CommittedType DEF TypeOK, LogVersioned, Committed

\* Where only p runs, a step of p leaves every other claim empty.
LEMMA OnlyMine ==
  ASSUME TypeOK, Alone, NEW p \in Procs, pc[p] # "off", NEW label \in Label,
         pc' = [pc EXCEPT ![p] = label], Claim(p)'
  PROVE  Alone' /\ \A q \in Procs : Claim(q)'
<1>1. \A q \in Procs : q # p => pc[q] = "off" /\ pc'[q] = "off"
  BY DEF TypeOK, Alone
<1>2. Alone'
  BY <1>1 DEF Alone, TypeOK
<1>3. ASSUME NEW q \in Procs, q # p PROVE Claim(q)'
  BY <1>1, <1>3 DEF Claim, Stamped, Working
<1> QED BY <1>2, <1>3

\* The steps of Db::open.
LEMMA OpenKeepsVersion ==
  ASSUME VInv, NEW p \in Procs,
         Open(p) \/ CheckVersion(p) \/ CreateSchema(p) \/ StampVersion(p)
  PROVE  LogVersioned' /\ Alone' /\ \A q \in Procs : Claim(q)'
<1> USE DEF Stamped, Working, Label
<1>c. Committed \in Database /\ Versioned(Committed)
  BY CommittedVersioned DEF VInv
<1>t. TypeOK /\ Alone /\ LogVersioned /\ Claim(p)
  BY DEF VInv
<1>1. CASE Open(p)
  <2>1. Claim(p)' /\ LogVersioned'
    BY <1>1, <1>c, <1>t DEF Open, Goto, Claim, TypeOK, Committed, Versioned, LogVersioned
  <2> QED BY <1>1, <1>t, <2>1, OnlyMine DEF Open, Goto
<1>2. CASE CheckVersion(p)
  <2>1. Claim(p)' /\ LogVersioned'
    BY <1>2, <1>t DEF CheckVersion, Goto, Leave, Claim, TypeOK, Committed, LogVersioned
  <2> QED BY <1>2, <1>t, <2>1, OnlyMine DEF CheckVersion, Goto, Leave
<1>3. CASE CreateSchema(p)
  <2> DEFINE db == [Committed EXCEPT !.has_demos = TRUE]
  <2>1. /\ db.has_demos /\ db.demos = Committed.demos
        /\ db.user_version = Committed.user_version /\ Versioned(db)
    BY <1>c DEF Database, Versioned
  <2>2. LogVersioned' /\ Committed' = db
    BY <1>3, <1>t, <2>1, PublishVersioned DEF CreateSchema
  <2>3. Claim(p)'
    BY <1>3, <1>t, <2>1, <2>2 DEF CreateSchema, Goto, Claim, TypeOK
  <2> QED BY <1>3, <1>t, <2>2, <2>3, OnlyMine DEF CreateSchema, Goto
<1>4. CASE StampVersion(p)
  <2> DEFINE db == [Committed EXCEPT !.user_version = SchemaVersion[p]]
  <2>1. /\ MineTo(p, db) /\ db.demos = Committed.demos /\ Versioned(db)
    BY <1>4, <1>c, <1>t DEF StampVersion, Claim, Database, Versioned, MineTo
  <2>2. LogVersioned' /\ Committed' = db
    BY <1>4, <1>t, <2>1, PublishVersioned DEF StampVersion
  <2>3. pc'[p] = "next"
    BY <1>4, <1>t DEF StampVersion, Goto, TypeOK
  <2>4. Claim(p)'
    BY <2>1, <2>2, <2>3 DEF Claim, MineTo
  <2> QED BY <1>4, <1>t, <2>2, <2>4, OnlyMine DEF StampVersion, Goto
<1> QED BY <1>1, <1>2, <1>3, <1>4

\* The steps of main and parse_one.
LEMMA ParseKeepsVersion ==
  ASSUME VInv, NEW p \in Procs, Step(p),
         ~(Open(p) \/ CheckVersion(p) \/ CreateSchema(p) \/ StampVersion(p))
  PROVE  LogVersioned' /\ Alone' /\ \A q \in Procs : Claim(q)'
<1> USE DEF Stamped, Working, Label
<1>c. Committed \in Database /\ Versioned(Committed)
  BY CommittedVersioned DEF VInv
<1>t. TypeOK /\ Alone /\ LogVersioned /\ Claim(p)
  BY DEF VInv
\* Most steps leave the database and the open transaction alone.
<1>1. ASSUME pc[p] \in Stamped, NEW label \in ({"off"} \cup Stamped) \ {"insert_rows", "commit"},
             pc' = [pc EXCEPT ![p] = label], UNCHANGED wal
      PROVE  LogVersioned' /\ Alone' /\ \A q \in Procs : Claim(q)'
  <2>1. pc'[p] = label /\ Committed' = Committed /\ LogVersioned'
    BY <1>1, <1>t DEF TypeOK, Committed, LogVersioned
  <2>2. Claim(p)'
    BY <1>1, <1>t, <2>1 DEF Claim, MineTo
  <2> QED BY <1>1, <1>t, <2>1, <2>2, OnlyMine
<1>2. CASE NextDemo(p) \/ Finish(p) \/ FindDemo(p) \/ Extract(p) \/ Begin(p) \/ Fail(p)
  BY <1>1, <1>2 DEF NextDemo, Finish, FindDemo, Extract, Begin, Fail, Goto, Leave, Done
<1>3. CASE InsertDemo(p)
  <2> DEFINE c == File(p)
             row == [id |-> IdOf[c], sha256 |-> c, opt |-> opts[p],
                     version |-> SchemaVersion[p]]
             db == [Committed EXCEPT !.demos = @ \cup {row}]
  <2>1. MineTo(p, Committed)
    BY <1>3, <1>t DEF InsertDemo, Claim
  <2>2. Versioned(db) /\ MineTo(p, db)
    BY <1>c, <2>1 DEF Versioned, MineTo, Database
  <2>3. CASE Goto(p, "fail")
    BY <1>1, <1>3, <2>3 DEF InsertDemo, Goto
  <2>4. CASE txn' = [txn EXCEPT ![p] = db] /\ Goto(p, "insert_rows")
    <3>1. txn'[p] = db /\ pc'[p] = "insert_rows" /\ UNCHANGED wal
      BY <1>3, <1>t, <2>4 DEF InsertDemo, Goto, TypeOK
    <3>2. Committed' = Committed /\ LogVersioned'
      BY <1>t, <3>1 DEF Committed, LogVersioned
    <3>3. Claim(p)'
      BY <2>1, <2>2, <3>1, <3>2 DEF Claim, MineTo, Versioned
    <3> QED BY <1>3, <1>t, <2>4, <3>2, <3>3, OnlyMine DEF InsertDemo, Goto
  <2> QED BY <1>3, <2>3, <2>4 DEF InsertDemo
<1>4. ASSUME pc[p] = "insert_rows", NEW label \in {"insert_rows", "commit"},
             NEW rows, txn' = [txn EXCEPT ![p].rows = rows],
             pc' = [pc EXCEPT ![p] = label], UNCHANGED wal
      PROVE  LogVersioned' /\ Alone' /\ \A q \in Procs : Claim(q)'
  <2>1. /\ txn'[p].demos = txn[p].demos /\ txn'[p].has_demos = txn[p].has_demos
        /\ txn'[p].user_version = txn[p].user_version
    BY <1>4, <1>t DEF TypeOK, Database
  <2>2. pc'[p] = label /\ Committed' = Committed /\ LogVersioned'
    BY <1>4, <1>t DEF TypeOK, Committed, LogVersioned
  <2>3. Claim(p)'
    BY <1>4, <1>t, <2>1, <2>2 DEF Claim, MineTo, Versioned
  <2> QED BY <1>4, <1>t, <2>2, <2>3, OnlyMine
<1>5. CASE InsertRows(p)
  <2>1. pc' = [pc EXCEPT ![p] = "insert_rows"]
    BY <1>5, <1>t DEF InsertRows, TypeOK
  <2> QED BY <1>4, <1>5, <2>1 DEF InsertRows
<1>6. CASE CutAt(p)
  <2>1. txn' = [txn EXCEPT ![p].rows = txn[p].rows \ CutRows(p)]
    BY <1>6 DEF CutAt
  <2> QED BY <1>4, <1>6, <2>1 DEF CutAt, Goto
<1>7. CASE Commit(p)
  <2>1. Versioned(txn[p]) /\ MineTo(p, txn[p])
    BY <1>7, <1>t DEF Commit, Claim
  <2>2. LogVersioned' /\ Committed' = txn[p]
    BY <1>7, <1>t, <2>1, PublishVersioned DEF Commit
  <2>3. pc' = [pc EXCEPT ![p] = "next"] /\ pc'[p] = "next" /\ pc[p] # "off"
    BY <1>7, <1>t DEF Commit, Done, Goto, TypeOK
  <2>4. Claim(p)'
    BY <2>1, <2>2, <2>3 DEF Claim, MineTo
  <2> QED BY <1>t, <2>2, <2>3, <2>4, OnlyMine
<1> QED BY <1>2, <1>3, <1>5, <1>6, <1>7 DEF Step

LEMMA VersionStep == VInv /\ [SerialNext]_vars => VInv'
<1> SUFFICES ASSUME VInv, [SerialNext]_vars PROVE VInv'
  OBVIOUS
<1> USE DEF Stamped, Working
<1>t. TypeOK' /\ FileRead'
  BY SerialIsNext, TypeStep, FileStep DEF VInv
<1>c. Committed \in Database /\ Versioned(Committed)
  BY CommittedVersioned DEF VInv
<1>1. ASSUME NEW p \in Procs, StartAlone(p) PROVE VInv'
  <2>1. \A q \in Procs : pc'[q] = IF q = p THEN "open" ELSE "off"
    BY <1>1 DEF StartAlone, Start, Goto, VInv, TypeOK
  <2>2. Alone' /\ \A q \in Procs : Claim(q)'
    BY <2>1 DEF Alone, Claim
  <2>3. LogVersioned'
    BY <1>1 DEF StartAlone, Start, VInv, LogVersioned
  <2> QED BY <1>t, <2>2, <2>3 DEF VInv
<1>2. ASSUME NEW p \in Procs, Step(p) PROVE VInv'
  BY <1>2, <1>t, OpenKeepsVersion, ParseKeepsVersion DEF VInv
<1>3. ASSUME NEW p \in Procs, Fault(p) PROVE VInv'
  <2>1. PICK label \in {"off", "fail"} : pc' = [pc EXCEPT ![p] = label]
                                         /\ (label = "fail" => pc[p] \in Stamped)
    BY <1>3 DEF Fault, Leave, Goto
  <2>2. pc'[p] = label /\ pc[p] # "off" /\ Committed' = Committed /\ LogVersioned'
    BY <1>3, <2>1 DEF Fault, VInv, TypeOK, Committed, LogVersioned
  <2>3. Claim(p)'
    BY <2>1, <2>2 DEF VInv, Claim, MineTo
  <2>4. Alone' /\ \A q \in Procs : Claim(q)'
    BY <2>1, <2>2, <2>3, OnlyMine DEF VInv, Label
  <2> QED BY <1>t, <2>2, <2>4 DEF VInv
<1>4. ASSUME NEW p \in Procs, Kill(p) PROVE VInv'
  <2>1. /\ pc' = [pc EXCEPT ![p] = "off"] /\ pc'[p] = "off" /\ pc[p] # "off"
        /\ LogVersioned'
    BY <1>4 DEF Kill, Die, VInv, TypeOK, LogVersioned
  <2>2. Claim(p)'
    BY <2>1 DEF Claim
  <2>3. Alone' /\ \A q \in Procs : Claim(q)'
    BY <2>1, <2>2, OnlyMine DEF VInv, Label
  <2> QED BY <1>t, <2>1, <2>3 DEF VInv
<1>5. CASE PowerLoss
  <2>1. PICK n \in 1..Len(wal) : wal' = SubSeq(wal, 1, n)
    BY <1>5 DEF PowerLoss
  <2>2. LogVersioned'
    <3>1. n \in Int /\ 1 <= n /\ \A i \in 1..n : wal[i] \in Database
      BY DEF VInv, TypeOK
    <3>2. /\ Len(wal') = n - 1 + 1
          /\ \A i \in 1..Len(wal') : wal'[i] = wal[1 + i - 1]
      BY <2>1, <3>1, SubSeqProperties
    <3>3. \A i \in 1..Len(wal') : i \in 1..Len(wal) /\ wal'[i] = wal[i]
      BY <3>1, <3>2 DEF VInv, TypeOK
    <3> QED BY <3>3 DEF VInv, LogVersioned
  <2>3. \A q \in Procs : pc'[q] = "off"
    BY <1>5 DEF PowerLoss, Die
  <2>4. Alone' /\ \A q \in Procs : Claim(q)'
    BY <2>3 DEF Alone, Claim
  <2> QED BY <1>t, <2>2, <2>4 DEF VInv
<1>6. CASE Checkpoint
  <2>1. wal' = <<Committed>> /\ UNCHANGED <<pc, txn>>
    BY <1>6 DEF Checkpoint
  <2>2. Committed' = Committed /\ LogVersioned'
    BY <1>c, <2>1 DEF Committed, LogVersioned
  <2>3. Alone' /\ \A q \in Procs : Claim(q)'
    BY <2>1, <2>2 DEF VInv, Alone, Claim
  <2> QED BY <1>t, <2>2, <2>3 DEF VInv
<1>7. CASE UNCHANGED vars
  <2>1. UNCHANGED <<wal, pc, txn>>
    BY <1>7 DEF vars
  <2>2. Committed' = Committed /\ LogVersioned'
    BY <2>1 DEF Committed, VInv, LogVersioned
  <2>3. Alone' /\ \A q \in Procs : Claim(q)'
    BY <2>1, <2>2 DEF VInv, Alone, Claim
  <2> QED BY <1>t, <2>2, <2>3 DEF VInv
<1> QED BY <1>1, <1>2, <1>3, <1>4, <1>5, <1>6, <1>7 DEF SerialNext

\* When each run waits for the one before it, whatever builds run, die or
\* fail, and whichever commits a power loss takes, a file's demos are all of
\* the version it is stamped with: Db::open's check is enough for a user who
\* runs one dumper at a time (two builds at once break it: dumper_two_builds).
THEOREM OneVersion == SerialSpec => []OneVersionPerFile
<1>1. Init => VInv
  <2> SUFFICES ASSUME Init PROVE VInv
    OBVIOUS
  <2>1. TypeOK /\ FileRead
    BY NewFileType DEF Init, TypeOK, FileRead, Working, Label, Option
  <2>2. LogVersioned
    BY DEF Init, LogVersioned, Versioned, NewFile
  <2>3. Alone /\ \A p \in Procs : Claim(p)
    BY DEF Init, Alone, Claim, Stamped, Working
  <2> QED BY <2>1, <2>2, <2>3 DEF VInv
<1>2. VInv /\ [SerialNext]_vars => VInv'
  BY VersionStep
<1>3. VInv => OneVersionPerFile
  BY DEF VInv, LogVersioned, Versioned, OneVersionPerFile
<1> QED BY <1>1, <1>2, <1>3, PTL DEF SerialSpec

-----------------------------------------------------------------------------
(* The database file implements DemoArchive                                *)

\* The demos row of p's demo.
RowOf(p) ==
  [id |-> IdOf[File(p)], sha256 |-> File(p), opt |-> opts[p], version |-> SchemaVersion[p]]

\* p's transaction adds its demo, and nothing else, to the demos committed now.
Pending(p) ==
  /\ conn[p] = "writing" /\ ~Stored(File(p))
  /\ txn[p].demos = Committed.demos \cup {RowOf(p)}

Holding(p) ==
  /\ pc[p] \in {"begin", "insert_demo", "insert_rows", "commit"} => Cuttable(File(p), opts[p])
  /\ pc[p] \in {"insert_rows", "commit"} => Pending(p)

OneWriter == \A p, q \in Procs : conn[p] = "writing" /\ conn[q] = "writing" => p = q

Locked == OneWriter /\ \A p \in Procs : Holding(p)

\* No commit takes a demo back.
LogGrows == \A i, j \in 1..Len(wal) : i <= j => wal[i].demos \subseteq wal[j].demos

\* A transaction's snapshot is still what is committed when it commits, because
\* nobody else writes meanwhile.
AInv == IInv /\ Locked /\ LogGrows

LEMMA PublishCommits ==
  ASSUME TypeOK, NEW db \in Database, Publish(db)
  PROVE  Committed' = db
<1>1. CASE wal' = wal /\ db = Committed
  BY <1>1 DEF Committed
<1>2. CASE wal' = Append(wal, db)
  BY <1>2 DEF Committed, TypeOK
<1> QED BY <1>1, <1>2 DEF Publish

\* The demos committed change only by a commit or a power loss.
LEMMA DemosStay ==
  ASSUME TypeOK, FileRead, [Next]_vars, ~PowerLoss, \A p \in Procs : ~Commit(p)
  PROVE  Committed'.demos = Committed.demos
<1>1. Committed \in Database /\ wal \in Seq(Database) /\ wal # <<>>
  BY CommittedType DEF TypeOK
<1>2. CASE UNCHANGED wal
  BY <1>2 DEF Committed
<1>3. CASE Checkpoint
  BY <1>1, <1>3 DEF Checkpoint, Committed
<1>4. ASSUME NEW p \in Procs, CreateSchema(p)
      PROVE  Committed'.demos = Committed.demos
  <2> DEFINE db == [Committed EXCEPT !.has_demos = TRUE]
  <2>1. db \in Database /\ db.demos = Committed.demos
    BY <1>1 DEF Database
  <2>2. Publish(db)
    BY <1>4 DEF CreateSchema
  <2> HIDE DEF db
  <2> QED BY <2>1, <2>2, PublishCommits
<1>5. ASSUME NEW p \in Procs, StampVersion(p)
      PROVE  Committed'.demos = Committed.demos
  <2> DEFINE db == [Committed EXCEPT !.user_version = SchemaVersion[p]]
  <2>1. db \in Database /\ db.demos = Committed.demos
    BY <1>1, DumperAssumption DEF Database
  <2>2. Publish(db)
    BY <1>5 DEF StampVersion
  <2> HIDE DEF db
  <2> QED BY <2>1, <2>2, PublishCommits
<1>6. \/ UNCHANGED wal \/ Checkpoint \/ \E p \in Procs : CreateSchema(p) \/ StampVersion(p)
  BY DEF Next, Step, Start, Open, CheckVersion, NextDemo, Finish, FindDemo, Extract, Begin,
         InsertDemo, InsertRows, CutAt, Fail, Fault, Kill, vars
<1> QED BY <1>2, <1>3, <1>4, <1>5, <1>6

\* A process that does not move keeps its hold while the demos stay.
LEMMA HoldingStays ==
  ASSUME NEW q \in Procs, Unmoved(q), conn'[q] = conn[q], Committed'.demos = Committed.demos,
         Holding(q)
  PROVE  Holding(q)'
<1>1. File(q)' = File(q) /\ opts'[q] = opts[q] /\ pc'[q] = pc[q] /\ txn'[q] = txn[q]
  BY DEF Unmoved, File
<1>2. RowOf(q)' = RowOf(q) /\ (Stored(File(q))' <=> Stored(File(q)))
  BY <1>1 DEF RowOf, Stored
<1>3. Cuttable(File(q), opts[q])' <=> Cuttable(File(q), opts[q])
  BY <1>1 DEF Cuttable
<1> QED BY <1>1, <1>2, <1>3 DEF Holding, Pending

\* One process moves, and takes the lock only when it is free.
LEMMA LockMoves ==
  ASSUME Locked, NEW p \in Procs, \A q \in Procs \ {p} : Unmoved(q) /\ conn'[q] = conn[q],
         Committed'.demos = Committed.demos,
         conn'[p] = "writing" => conn[p] = "writing" \/ LockFree(p),
         Holding(p)'
  PROVE  Locked'
<1>1. \A q \in Procs \ {p} : Holding(q)'
  BY HoldingStays DEF Locked
<1>2. OneWriter'
  BY DEF Locked, OneWriter, LockFree
<1> QED BY <1>1, <1>2 DEF Locked

\* The steps that neither read a demo in nor write it.
LEMMA IdleLock ==
  ASSUME TypeOK, Locked, NEW p \in Procs, Committed'.demos = Committed.demos,
         \/ Start(p) \/ Open(p) \/ CheckVersion(p) \/ CreateSchema(p) \/ StampVersion(p)
         \/ NextDemo(p) \/ Finish(p) \/ FindDemo(p) \/ Fail(p) \/ Fault(p)
  PROVE  Locked'
<1>1. \A q \in Procs \ {p} : pc'[q] = pc[q] /\ conn'[q] = conn[q] /\ txn'[q] = txn[q]
  BY DEF TypeOK, Start, Open, CheckVersion, CreateSchema, StampVersion, NextDemo, Finish,
         FindDemo, Fail, Fault, Goto, Leave, Done
<1>2. \A q \in Procs \ {p} : /\ step'[q] = step[q] /\ opts'[q] = opts[q]
                             /\ argv'[q] = argv[q] /\ tally'[q] = tally[q]
  BY DEF TypeOK, Start, Open, CheckVersion, CreateSchema, StampVersion, NextDemo, Finish,
         FindDemo, Fail, Fault, Goto, Leave, Done
<1>3. conn'[p] \in {conn[p], "auto"}
  BY DEF TypeOK, Start, Open, CheckVersion, CreateSchema, StampVersion, NextDemo, Finish,
         FindDemo, Fail, Fault
<1>4. pc'[p] \in {"open", "version", "schema", "off", "stamp", "next", "fail", "find", "extract"}
  BY DEF TypeOK, Start, Open, CheckVersion, CreateSchema, StampVersion, NextDemo, Finish,
         FindDemo, Fail, Fault, Goto, Leave, Done
<1>5. Holding(p)'
  BY <1>4 DEF Holding
<1> QED BY <1>1, <1>2, <1>3, <1>5, LockMoves DEF Unmoved

\* The steps from the passes over the file to the cut.
LEMMA WriteLock ==
  ASSUME TypeOK, FileRead, Locked, NEW p \in Procs, Committed'.demos = Committed.demos,
         Extract(p) \/ Begin(p) \/ InsertDemo(p) \/ InsertRows(p) \/ CutAt(p)
  PROVE  Locked'
<1>1. \A q \in Procs \ {p} : Unmoved(q) /\ conn'[q] = conn[q]
  BY DEF TypeOK, Extract, Begin, InsertDemo, InsertRows, CutAt, Goto, Unmoved
<1>2. conn'[p] = "writing" => conn[p] = "writing" \/ LockFree(p)
  BY DEF TypeOK, Extract, Begin, InsertDemo, InsertRows, CutAt
<1>3. File(p)' = File(p) /\ opts'[p] = opts[p]
  BY DEF File, Extract, Begin, InsertDemo, InsertRows, CutAt
<1>4. Cuttable(File(p), opts[p])' <=> Cuttable(File(p), opts[p])
  BY <1>3 DEF Cuttable
<1>5. RowOf(p)' = RowOf(p) /\ (Stored(File(p))' <=> Stored(File(p)))
  BY <1>3 DEF RowOf, Stored
<1>6. Holding(p)
  BY DEF Locked
<1>7. CASE Extract(p)
  <2>1. \/ pc'[p] = "begin" /\ Cuttable(File(p), opts[p])
        \/ pc'[p] = "fail"
    BY <1>7 DEF Extract, Goto, TypeOK
  <2> QED BY <1>1, <1>2, <1>4, <2>1, LockMoves DEF Holding
<1>8. CASE Begin(p)
  <2>1. pc[p] = "begin" /\ pc'[p] \in {"insert_demo", "fail"}
    BY <1>8 DEF Begin, Goto, TypeOK
  <2> QED BY <1>1, <1>2, <1>4, <1>6, <2>1, LockMoves DEF Holding
<1>9. CASE InsertDemo(p)
  <2> DEFINE db == [Committed EXCEPT !.demos = @ \cup {RowOf(p)}]
  <2>1. CASE pc'[p] = "fail"
    BY <1>1, <1>2, <2>1, LockMoves DEF Holding
  <2>2. CASE /\ ~\E d \in Committed.demos : d.id = IdOf[File(p)] \/ d.sha256 = File(p)
             /\ txn' = [txn EXCEPT ![p] = db] /\ Goto(p, "insert_rows")
    <3>1. /\ pc[p] = "insert_demo" /\ pc'[p] = "insert_rows" /\ txn'[p] = db
          /\ conn'[p] = "writing" /\ ~Stored(File(p))
      BY <1>9, <2>2 DEF InsertDemo, Goto, TypeOK, Stored
    <3>2. db.demos = Committed.demos \cup {RowOf(p)}
      BY CommittedType DEF TypeOK, Database
    <3>3. Pending(p)'
      <4>1. (txn[p].demos)' = Committed'.demos \cup {RowOf(p)'}
        BY <1>5, <3>1, <3>2
      <4> QED BY <1>5, <3>1, <4>1 DEF Pending
    <3>4. Holding(p)'
      BY <1>4, <1>6, <3>1, <3>3 DEF Holding
    <3> QED BY <1>1, <1>2, <3>4, LockMoves
  <2> QED BY <1>9, <2>1, <2>2 DEF InsertDemo, RowOf, Goto, TypeOK
<1>10. CASE InsertRows(p) \/ CutAt(p)
  <2>1. /\ pc[p] = "insert_rows" /\ pc'[p] \in {"insert_rows", "commit"}
        /\ conn'[p] = conn[p] /\ txn'[p].demos = txn[p].demos
    BY <1>10 DEF InsertRows, CutAt, Goto, TypeOK, Database
  <2>2. Pending(p)'
    BY <1>5, <1>6, <2>1 DEF Holding, Pending
  <2>3. Holding(p)'
    BY <1>4, <1>6, <2>1, <2>2 DEF Holding
  <2> QED BY <1>1, <1>2, <2>3, LockMoves
<1> QED BY <1>7, <1>8, <1>9, <1>10

\* Whoever commits was the only writer, so no other transaction is open on the
\* demos it changes.
LEMMA CommitLock ==
  ASSUME TypeOK, FileRead, TxnsSound, Locked, NEW p \in Procs, Commit(p)
  PROVE  /\ Locked' /\ Committed' = txn[p]
         /\ Committed'.demos = Committed.demos \cup {RowOf(p)}
         /\ ~Stored(File(p)) /\ Cuttable(File(p), opts[p])
<1>1. Committed' = txn[p]
  <2>1. txn[p] \in Database
    BY DEF TypeOK
  <2> QED BY <2>1, PublishCommits DEF Commit
<1>2. Pending(p) /\ Cuttable(File(p), opts[p])
  BY DEF Locked, Holding, Commit
<1>3. \A q \in Procs \ {p} : Unmoved(q) /\ conn'[q] = conn[q]
  BY DEF Commit, Done, Goto, Unmoved, TypeOK
<1>4. pc'[p] = "next" /\ conn'[p] = "auto"
  BY DEF Commit, Done, Goto, TypeOK
<1>5. OneWriter'
  BY <1>3, <1>4 DEF Locked, OneWriter
<1>6. ASSUME NEW q \in Procs \ {p} PROVE Holding(q)'
  <2>1. pc[q] \notin {"insert_rows", "commit"}
    BY <1>2 DEF Locked, OneWriter, Holding, Pending
  <2>2. File(q)' = File(q) /\ opts'[q] = opts[q] /\ pc'[q] = pc[q]
    BY <1>3 DEF Unmoved, File
  <2>3. Cuttable(File(q), opts[q])' <=> Cuttable(File(q), opts[q])
    BY <2>2 DEF Cuttable
  <2> QED BY <2>1, <2>2, <2>3 DEF Locked, Holding
<1>7. Holding(p)'
  BY <1>4 DEF Holding
<1> QED BY <1>1, <1>2, <1>5, <1>6, <1>7 DEF Locked, Pending

LEMMA DieLock ==
  ASSUME Locked, NEW ps \in SUBSET Procs, Die(ps),
         ps = Procs \/ Committed'.demos = Committed.demos
  PROVE  Locked'
<1>1. \A q \in ps : pc'[q] = "off" /\ conn'[q] = "auto"
  BY DEF Die
<1>2. \A q \in Procs \ ps : Unmoved(q) /\ conn'[q] = conn[q]
  BY DEF Die, Unmoved
<1>3. OneWriter'
  BY <1>1, <1>2 DEF Locked, OneWriter
<1>4. ASSUME NEW q \in Procs PROVE Holding(q)'
  <2>1. CASE q \in ps
    BY <1>1, <2>1 DEF Holding
  <2>2. CASE q \notin ps
    BY <1>2, <2>2, HoldingStays DEF Locked
  <2> QED BY <2>1, <2>2
<1> QED BY <1>3, <1>4 DEF Locked

LEMMA LockStep == AInv /\ [Next]_vars => Locked'
<1> SUFFICES ASSUME AInv, [Next]_vars PROVE Locked'
  OBVIOUS
<1>1. TypeOK /\ FileRead /\ TxnsSound /\ Locked
  BY DEF AInv, IInv
<1>2. ASSUME NEW p \in Procs, Commit(p) PROVE Locked'
  BY <1>1, <1>2, CommitLock
<1>3. CASE PowerLoss
  BY <1>1, <1>3, DieLock DEF PowerLoss
<1>4. CASE ~PowerLoss /\ \A p \in Procs : ~Commit(p)
  <2>1. Committed'.demos = Committed.demos
    BY <1>1, <1>4, DemosStay
  <2>2. ASSUME NEW p \in Procs, Start(p) \/ Step(p) \/ Fault(p) PROVE Locked'
    BY <1>1, <1>4, <2>1, <2>2, IdleLock, WriteLock DEF Step
  <2>3. ASSUME NEW p \in Procs, Kill(p) PROVE Locked'
    BY <1>1, <2>1, <2>3, DieLock DEF Kill
  <2>4. CASE Checkpoint \/ UNCHANGED vars
    <3>1. \A q \in Procs : Unmoved(q) /\ conn'[q] = conn[q]
      BY <2>4 DEF Checkpoint, vars, Unmoved
    <3>2. \A q \in Procs : Holding(q)'
      BY <1>1, <2>1, <3>1, HoldingStays DEF Locked
    <3> QED BY <1>1, <3>1, <3>2 DEF Locked, OneWriter
  <2> QED BY <2>2, <2>3, <2>4, <1>4 DEF Next
<1> QED BY <1>2, <1>3, <1>4

LEMMA PublishGrows ==
  ASSUME TypeOK, LogGrows, NEW db \in Database, Publish(db), Committed.demos \subseteq db.demos
  PROVE  LogGrows'
<1>1. CASE wal' = wal
  BY <1>1 DEF LogGrows
<1>2. CASE wal' = Append(wal, db)
  <2>1. /\ Len(wal) \in Nat \ {0} /\ Len(wal') = Len(wal) + 1 /\ wal'[Len(wal) + 1] = db
        /\ \A i \in 1..Len(wal) : wal'[i] = wal[i]
    BY <1>2 DEF TypeOK
  <2>2. \A i \in 1..Len(wal) : wal[i].demos \subseteq db.demos
    BY <2>1 DEF LogGrows, Committed
  <2> SUFFICES ASSUME NEW i \in 1..Len(wal'), NEW j \in 1..Len(wal'), i <= j
               PROVE  wal'[i].demos \subseteq wal'[j].demos
    BY DEF LogGrows
  <2>3. CASE j = Len(wal) + 1
    <3>1. i \in 1..Len(wal) \/ i = j
      BY <2>1, <2>3
    <3> QED BY <2>1, <2>2, <2>3, <3>1
  <2>4. CASE j # Len(wal) + 1
    BY <2>1, <2>4 DEF LogGrows
  <2> QED BY <2>3, <2>4
<1> QED BY <1>1, <1>2 DEF Publish

\* The committed state after a power loss is an earlier one.
LEMMA LostSuffix ==
  ASSUME TypeOK, LogGrows, PowerLoss
  PROVE  /\ \E n \in 1..Len(wal) : Committed' = wal[n]
         /\ Committed'.demos \subseteq Committed.demos
         /\ LogGrows'
<1>1. PICK n \in 1..Len(wal) : wal' = SubSeq(wal, 1, n)
  BY DEF PowerLoss
<1>2. n \in Int /\ 1 <= n /\ \A i \in 1..n : wal[i] \in Database
  BY DEF TypeOK
<1>3. /\ Len(wal') = n - 1 + 1
      /\ \A i \in 1..Len(wal') : wal'[i] = wal[1 + i - 1]
  BY <1>1, <1>2, SubSeqProperties
<1>4. Len(wal') = n /\ \A i \in 1..n : i \in 1..Len(wal) /\ wal'[i] = wal[i]
  BY <1>2, <1>3 DEF TypeOK
<1>5. Committed' = wal[n]
  BY <1>2, <1>4 DEF Committed
<1>6. Committed'.demos \subseteq Committed.demos
  <2>1. Len(wal) \in 1..Len(wal) /\ n <= Len(wal)
    BY DEF TypeOK
  <2>2. wal[n].demos \subseteq wal[Len(wal)].demos
    BY <2>1 DEF LogGrows
  <2> QED BY <1>5, <2>2 DEF Committed
<1>7. LogGrows'
  BY <1>4 DEF LogGrows
<1> QED BY <1>5, <1>6, <1>7

LEMMA GrowStep == AInv /\ [Next]_vars => LogGrows'
<1> SUFFICES ASSUME AInv, [Next]_vars PROVE LogGrows'
  OBVIOUS
<1>1. TypeOK /\ FileRead /\ TxnsSound /\ Locked /\ LogGrows /\ Committed \in Database
  BY CommittedType DEF AInv, IInv, TypeOK
<1>2. CASE UNCHANGED wal
  BY <1>1, <1>2 DEF LogGrows
<1>3. CASE PowerLoss
  BY <1>1, <1>3, LostSuffix
<1>4. CASE Checkpoint
  <2>1. Len(wal') = 1
    BY <1>4 DEF Checkpoint
  <2>2. \A i, j \in 1..Len(wal') : i = j
    BY <2>1
  <2> QED BY <2>2 DEF LogGrows
<1>5. ASSUME NEW p \in Procs, CreateSchema(p) PROVE LogGrows'
  <2> DEFINE db == [Committed EXCEPT !.has_demos = TRUE]
  <2>1. db \in Database /\ db.demos = Committed.demos
    BY <1>1 DEF Database
  <2>2. Publish(db)
    BY <1>5 DEF CreateSchema
  <2> HIDE DEF db
  <2> QED BY <1>1, <2>1, <2>2, PublishGrows
<1>6. ASSUME NEW p \in Procs, StampVersion(p) PROVE LogGrows'
  <2> DEFINE db == [Committed EXCEPT !.user_version = SchemaVersion[p]]
  <2>1. db \in Database /\ db.demos = Committed.demos
    BY <1>1, DumperAssumption DEF Database
  <2>2. Publish(db)
    BY <1>6 DEF StampVersion
  <2> HIDE DEF db
  <2> QED BY <1>1, <2>1, <2>2, PublishGrows
<1>7. ASSUME NEW p \in Procs, Commit(p) PROVE LogGrows'
  <2>1. txn[p] \in Database /\ Publish(txn[p])
    BY <1>1, <1>7 DEF Commit, TypeOK
  <2>2. Committed.demos \subseteq txn[p].demos
    BY <1>1, <1>7, CommitLock
  <2> QED BY <1>1, <2>1, <2>2, PublishGrows
<1>8. \/ UNCHANGED wal \/ PowerLoss \/ Checkpoint
      \/ \E p \in Procs : CreateSchema(p) \/ StampVersion(p) \/ Commit(p)
  BY DEF Next, Step, Start, Open, CheckVersion, NextDemo, Finish, FindDemo, Extract, Begin,
         InsertDemo, InsertRows, CutAt, Fail, Fault, Kill, vars
<1> QED BY <1>2, <1>3, <1>4, <1>5, <1>6, <1>7, <1>8

LEMMA AInvInit == Init => AInv
<1> SUFFICES ASSUME Init PROVE AInv
  OBVIOUS
<1>1. LogSound
  BY DEF Init, LogSound, Sound, Keys, Whole, RowsIn, NewFile
<1>2. TxnsSound /\ Locked /\ LogGrows
  BY DEF Init, TxnsSound, Locked, OneWriter, Holding, LogGrows
<1>3. TypeOK /\ FileRead
  BY NewFileType DEF Init, TypeOK, FileRead, Working, Label, Option
<1> QED BY <1>1, <1>2, <1>3 DEF AInv, IInv

LEMMA AInvStep == AInv /\ [Next]_vars => AInv'
<1>1. AInv /\ [Next]_vars => TypeOK' /\ FileRead'
  BY TypeStep, FileStep DEF AInv, IInv
<1> QED BY <1>1, WholeStep, LockStep, GrowStep DEF AInv, IInv

-----------------------------------------------------------------------------
(* The refinement                                                          *)

EntryOf(d) == [file |-> d.sha256, opt |-> d.opt, rows |-> WholeRows(d.sha256, d.opt)]

\* In a sound database the demos table alone decides the archive.
LEMMA ArchiveOfSound ==
  ASSUME NEW db, Sound(db)
  PROVE  ArchiveOf(db) = {EntryOf(d) : d \in db.demos}
BY DEF ArchiveOf, EntryOf, Sound, Whole

LEMMA ArchiveStep ==
  ASSUME AInv, AInv', [Next]_vars
  PROVE  [Archive!Next]_(ArchiveOf(Committed))
<1>1. /\ TypeOK /\ FileRead /\ TxnsSound /\ Locked /\ LogGrows
      /\ Sound(Committed) /\ Committed \in Database
  BY CommittedSound, CommittedType DEF AInv, IInv, TypeOK
<1>2. Sound(Committed')
  <2>1. (TypeOK /\ LogSound => Sound(Committed))'
    <3>1. \A i \in 1..Len(wal') : LogSound' => Sound(wal'[i])
      BY DEF LogSound, Sound, Keys, Whole, RowsIn
    <3>2. TypeOK' => Len(wal') \in 1..Len(wal')
      BY DEF TypeOK
    <3>3. TypeOK' /\ LogSound' => Sound(wal'[Len(wal')])
      BY <3>1, <3>2
    <3> QED BY <3>3 DEF Committed, Sound, Keys, Whole, RowsIn
  <2> QED BY <2>1 DEF AInv, IInv, Sound, Keys, Whole, RowsIn
<1>3. /\ ArchiveOf(Committed) = {EntryOf(d) : d \in Committed.demos}
      /\ ArchiveOf(Committed)' = {EntryOf(d) : d \in Committed'.demos}
  <2>1. ArchiveOf(Committed)' = ArchiveOf(Committed')
    BY DEF ArchiveOf, RowsIn
  <2> QED BY <1>1, <1>2, <2>1, ArchiveOfSound
<1>4. CASE ~PowerLoss /\ \A p \in Procs : ~Commit(p)
  <2>1. Committed'.demos = Committed.demos
    BY <1>1, <1>4, DemosStay
  <2> QED BY <1>3, <2>1
<1>5. ASSUME NEW p \in Procs, Commit(p) PROVE Archive!Next
  <2> DEFINE c == File(p)
             o == opts[p]
  <2>1. /\ Committed'.demos = Committed.demos \cup {RowOf(p)}
        /\ ~Stored(c) /\ Cuttable(c, o)
    BY <1>1, <1>5, CommitLock
  <2>2. c \in Content /\ o \in Option
    BY <1>1, <1>5 DEF FileRead, Working, Commit, TypeOK
  <2>3. EntryOf(RowOf(p)) = [file |-> c, opt |-> o, rows |-> WholeRows(c, o)]
    BY DEF EntryOf, RowOf
  <2>4. ArchiveOf(Committed)' = ArchiveOf(Committed) \cup {EntryOf(RowOf(p))}
    BY <1>3, <2>1
  <2>5. \A e \in ArchiveOf(Committed) : e.file # c
    BY <1>3, <2>1 DEF Stored, EntryOf
  <2> HIDE DEF c, o
  <2>6. Archive!Add(c, o)
    BY <2>1, <2>3, <2>4, <2>5
       DEF Archive!Add, Archive!Cuttable, Archive!WholeRows, Archive!Kept, Archive!IsCut,
           Cuttable, WholeRows, Kept, IsCut
  <2>7. c \in Content /\ o \in Archive!Option
    BY <2>2 DEF Option, Archive!Option
  <2> QED BY <2>6, <2>7 DEF Archive!Next
<1>6. CASE PowerLoss
  <2>1. Committed'.demos \subseteq Committed.demos
    BY <1>1, <1>6, LostSuffix
  <2>2. ArchiveOf(Committed)' \in SUBSET ArchiveOf(Committed)
    BY <1>3, <2>1
  <2>3. MaxLosses > 0
    BY <1>1, <1>6, DumperAssumption DEF PowerLoss, TypeOK
  <2> QED BY <2>2, <2>3 DEF Archive!Next, Archive!PowerLoss
<1> QED BY <1>4, <1>5, <1>6

\* Whatever processes, faults, kills and power losses do to it, a reader of the
\* output file sees an archive of whole demos: each appears in one step, complete,
\* once, and stays unless a power loss takes it back whole (pipeline.rs:65-243).
THEOREM ArchiveImplemented == Spec => ImplementsArchive
<1>1. Init => Archive!Init
  BY DEF Init, Archive!Init, ArchiveOf, Committed, NewFile
<1>2. AInv /\ AInv' /\ [Next]_vars => [Archive!Next]_(ArchiveOf(Committed))
  BY ArchiveStep
<1> QED BY <1>1, <1>2, AInvInit, AInvStep, PTL DEF Spec, ImplementsArchive, Archive!Spec

-----------------------------------------------------------------------------
(* What a run's exit says                                                  *)

\* The demo files stored, and the i-th file on p's command line.
Files == {d.sha256 : d \in Committed.demos}
FileAt(p, i) == ContentOf[argv[p][i]]

\* p could extract file c.
Could(p, c) == ~faulted[p] /\ c \in Content /\ Extractable(c, opts[p])

\* Until a power loss, the demos p has counted, other than failed, are stored;
\* and without an outside failure so are those it could extract.
Counted(p) ==
  losses = 0 =>
    \A i \in 1..Len(tally[p]) :
      tally[p][i] # "failed" \/ Could(p, FileAt(p, i)) => FileAt(p, i) \in Files

\* A demo fails without an outside failure only when it could not be extracted
\* or is stored already, because parse_one finds no transaction open.
FailedRightly(p) ==
  /\ pc[p] \notin {"insert_demo", "insert_rows", "commit", "fail"} => conn[p] = "auto"
  /\ pc[p] = "fail" /\ Could(p, File(p)) => File(p) \in Files

\* A run that has exited by itself went through its command line.
Exited(p) ==
  /\ exit[p] = "ok" \/ (exit[p] = "error" /\ ~faulted[p]) =>
       pc[p] = "off" /\ Len(tally[p]) = Len(argv[p])
  /\ exit[p] = "ok" => \A i \in 1..Len(tally[p]) : tally[p][i] # "failed"

Told(p) == Counted(p) /\ FailedRightly(p) /\ Exited(p)

EInv == AInv /\ \A p \in Procs : Told(p)

\* Except for a power loss, what is stored stays.
LEMMA FilesStay ==
  ASSUME AInv, [Next]_vars, ~PowerLoss
  PROVE  losses' = losses /\ Files \subseteq Files'
<1>1. TypeOK /\ FileRead /\ TxnsSound /\ Locked
  BY DEF AInv, IInv
<1>2. losses' = losses
  BY DEF Next, Step, Start, Open, CheckVersion, CreateSchema, StampVersion, NextDemo,
         Finish, FindDemo, Extract, Begin, InsertDemo, InsertRows, CutAt, Commit, Fail,
         Fault, Kill, Checkpoint, bounds, vars
<1>3. Committed.demos \subseteq Committed'.demos
  <2>1. CASE \E p \in Procs : Commit(p)
    BY <1>1, <2>1, CommitLock
  <2>2. CASE \A p \in Procs : ~Commit(p)
    BY <1>1, <2>2, DemosStay
  <2> QED BY <2>1, <2>2
<1> QED BY <1>2, <1>3 DEF Files

\* The count stays true of a process that counts nothing.
LEMMA CountedStays ==
  ASSUME losses' = losses, Files \subseteq Files', NEW p \in Procs, Counted(p),
         tally'[p] = tally[p], argv'[p] = argv[p], opts'[p] = opts[p],
         faulted[p] => faulted'[p]
  PROVE  Counted(p)'
<1>1. \A i : FileAt(p, i)' = FileAt(p, i)
  BY DEF FileAt
<1>2. \A i : Could(p, FileAt(p, i))' => Could(p, FileAt(p, i))
  BY <1>1 DEF Could, Extractable, Cuttable
<1> QED BY <1>1, <1>2 DEF Counted

LEMMA ToldStays ==
  ASSUME losses' = losses, Files \subseteq Files', NEW p \in Procs, Told(p),
         Unmoved(p), conn'[p] = conn[p], exit'[p] = exit[p], faulted'[p] = faulted[p]
  PROVE  Told(p)'
<1>1. File(p)' = File(p)
  BY DEF Unmoved, File
<1>2. Could(p, File(p))' => Could(p, File(p))
  BY <1>1 DEF Unmoved, Could, Extractable, Cuttable
<1>3. Counted(p)'
  BY CountedStays DEF Told, Unmoved
<1>4. FailedRightly(p)'
  BY <1>1, <1>2 DEF Told, FailedRightly, Unmoved
<1>5. Exited(p)'
  BY DEF Told, Exited, Unmoved
<1> QED BY <1>3, <1>4, <1>5 DEF Told

\* One more demo counted.
LEMMA CountedNext ==
  ASSUME TypeOK, losses' = losses, Files \subseteq Files', NEW p \in Procs, Counted(p),
         NEW outcome \in {"parsed", "skipped", "failed"}, Done(p, outcome),
         UNCHANGED <<argv, opts, faulted>>,
         outcome # "failed" \/ Could(p, File(p)) => File(p) \in Files'
  PROVE  Counted(p)'
<1> DEFINE n == Len(tally[p])
<1>1. /\ n \in Nat /\ tally[p] \in Seq({"parsed", "skipped", "failed"})
      /\ tally'[p] = Append(tally[p], outcome)
  BY DEF Done, TypeOK
<1>2. /\ Len(tally'[p]) = n + 1 /\ tally'[p][n + 1] = outcome
      /\ \A i \in 1..n : tally'[p][i] = tally[p][i]
  BY <1>1
<1>3. \A i : FileAt(p, i)' = FileAt(p, i)
  BY DEF FileAt
<1>4. FileAt(p, n + 1) = File(p)
  BY DEF FileAt, File
<1>5. \A i : Could(p, FileAt(p, i))' => Could(p, FileAt(p, i))
  BY <1>3 DEF Could, Extractable, Cuttable
<1>6. ASSUME losses = 0, NEW i \in 1..(n + 1),
             tally'[p][i] # "failed" \/ Could(p, FileAt(p, i))
      PROVE  FileAt(p, i) \in Files'
  <2>1. CASE i = n + 1
    BY <1>2, <1>4, <1>6, <2>1
  <2>2. CASE i # n + 1
    <3>1. i \in 1..n
      BY <1>1, <2>2
    <3> QED BY <1>2, <1>6, <3>1 DEF Counted
  <2> QED BY <2>1, <2>2
<1> QED BY <1>2, <1>3, <1>5, <1>6 DEF Counted

\* The steps that count a demo.
LEMMA CountStep ==
  ASSUME AInv, losses' = losses, Files \subseteq Files', NEW p \in Procs, Told(p),
         NEW outcome \in {"parsed", "skipped", "failed"}, Done(p, outcome),
         UNCHANGED <<argv, opts, faulted, exit>>,
         pc[p] \in {"find", "commit", "fail"}, conn'[p] = "auto",
         outcome # "failed" \/ Could(p, File(p)) => File(p) \in Files'
  PROVE  Told(p)'
<1>1. TypeOK
  BY DEF AInv, IInv
<1>2. Counted(p)'
  BY <1>1, CountedNext DEF Told
<1>3. pc'[p] = "next"
  BY <1>1 DEF Done, Goto, TypeOK
<1>4. FailedRightly(p)'
  BY <1>3 DEF FailedRightly
<1>5. Exited(p)'
  BY DEF Told, Exited
<1> QED BY <1>2, <1>4, <1>5 DEF Told

\* A step of p itself.
LEMMA OwnStep ==
  ASSUME AInv, losses' = losses, Files \subseteq Files', NEW p \in Procs, Told(p), Step(p)
  PROVE  Told(p)'
<1>1. TypeOK /\ FileRead /\ TxnsSound /\ Locked /\ Sound(Committed) /\ Committed \in Database
  BY CommittedSound, CommittedType DEF AInv, IInv, TypeOK
<1>2. Counted(p) /\ FailedRightly(p) /\ Exited(p)
  BY DEF Told
<1>3. CASE FindDemo(p) /\ Done(p, "skipped")
  <2>1. File(p) \in Files \/ ~\E d \in Committed.demos : d.sha256 = File(p)
    BY DEF Files
  <2>2. pc'[p] = "next"
    BY <1>1, <1>3 DEF Done, Goto, TypeOK
  <2>3. File(p) \in Files
    BY <1>1, <1>3, <2>1, <2>2 DEF FindDemo, Goto, TypeOK
  <2>4. pc[p] = "find" /\ conn'[p] = "auto"
    BY <1>2, <1>3 DEF FindDemo, FailedRightly
  <2> QED BY <1>3, <2>3, <2>4, CountStep DEF FindDemo
<1>4. CASE Commit(p)
  <2>1. RowOf(p) \in Committed'.demos
    BY <1>1, <1>4, CommitLock
  <2>2. File(p) \in Files'
    BY <2>1 DEF Files, RowOf
  <2> QED BY <1>1, <1>4, <2>2, CountStep DEF Commit, TypeOK
<1>5. CASE Fail(p)
  BY <1>1, <1>2, <1>5, CountStep DEF Fail, FailedRightly, TypeOK
\* The others count nothing and leave the options.
<1>6. ASSUME UNCHANGED <<argv, opts, tally, faulted>>, pc[p] # "off",
             exit'[p] = exit[p] \/ exit'[p] = "refused"
      PROVE  /\ Counted(p)' /\ Exited(p)' /\ File(p)' = File(p)
             /\ Could(p, File(p))' => Could(p, File(p))
  <2>1. File(p)' = File(p)
    BY <1>6 DEF File
  <2>2. Could(p, File(p))' => Could(p, File(p))
    BY <1>6, <2>1 DEF Could, Extractable, Cuttable
  <2>3. Counted(p)'
    BY <1>2, <1>6, CountedStays
  <2>4. Exited(p)'
    BY <1>2, <1>6 DEF Exited
  <2> QED BY <2>1, <2>2, <2>3, <2>4
<1>7. CASE \/ Open(p) \/ CheckVersion(p) \/ CreateSchema(p) \/ StampVersion(p)
           \/ FindDemo(p) /\ UNCHANGED tally
  <2>1. /\ UNCHANGED <<argv, opts, tally, faulted>> /\ pc[p] # "off"
        /\ exit'[p] = exit[p] \/ exit'[p] = "refused"
    BY <1>1, <1>7 DEF Open, CheckVersion, CreateSchema, StampVersion, FindDemo, Leave, TypeOK
  <2>2. /\ pc[p] \notin {"insert_demo", "insert_rows", "commit", "fail"}
        /\ pc'[p] \in {"version", "schema", "off", "stamp", "next", "extract"}
        /\ conn'[p] = conn[p]
    BY <1>1, <1>7 DEF Open, CheckVersion, CreateSchema, StampVersion, FindDemo, Leave, Goto,
                      Done, TypeOK
  <2>3. FailedRightly(p)'
    BY <1>2, <2>2 DEF FailedRightly
  <2> QED BY <1>6, <2>1, <2>3 DEF Told
<1>8. CASE NextDemo(p)
  <2>1. UNCHANGED <<argv, opts, tally, faulted, exit, conn>> /\ pc[p] = "next"
    BY <1>8 DEF NextDemo
  <2>2. pc'[p] = "find" \/ (pc'[p] = "fail" /\ File(p) = NoFile)
    BY <1>1, <1>8 DEF NextDemo, Goto, TypeOK
  <2>3. FailedRightly(p)'
    <3>1. conn'[p] = "auto" /\ Could(p, File(p))' => Could(p, File(p))
      BY <1>2, <1>6, <2>1 DEF FailedRightly
    <3>2. ~(pc'[p] = "fail" /\ Could(p, File(p)))
      BY <2>2, DumperAssumption DEF Could
    <3> QED BY <1>2, <1>6, <2>1, <2>2, <3>2 DEF FailedRightly
  <2> QED BY <1>6, <2>1, <2>3 DEF Told
<1>9. CASE Finish(p)
  <2>1. /\ Len(tally[p]) = Len(argv[p]) /\ pc'[p] = "off"
        /\ exit'[p] = IF \E i \in 1..Len(tally[p]) : tally[p][i] = "failed" THEN "error" ELSE "ok"
        /\ UNCHANGED <<argv, opts, tally, faulted, conn>>
    BY <1>1, <1>9 DEF Finish, Leave, Goto, TypeOK
  <2>2. Exited(p)'
    BY <2>1 DEF Exited
  <2>3. Counted(p)'
    BY <1>2, <2>1, CountedStays
  <2>4. FailedRightly(p)'
    BY <1>2, <1>9, <2>1 DEF FailedRightly, Finish
  <2> QED BY <2>2, <2>3, <2>4 DEF Told
<1>10. CASE Extract(p)
  <2>1. UNCHANGED <<argv, opts, tally, faulted, exit, conn>> /\ pc[p] = "extract"
    BY <1>10 DEF Extract
  <2>2. pc'[p] = "begin" \/ (pc'[p] = "fail" /\ ~(File(p) \in Parsable /\ Cuttable(File(p), opts[p])))
    BY <1>1, <1>10 DEF Extract, Goto, TypeOK
  <2>3. ~(pc'[p] = "fail" /\ Could(p, File(p)))
    BY <2>2 DEF Could, Extractable
  <2>4. FailedRightly(p)'
    BY <1>2, <1>6, <2>1, <2>2, <2>3 DEF FailedRightly
  <2> QED BY <1>6, <2>1, <2>4 DEF Told
<1>11. CASE Begin(p)
  <2>1. UNCHANGED <<argv, opts, tally, faulted, exit>> /\ pc[p] = "begin"
    BY <1>11 DEF Begin
  <2>2. pc'[p] = "insert_demo"
    BY <1>1, <1>2, <1>11 DEF Begin, Goto, TypeOK, FailedRightly
  <2>3. FailedRightly(p)'
    BY <2>2 DEF FailedRightly
  <2> QED BY <1>6, <2>1, <2>3 DEF Told
<1>12. CASE InsertDemo(p)
  <2>1. UNCHANGED <<argv, opts, tally, faulted, exit, wal>> /\ pc[p] = "insert_demo"
    BY <1>12 DEF InsertDemo
  <2>2. \/ pc'[p] = "insert_rows"
        \/ pc'[p] = "fail" /\ \E d \in Committed.demos : d.id = IdOf[File(p)] \/ d.sha256 = File(p)
    BY <1>1, <1>12 DEF InsertDemo, Goto, TypeOK
  <2>3. ASSUME pc'[p] = "fail", Could(p, File(p)) PROVE File(p) \in Files
    <3>1. PICK d \in Committed.demos : d.id = IdOf[File(p)] \/ d.sha256 = File(p)
      BY <2>2, <2>3
    <3>2. d.id = IdOf[d.sha256] /\ d.sha256 \in Content
      <4>1. d \in DemoRow
        BY <1>1 DEF Database
      <4> QED BY <1>1, <4>1 DEF Sound, Keys, DemoRow
    <3>3. d.sha256 = File(p)
      BY <2>3, <3>1, <3>2 DEF Could, Extractable
    <3> QED BY <3>3 DEF Files
  <2>4. pc'[p] \in {"insert_rows", "fail"}
    BY <2>2
  <2>5. FailedRightly(p)'
    BY <1>6, <2>1, <2>3, <2>4 DEF FailedRightly
  <2> QED BY <1>6, <2>1, <2>5 DEF Told
<1>13. CASE InsertRows(p) \/ CutAt(p)
  <2>1. /\ UNCHANGED <<argv, opts, tally, faulted, exit>> /\ pc[p] # "off"
        /\ pc'[p] \in {"insert_rows", "commit"}
    BY <1>1, <1>13 DEF InsertRows, CutAt, Goto, TypeOK
  <2>2. FailedRightly(p)'
    BY <2>1 DEF FailedRightly
  <2> QED BY <1>6, <2>1, <2>2 DEF Told
<1> QED BY <1>3, <1>4, <1>5, <1>7, <1>8, <1>9, <1>10, <1>11, <1>12, <1>13 DEF Step, FindDemo

LEMMA ToldStep ==
  ASSUME EInv, [Next]_vars, NEW p \in Procs
  PROVE  Told(p)'
<1>1. AInv /\ TypeOK /\ Told(p) /\ Counted(p) /\ FailedRightly(p) /\ Exited(p)
  BY DEF EInv, AInv, IInv, Told
\* p dies.
<1>2. ASSUME NEW ps \in SUBSET Procs, p \in ps, Die(ps), Counted(p)' PROVE Told(p)'
  <2>1. /\ pc'[p] = "off" /\ conn'[p] = "auto" /\ UNCHANGED <<argv, tally, faulted>>
        /\ exit'[p] = IF pc[p] # "off" THEN "killed" ELSE exit[p]
    BY <1>2 DEF Die
  <2>2. FailedRightly(p)'
    BY <2>1 DEF FailedRightly
  <2>3. Exited(p)'
    BY <1>1, <2>1 DEF Exited
  <2> QED BY <1>2, <2>2, <2>3 DEF Told
<1>3. CASE PowerLoss
  <2>1. losses' # 0 /\ Die(Procs)
    BY <1>1, <1>3 DEF PowerLoss, TypeOK
  <2> QED BY <1>2, <2>1 DEF Counted
<1>4. CASE ~PowerLoss
  <2>1. losses' = losses /\ Files \subseteq Files'
    BY <1>1, <1>4, FilesStay
  <2>2. ASSUME Unmoved(p), conn'[p] = conn[p], exit'[p] = exit[p], faulted'[p] = faulted[p]
        PROVE  Told(p)'
    BY <1>1, <2>1, <2>2, ToldStays
  <2>3. ASSUME NEW q \in Procs, q # p, Start(q) \/ Step(q) \/ Fault(q)
        PROVE  Told(p)'
    <3>1. pc'[p] = pc[p] /\ conn'[p] = conn[p] /\ txn'[p] = txn[p] /\ exit'[p] = exit[p]
      BY <1>1, <2>3 DEF TypeOK, Step, Start, Open, CheckVersion, CreateSchema, StampVersion,
         NextDemo, Finish, FindDemo, Extract, Begin, InsertDemo, InsertRows, CutAt, Commit,
         Fail, Fault, Goto, Leave, Done
    <3>2. /\ step'[p] = step[p] /\ opts'[p] = opts[p] /\ argv'[p] = argv[p]
          /\ tally'[p] = tally[p] /\ faulted'[p] = faulted[p]
      BY <1>1, <2>3 DEF TypeOK, Step, Start, Open, CheckVersion, CreateSchema, StampVersion,
         NextDemo, Finish, FindDemo, Extract, Begin, InsertDemo, InsertRows, CutAt, Commit,
         Fail, Fault, Goto, Leave, Done
    <3> QED BY <2>2, <3>1, <3>2 DEF Unmoved
  <2>4. CASE Step(p)
    BY <1>1, <2>1, <2>4, OwnStep
  <2>5. CASE Start(p)
    <3>1. /\ pc[p] = "off" /\ pc'[p] = "open" /\ tally'[p] = <<>> /\ exit'[p] = "none"
          /\ conn'[p] = conn[p]
      BY <1>1, <2>5 DEF Start, Goto, TypeOK
    <3> QED BY <1>1, <3>1 DEF Told, Counted, FailedRightly, Exited
  <2>6. CASE Fault(p)
    <3>1. /\ faulted'[p] /\ UNCHANGED <<argv, opts, tally>> /\ pc[p] # "off"
          /\ \/ /\ pc'[p] = "off" /\ conn'[p] = conn[p] /\ exit'[p] = "error"
                /\ pc[p] \in {"open", "version", "schema", "stamp"}
             \/ pc'[p] = "fail" /\ exit'[p] = exit[p]
      BY <1>1, <2>6 DEF Fault, Leave, Goto, TypeOK
    <3>2. Counted(p)'
      BY <1>1, <2>1, <3>1, CountedStays
    <3>3. FailedRightly(p)'
      BY <1>1, <3>1 DEF FailedRightly, Could
    <3>4. Exited(p)'
      BY <1>1, <3>1 DEF Exited
    <3> QED BY <3>2, <3>3, <3>4 DEF Told
  <2>7. ASSUME NEW q \in Procs, Kill(q) PROVE Told(p)'
    <3>1. CASE q = p
      <4>1. UNCHANGED <<argv, opts, tally, faulted>> /\ Die({p})
        BY <2>7, <3>1 DEF Kill, Die
      <4>2. Counted(p)'
        BY <1>1, <2>1, <4>1, CountedStays
      <4> QED BY <1>2, <4>1, <4>2
    <3>2. CASE q # p
      BY <2>2, <2>7, <3>2 DEF Kill, Die, Unmoved
    <3> QED BY <3>1, <3>2
  <2>8. CASE Checkpoint \/ UNCHANGED vars
    BY <2>2, <2>8 DEF Checkpoint, vars, Unmoved
  <2> QED BY <1>4, <2>3, <2>4, <2>5, <2>6, <2>7, <2>8 DEF Next
<1> QED BY <1>3, <1>4

LEMMA EInvInit == Init => EInv
<1>1. Init => \A p \in Procs : Told(p)
  BY DEF Init, Told, Counted, FailedRightly, Exited
<1> QED BY <1>1, AInvInit DEF EInv

LEMMA EInvStep == EInv /\ [Next]_vars => EInv'
BY AInvStep, ToldStep DEF EInv

\* When a run exits with success, every file on its command line is in the
\* database, whatever other runs did to the file meanwhile (main.rs:104-131).
THEOREM ExitOk == Spec => []ExitOkMeansStored
<1>1. EInv => ExitOkMeansStored
  <2> SUFFICES ASSUME EInv, NEW p \in Procs, exit[p] = "ok", losses = 0,
                      NEW i \in 1..Len(argv[p])
               PROVE  Stored(ContentOf[argv[p][i]])
    BY DEF ExitOkMeansStored
  <2>1. i \in 1..Len(tally[p]) /\ tally[p][i] # "failed" /\ Counted(p)
    BY DEF EInv, Told, Exited
  <2> QED BY <2>1 DEF Counted, Files, FileAt, Stored
<1> QED BY <1>1, EInvInit, EInvStep, PTL DEF Spec

\* A run that no outside failure hit has stored each demo it could extract,
\* whatever became of the other demos on its command line and whatever other
\* runs did: every failed demo left no transaction open (main.rs:115-131).
THEOREM SparesTheRest == Spec => []OneBadDemoSparesTheRest
<1>1. EInv => OneBadDemoSparesTheRest
  <2> SUFFICES ASSUME EInv, NEW p \in Procs, exit[p] \in {"ok", "error"}, ~faulted[p],
                      losses = 0, NEW i \in 1..Len(argv[p]),
                      ContentOf[argv[p][i]] \in Content,
                      Extractable(ContentOf[argv[p][i]], opts[p])
               PROVE  Stored(ContentOf[argv[p][i]])
    BY DEF OneBadDemoSparesTheRest
  <2>1. i \in 1..Len(tally[p]) /\ Counted(p)
    BY DEF EInv, Told, Exited
  <2>2. Could(p, FileAt(p, i))
    BY DEF Could, FileAt
  <2> QED BY <2>1, <2>2 DEF Counted, Files, FileAt, Stored
<1> QED BY <1>1, EInvInit, EInvStep, PTL DEF Spec
==============================================================================
