------------------------------- MODULE Dumper -------------------------------
(***************************************************************************)
(* Runs of the dumper against one output database: main's loop over the    *)
(* command line (main.rs), the pipeline of one demo (pipeline.rs,          *)
(* parse_one) and the database layer (sqlite.rs).  Several processes may   *)
(* share the file; each can be killed between any two statements.          *)
(*                                                                         *)
(* SQLite itself is external and modelled from how sqlite.rs drives it: a  *)
(* WAL database, whose readers see the last commit, with one writer at a   *)
(* time and synchronous = NORMAL, under which a power loss can drop the    *)
(* commits since the last checkpoint.                                      *)
(***************************************************************************)
EXTENDS DemoRows, Sequences, FiniteSets

CONSTANTS
  Procs,           \* process slots; a slot is reused by later runs
  SchemaVersion,   \* SchemaVersion[p]: the build in slot p writes this version
  Path,            \* file names a command line can hold
  ContentOf,       \* ContentOf[path]: the file's bytes, or NoFile
  NoFile,          \* the path cannot be read
  Id, IdOf,        \* IdOf[c]: the 44 bits of c's sha256 that key the demos table
  Parsable,        \* the contents whose header parses
  InsertOrder,     \* the child tables in the order parse_one writes them
  Rounds,          \* the one table trimmed before it is written
  Options,         \* the option sets a run may be started with
  CommandLines,    \* the sequences of paths a run may be started with
  MaxRuns,         \* bound: how many runs are started
  MaxFaults,       \* bound: statements that fail for a reason outside the program
  MaxKills,        \* bound: processes killed
  MaxLosses        \* bound: power losses

ASSUME DumperAssumption ==
  /\ SchemaVersion \in [Procs -> Nat \ {0}]
  /\ ContentOf \in [Path -> Content \cup {NoFile}] /\ NoFile \notin Content
  /\ IdOf \in [Content -> Id]
  /\ InsertOrder \in Seq(Table)
  /\ \A t \in Table : \E i \in 1..Len(InsertOrder) : InsertOrder[i] = t
  /\ Options \subseteq Option
  /\ CommandLines \subseteq Seq(Path)
  /\ {MaxRuns, MaxFaults, MaxKills, MaxLosses} \subseteq Nat

VARIABLES
  wal,       \* committed states of the database since the last checkpoint
  pc,        \* where each process is; "off" when none runs in the slot
  argv,      \* the demos on its command line
  opts,      \* its options
  tally,     \* what became of each demo done so far
  conn,      \* its connection: "auto", "begun" (BEGIN, no lock) or "writing"
  txn,       \* the database as its open write transaction sees it
  step,      \* the position in InsertOrder of the next table to write
  exit,      \* how the slot's last run ended
  faulted,   \* history: an outside failure hit the slot's current run
  runs, faults, kills, losses   \* what the bounds count

bounds == <<runs, faults, kills, losses>>
vars == <<wal, pc, argv, opts, tally, conn, txn, step, exit, faulted, bounds>>

DemoRow == [id : Id, sha256 : Content, opt : Option, version : Nat]
ChildRow == [demo_id : Id, table : Table, tick : Tick]
Database ==
  [has_demos : BOOLEAN, user_version : Nat, demos : SUBSET DemoRow, rows : SUBSET ChildRow]

NewFile == [has_demos |-> FALSE, user_version |-> 0, demos |-> {}, rows |-> {}]

Committed == wal[Len(wal)]

\* A commit that changes nothing leaves nothing in the log.
Publish(db) == wal' = IF db = Committed THEN wal ELSE Append(wal, db)

\* SQLite's write lock, as p finds it.
LockFree(p) == \A q \in Procs \ {p} : conn[q] # "writing"

\* The file p works on: the tally holds one outcome for each demo before it.
File(p) == ContentOf[argv[p][Len(tally[p]) + 1]]

Goto(p, label) == pc' = [pc EXCEPT ![p] = label]

\* parse_one returns: main counts the outcome and goes to the next demo.
Done(p, outcome) ==
  /\ tally' = [tally EXCEPT ![p] = Append(@, outcome)]
  /\ Goto(p, "next")

Leave(p, how) ==
  /\ exit' = [exit EXCEPT ![p] = how]
  /\ Goto(p, "off")

-----------------------------------------------------------------------------
(* main and Db::open                                                       *)

Start(p) ==
  /\ pc[p] = "off" /\ runs < MaxRuns
  /\ Goto(p, "open")
  /\ \E line \in CommandLines, opt \in Options :
       /\ argv' = [argv EXCEPT ![p] = line]
       /\ opts' = [opts EXCEPT ![p] = opt]
  /\ tally' = [tally EXCEPT ![p] = <<>>]
  /\ exit' = [exit EXCEPT ![p] = "none"]
  /\ faulted' = [faulted EXCEPT ![p] = FALSE]
  /\ runs' = runs + 1
  /\ UNCHANGED <<wal, conn, txn, step, faults, kills, losses>>

\* Does the demos table exist?  A new file has none and needs no check.
Open(p) ==
  /\ pc[p] = "open"
  /\ Goto(p, IF Committed.has_demos THEN "version" ELSE "schema")
  /\ UNCHANGED <<wal, argv, opts, tally, conn, txn, step, exit, faulted, bounds>>

\* A file with the table must have been written by this version.
CheckVersion(p) ==
  /\ pc[p] = "version"
  /\ IF Committed.user_version = SchemaVersion[p]
       THEN Goto(p, "schema") /\ UNCHANGED exit
       ELSE Leave(p, "refused")
  /\ UNCHANGED <<wal, argv, opts, tally, conn, txn, step, faulted, bounds>>

\* The SCHEMA batch: CREATE ... IF NOT EXISTS, one commit per statement, the
\* demos table first.  It takes the write lock only when it creates something.
CreateSchema(p) ==
  /\ pc[p] = "schema"
  /\ Committed.has_demos \/ LockFree(p)
  /\ Publish([Committed EXCEPT !.has_demos = TRUE])
  /\ Goto(p, "stamp")
  /\ UNCHANGED <<argv, opts, tally, conn, txn, step, exit, faulted, bounds>>

\* PRAGMA user_version, a write of its own.
StampVersion(p) ==
  /\ pc[p] = "stamp" /\ LockFree(p)
  /\ Publish([Committed EXCEPT !.user_version = SchemaVersion[p]])
  /\ Goto(p, "next")
  /\ UNCHANGED <<argv, opts, tally, conn, txn, step, exit, faulted, bounds>>

\* main's loop: the next demo on the command line is read.
NextDemo(p) ==
  /\ pc[p] = "next" /\ Len(tally[p]) < Len(argv[p])
  /\ Goto(p, IF File(p) = NoFile THEN "fail" ELSE "find")
  /\ UNCHANGED <<wal, argv, opts, tally, conn, txn, step, exit, faulted, bounds>>

\* main returns: an error when any demo failed.
Finish(p) ==
  /\ pc[p] = "next" /\ Len(tally[p]) = Len(argv[p])
  /\ Leave(p, IF \E i \in 1..Len(tally[p]) : tally[p][i] = "failed" THEN "error" ELSE "ok")
  /\ UNCHANGED <<wal, argv, opts, tally, conn, txn, step, faulted, bounds>>

-----------------------------------------------------------------------------
(* parse_one                                                               *)

\* Mutant: the skip looks a demo up by its id rather than by its whole hash.
FindDemoById(p) ==
  /\ pc[p] = "find"
  /\ IF \E d \in Committed.demos : d.id = IdOf[File(p)]
       THEN Done(p, "skipped")
       ELSE Goto(p, "extract") /\ UNCHANGED tally
  /\ UNCHANGED <<wal, argv, opts, conn, txn, step, exit, faulted, bounds>>

\* A demo whose hash is in the table is skipped.
FindDemo(p) ==
  /\ pc[p] = "find"
  /\ IF \E d \in Committed.demos : d.sha256 = File(p)
       THEN Done(p, "skipped")
       ELSE Goto(p, "extract") /\ UNCHANGED tally
  /\ UNCHANGED <<wal, argv, opts, conn, txn, step, exit, faulted, bounds>>

\* Every pass over the file, in memory.  Only a header that does not parse
\* and a --last-round without a cut tick fail the demo.
Extract(p) ==
  /\ pc[p] = "extract"
  /\ Goto(p, IF File(p) \in Parsable /\ Cuttable(File(p), opts[p]) THEN "begin" ELSE "fail")
  /\ UNCHANGED <<wal, argv, opts, tally, conn, txn, step, exit, faulted, bounds>>

\* BEGIN fails inside a transaction, and takes no lock by itself.
Begin(p) ==
  /\ pc[p] = "begin"
  /\ IF conn[p] = "auto"
       THEN conn' = [conn EXCEPT ![p] = "begun"] /\ Goto(p, "insert_demo")
       ELSE UNCHANGED conn /\ Goto(p, "fail")
  /\ UNCHANGED <<wal, argv, opts, tally, txn, step, exit, faulted, bounds>>

\* Mutant: the demos row is written before BEGIN, in a commit of its own.
InsertDemoAutocommit(p) ==
  LET c == File(p)
      row == [id |-> IdOf[c], sha256 |-> c, opt |-> opts[p], version |-> SchemaVersion[p]]
      db == [Committed EXCEPT !.demos = @ \cup {row}]
  IN /\ pc[p] = "insert_demo" /\ LockFree(p)
     /\ conn' = [conn EXCEPT ![p] = "writing"]
     /\ IF \E d \in Committed.demos : d.id = IdOf[c] \/ d.sha256 = c
          THEN txn' = [txn EXCEPT ![p] = Committed] /\ Goto(p, "fail") /\ UNCHANGED wal
          ELSE Publish(db) /\ txn' = [txn EXCEPT ![p] = db] /\ Goto(p, "insert_rows")
     /\ step' = [step EXCEPT ![p] = 1]
     /\ UNCHANGED <<argv, opts, tally, exit, faulted, bounds>>

\* The transaction's first write takes the lock and the snapshot, and meets
\* the demos table's two keys.
InsertDemo(p) ==
  LET c == File(p)
      row == [id |-> IdOf[c], sha256 |-> c, opt |-> opts[p], version |-> SchemaVersion[p]]
  IN /\ pc[p] = "insert_demo" /\ LockFree(p)
     /\ conn' = [conn EXCEPT ![p] = "writing"]
     /\ IF \E d \in Committed.demos : d.id = IdOf[c] \/ d.sha256 = c
          THEN txn' = [txn EXCEPT ![p] = Committed] /\ Goto(p, "fail")
          ELSE /\ txn' = [txn EXCEPT ![p] = [Committed EXCEPT !.demos = @ \cup {row}]]
               /\ Goto(p, "insert_rows")
     /\ step' = [step EXCEPT ![p] = 1]
     /\ UNCHANGED <<wal, argv, opts, tally, exit, faulted, bounds>>

\* Mutant: an insert that does not tag its rows with the demo.
TableRowsUntagged(c, opt, table) ==
  {[table |-> table, tick |-> r[2]] :
     r \in {r \in RowsOf[c] : r[1] = table /\ table \notin opt.omitted}}

\* The rows of one table as its insert function writes them: none when the
\* table is omitted.  cut_after has dropped the rounds past the cut already.
TableRows(c, opt, table) ==
  {[demo_id |-> IdOf[c], table |-> table, tick |-> r[2]] :
     r \in {r \in RowsOf[c] : /\ r[1] = table /\ table \notin opt.omitted
                              /\ table = Rounds => Kept(c, opt, r[2])}}

InsertRows(p) ==
  /\ pc[p] = "insert_rows" /\ step[p] <= Len(InsertOrder)
  /\ txn' = [txn EXCEPT ![p].rows = @ \cup TableRows(File(p), opts[p], InsertOrder[step[p]])]
  /\ step' = [step EXCEPT ![p] = @ + 1]
  /\ UNCHANGED <<wal, pc, argv, opts, tally, conn, exit, faulted, bounds>>

\* Mutant: DELETE ... WHERE tick >= ?, with no demo_id.
CutRowsOfAnyDemo(p) ==
  {r \in txn[p].rows : r.table # Rounds /\ ~Kept(File(p), opts[p], r.tick)}

\* What cut_at deletes: this demo's rows from the cut tick on, in every table
\* with a tick column.
CutRows(p) ==
  {r \in txn[p].rows : /\ r.demo_id = IdOf[File(p)] /\ r.table # Rounds
                       /\ ~Kept(File(p), opts[p], r.tick)}

CutAt(p) ==
  /\ pc[p] = "insert_rows" /\ step[p] > Len(InsertOrder)
  /\ txn' = [txn EXCEPT ![p].rows = @ \ CutRows(p)]
  /\ Goto(p, "commit")
  /\ UNCHANGED <<wal, argv, opts, tally, conn, step, exit, faulted, bounds>>

Commit(p) ==
  /\ pc[p] = "commit"
  /\ Publish(txn[p])
  /\ conn' = [conn EXCEPT ![p] = "auto"]
  /\ txn' = [txn EXCEPT ![p] = NewFile]
  /\ Done(p, "parsed")
  /\ UNCHANGED <<argv, opts, step, exit, faulted, bounds>>

\* Mutant: main counts the failure and leaves the transaction open.
FailNoRollback(p) ==
  /\ pc[p] = "fail" /\ Done(p, "failed")
  /\ UNCHANGED <<wal, argv, opts, conn, txn, step, exit, faulted, bounds>>

\* Mutant: a failed demo is tried again.
FailRetry(p) ==
  /\ pc[p] = "fail" /\ Goto(p, "next")
  /\ conn' = [conn EXCEPT ![p] = "auto"]
  /\ txn' = [txn EXCEPT ![p] = NewFile]
  /\ UNCHANGED <<wal, argv, opts, tally, step, exit, faulted, bounds>>

\* main on an error of parse_one: roll back and count a failure.
Fail(p) ==
  /\ pc[p] = "fail"
  /\ conn' = [conn EXCEPT ![p] = "auto"]
  /\ txn' = [txn EXCEPT ![p] = NewFile]
  /\ Done(p, "failed")
  /\ UNCHANGED <<wal, argv, opts, step, exit, faulted, bounds>>

-----------------------------------------------------------------------------
(* What the environment does to a process and to the file                  *)

\* A statement fails: an I/O error, a full disk, or the write lock held by
\* another process past the busy timeout.  Some of these errors make SQLite
\* roll the transaction back by itself.  In Db::open the process ends.
Fault(p) ==
  /\ faults < MaxFaults
  /\ faults' = faults + 1
  /\ faulted' = [faulted EXCEPT ![p] = TRUE]
  /\ \/ /\ pc[p] \in {"open", "version", "schema", "stamp"}
        /\ Leave(p, "error")
        /\ UNCHANGED <<conn, txn>>
     \/ /\ pc[p] \in {"find", "begin", "insert_demo", "insert_rows", "commit"}
        /\ Goto(p, "fail")
        /\ \/ UNCHANGED <<conn, txn>>
           \/ /\ conn' = [conn EXCEPT ![p] = "auto"]
              /\ txn' = [txn EXCEPT ![p] = NewFile]
        /\ UNCHANGED exit
  /\ UNCHANGED <<wal, argv, opts, tally, step, runs, kills, losses>>

\* The processes in ps die; SQLite drops what they had not committed.
Die(ps) ==
  /\ pc' = [p \in Procs |-> IF p \in ps THEN "off" ELSE pc[p]]
  /\ exit' = [p \in Procs |-> IF p \in ps /\ pc[p] # "off" THEN "killed" ELSE exit[p]]
  /\ conn' = [p \in Procs |-> IF p \in ps THEN "auto" ELSE conn[p]]
  /\ txn' = [p \in Procs |-> IF p \in ps THEN NewFile ELSE txn[p]]
  /\ UNCHANGED <<argv, opts, tally, step, faulted>>

Kill(p) ==
  /\ pc[p] # "off" /\ kills < MaxKills
  /\ kills' = kills + 1
  /\ Die({p})
  /\ UNCHANGED <<wal, runs, faults, losses>>

PowerLoss ==
  /\ losses < MaxLosses
  /\ losses' = losses + 1
  /\ \E n \in 1..Len(wal) : wal' = SubSeq(wal, 1, n)
  /\ Die(Procs)
  /\ UNCHANGED <<runs, faults, kills>>

\* Only a later power loss tells a checkpointed commit from another.
Checkpoint ==
  /\ Len(wal) > 1 /\ losses < MaxLosses
  /\ wal' = <<Committed>>
  /\ UNCHANGED <<pc, argv, opts, tally, conn, txn, step, exit, faulted, bounds>>

-----------------------------------------------------------------------------

Init ==
  /\ wal = <<NewFile>>
  /\ pc = [p \in Procs |-> "off"]
  /\ argv = [p \in Procs |-> <<>>]
  /\ opts = [p \in Procs |-> [last_round |-> FALSE, omitted |-> {}]]
  /\ tally = [p \in Procs |-> <<>>]
  /\ conn = [p \in Procs |-> "auto"]
  /\ txn = [p \in Procs |-> NewFile]
  /\ step = [p \in Procs |-> 1]
  /\ exit = [p \in Procs |-> "none"]
  /\ faulted = [p \in Procs |-> FALSE]
  /\ runs = 0 /\ faults = 0 /\ kills = 0 /\ losses = 0

\* What p does of its own accord, whoever else shares the file.
Step(p) ==
  \/ Open(p) \/ CheckVersion(p) \/ CreateSchema(p) \/ StampVersion(p)
  \/ NextDemo(p) \/ Finish(p)
  \/ FindDemo(p) \/ Extract(p) \/ Begin(p) \/ InsertDemo(p) \/ InsertRows(p)
  \/ CutAt(p) \/ Commit(p) \/ Fail(p)

Next ==
  \/ \E p \in Procs : Start(p) \/ Step(p) \/ Fault(p) \/ Kill(p)
  \/ PowerLoss
  \/ Checkpoint

\* The operating system runs every live process; nothing obliges anyone to
\* start a run, to kill one or to fail it.
Fairness == \A p \in Procs : WF_vars(Step(p))

Spec == Init /\ [][Next]_vars
FairSpec == Spec /\ Fairness

\* One run at a time, as a user who waits for the dumper before the next one.
StartAlone(p) == (\A q \in Procs : pc[q] = "off") /\ Start(p)

SerialNext ==
  \/ \E p \in Procs : StartAlone(p) \/ Step(p) \/ Fault(p) \/ Kill(p)
  \/ PowerLoss
  \/ Checkpoint

SerialSpec == Init /\ [][SerialNext]_vars

-----------------------------------------------------------------------------
(* Properties                                                              *)

Label ==
  {"off", "open", "version", "schema", "stamp", "next", "find", "extract", "begin",
   "insert_demo", "insert_rows", "commit", "fail"}

TypeOK ==
  /\ wal \in Seq(Database) /\ wal # <<>>
  /\ pc \in [Procs -> Label]
  /\ argv \in [Procs -> Seq(Path)]
  /\ opts \in [Procs -> Option]
  /\ tally \in [Procs -> Seq({"parsed", "skipped", "failed"})]
  /\ conn \in [Procs -> {"auto", "begun", "writing"}]
  /\ txn \in [Procs -> Database]
  /\ step \in [Procs -> Nat \ {0}]
  /\ exit \in [Procs -> {"none", "ok", "error", "refused", "killed"}]
  /\ faulted \in [Procs -> BOOLEAN]
  /\ runs \in Nat /\ faults \in Nat /\ kills \in Nat /\ losses \in Nat

RowsIn(db, id) == {<<r.table, r.tick>> : r \in {r \in db.rows : r.demo_id = id}}

\* Every row belongs to a demo, and every demo has exactly the rows that the
\* options recorded in its demos row call for.
Whole(db) ==
  /\ \A r \in db.rows : \E d \in db.demos : d.id = r.demo_id
  /\ \A d \in db.demos : RowsIn(db, d.id) = WholeRows(d.sha256, d.opt)

\* Whatever fails or dies, and whichever commits a power loss takes, a reader
\* finds whole demos only: "one demo per transaction" (ARCHITECTURE.md), with
\* --last-round's deletes inside that transaction.
WholeDemosOnly == \A i \in 1..Len(wal) : Whole(wal[i])

\* A file that holds demos is stamped with the version of the build that
\* wrote each of them, so old and new values never mix (sqlite.rs:12-14) and
\* no build is later refused its own demos.
OneVersionPerFile ==
  \A i \in 1..Len(wal) : \A d \in wal[i].demos : d.version = wal[i].user_version

Stored(c) == \E d \in Committed.demos : d.sha256 = c

\* When a run exits with success, every file on its command line is in the
\* database, skipped ones included (main.rs, Outcome in pipeline.rs).
ExitOkMeansStored ==
  \A p \in Procs : exit[p] = "ok" /\ losses = 0 =>
    \A i \in 1..Len(argv[p]) : Stored(ContentOf[argv[p][i]])

\* A file this run could extract, were it alone on the command line.
Extractable(c, opt) ==
  /\ c \in Parsable /\ Cuttable(c, opt)
  /\ \A other \in Content \ {c} : IdOf[other] # IdOf[c]

\* One demo's failure does not take another with it: when a run that met no
\* outside failure is over, each extractable file on its command line is
\* stored, whatever the others did (main.rs:115-131).
OneBadDemoSparesTheRest ==
  \A p \in Procs : exit[p] \in {"ok", "error"} /\ ~faulted[p] /\ losses = 0 =>
    \A i \in 1..Len(argv[p]) :
      LET c == ContentOf[argv[p][i]]
      IN c \in Content /\ Extractable(c, opts[p]) => Stored(c)

\* Every run comes to an end: runs that wait for each other's write lock or
\* fail demo after demo still do.
EveryRunEnds == \A p \in Procs : pc[p] # "off" ~> pc[p] = "off"

\* The database read as an archive of whole demos.
ArchiveOf(db) ==
  {[file |-> d.sha256, opt |-> d.opt, rows |-> RowsIn(db, d.id)] : d \in db.demos}

Archive == INSTANCE DemoArchive WITH archive <- ArchiveOf(Committed), Lossy <- MaxLosses > 0

\* Readers see demos appear one at a time, whole, once, and stay unless a power
\* loss takes them back.
ImplementsArchive == Archive!Spec

\* Said by CheckVersion's error text and by README.md:130-131: a file is
\* refused because a build of another version wrote it.
RefusesOnlyForeignFiles ==
  \A p \in Procs : exit[p] = "refused" => Committed.user_version \notin {0, SchemaVersion[p]}
==============================================================================
