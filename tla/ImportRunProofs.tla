--------------------------- MODULE ImportRunProofs ---------------------------
(***************************************************************************)
(* Proofs about ImportRun, for any number of threads and connections.      *)
(*                                                                         *)
(*   1. cells, the connections, the locals: Structure, which includes that *)
(*      each import is in the blocks its step says;                        *)
(*   2. every action is a step of its thread alone (EveryStep) and one of  *)
(*      seven kinds of move as far as batches go (EveryMove);              *)
(*   3. RowsMatch, ImportTypes, UsesConnections;                           *)
(*   4. SerialCancelsRightly, of imports that do not overlap.              *)
(*                                                                         *)
(* What the imports do to the connections is left to ConnectionProofs.     *)
(***************************************************************************)
EXTENDS ImportRun, FiniteSetTheorems, TLAPS

CP == INSTANCE ConnectionProofs WITH Initial <- Databases, MaxDepth <- 2, link <- Links

-----------------------------------------------------------------------------
(***************************************************************************)
(* Cells and what they hold.                                               *)
(***************************************************************************)

\* The tables are apart, and so are the rows of each.
LEMMA Tables ==
  ASSUME NEW x, NEW y
  PROVE  /\ UnitCell(x) # TurnoverCell(y) /\ UnitCell(x) # BatchCell(y) /\ UnitCell(x) # RowsCell(y)
         /\ TurnoverCell(x) # BatchCell(y) /\ TurnoverCell(x) # RowsCell(y)
         /\ BatchCell(x) # RowsCell(y)
         /\ UnitCell(x) = UnitCell(y) => x = y
         /\ TurnoverCell(x) = TurnoverCell(y) => x = y
         /\ BatchCell(x) = BatchCell(y) => x = y
         /\ RowsCell(x) = RowsCell(y) => x = y
BY DEF UnitCell, TurnoverCell, BatchCell, RowsCell

LEMMA CellsAre ==
  /\ \A u \in Units : UnitCell(u) \in Cells /\ TurnoverCell(u) \in Cells
  /\ \A b \in Batches : BatchCell(b) \in Cells /\ RowsCell(b) \in Cells
BY DEF Cells

RowNumbers == {i \in Nat : \E file \in Files : i \in 1..Len(file)}

BatchRows == [status : {"none", "PROCESSING", "COMPLETED"}, file : Files \cup {<<>>}]

\* Writes, or a database, whose cells hold what they are for.
Fits(f) ==
  /\ \A u \in Units : UnitCell(u) \in DOMAIN f => f[UnitCell(u)] \in BOOLEAN
  /\ \A u \in Units : TurnoverCell(u) \in DOMAIN f => f[TurnoverCell(u)] \in TurnoverRows
  /\ \A b \in Batches : BatchCell(b) \in DOMAIN f => f[BatchCell(b)] \in BatchRows
  /\ \A b \in Batches : RowsCell(b) \in DOMAIN f => f[RowsCell(b)] \in SUBSET RowNumbers

\* What one statement writes.
Written(cell, value) == [k \in {cell} |-> value]

CellFits(cell, value) ==
  \/ \E u \in Units : cell = UnitCell(u) /\ value \in BOOLEAN
  \/ \E u \in Units : cell = TurnoverCell(u) /\ value \in TurnoverRows
  \/ \E b \in Batches : cell = BatchCell(b) /\ value \in BatchRows
  \/ \E b \in Batches : cell = RowsCell(b) /\ value \in SUBSET RowNumbers

LEMMA WrittenFits ==
  ASSUME NEW cell, NEW value, CellFits(cell, value)
  PROVE  Written(cell, value) \in DB!Writes /\ Fits(Written(cell, value))
<1>1. cell \in Cells
  BY CellsAre DEF CellFits
<1>2. value \in Values
  <2>1. BatchRows \subseteq Values
    BY DEF BatchRows, Values
  <2>2. SUBSET RowNumbers \subseteq SUBSET Nat
    BY DEF RowNumbers
  <2> QED BY <2>1, <2>2 DEF CellFits, Values
<1>3. Written(cell, value) \in [{cell} -> Values]
  BY <1>2 DEF Written
<1>4. Written(cell, value) \in DB!Writes
  BY <1>1, <1>3 DEF DB!Writes
<1>5. Fits(Written(cell, value))
  BY Tables DEF Written, CellFits, Fits
<1> QED BY <1>4, <1>5

LEMMA OverFits ==
  ASSUME NEW f, NEW g, Fits(f), Fits(g)
  PROVE  Fits(DB!Over(f, g))
BY DEF Fits, DB!Over

LEMMA OverWritten ==
  ASSUME NEW cell, NEW value, NEW f
  PROVE  /\ DOMAIN DB!Over(Written(cell, value), f) = DOMAIN f \cup {cell}
         /\ DB!Over(Written(cell, value), f)[cell] = value
         /\ \A k \in DOMAIN f \ {cell} : DB!Over(Written(cell, value), f)[k] = f[k]
BY DEF DB!Over, Written

LEMMA NothingFits == Fits(DB!Nothing) /\ DOMAIN DB!Nothing = {}
BY DEF Fits, DB!Nothing

LEMMA DatabaseFits ==
  ASSUME NEW db \in Databases
  PROVE  /\ db \in [Cells -> Values] /\ Fits(db)
         /\ \A u \in Units : db[TurnoverCell(u)] \in OldTurnovers
         /\ \A b \in Batches : db[BatchCell(b)] = NoBatch /\ db[RowsCell(b)] = {}
<1>1. PICK exists \in [Units -> BOOLEAN], turnover \in [Units -> OldTurnovers] :
        db = Database(exists, turnover)
  BY DEF Databases
<1>2. DOMAIN db = Cells
  BY <1>1 DEF Database
<1>3. \A u \in Units : db[UnitCell(u)] = exists[u]
  BY <1>1, CellsAre DEF Database, UnitCell
<1>4. \A u \in Units : db[TurnoverCell(u)] = turnover[u]
  BY <1>1, CellsAre DEF Database, TurnoverCell
<1>5. \A b \in Batches : db[BatchCell(b)] = NoBatch
  BY <1>1, CellsAre DEF Database, BatchCell
<1>6. \A b \in Batches : db[RowsCell(b)] = {}
  BY <1>1, CellsAre DEF Database, RowsCell
<1>7. OldTurnovers \subseteq TurnoverRows
  BY DEF OldTurnovers
<1>8. NoBatch \in BatchRows
  BY DEF NoBatch, BatchRows
<1>9. Fits(db)
  BY <1>3, <1>4, <1>5, <1>6, <1>7, <1>8 DEF Fits
<1>10. \A k \in Cells : CellFits(k, db[k])
  BY <1>3, <1>4, <1>5, <1>6, <1>7, <1>8 DEF CellFits, Cells
<1>11. \A k \in Cells : db[k] \in Values
  <2>1. BatchRows \subseteq Values
    BY DEF BatchRows, Values
  <2>2. SUBSET RowNumbers \subseteq SUBSET Nat
    BY DEF RowNumbers
  <2> QED BY <1>10, <2>1, <2>2 DEF CellFits, Values
<1>12. db \in [Cells -> Values]
  <2> DEFINE held(k) == CASE k[1] = "unit"     -> exists[k[2]]
                          [] k[1] = "turnover" -> turnover[k[2]]
                          [] k[1] = "batch"    -> NoBatch
                          [] k[1] = "rows"     -> {}
  <2>1. db = [k \in Cells |-> held(k)]
    BY <1>1 DEF Database
  <2> HIDE DEF held
  <2> QED BY <2>1, <1>11
<1> QED BY <1>4, <1>5, <1>6, <1>9, <1>12

-----------------------------------------------------------------------------
(***************************************************************************)
(* The connections: what ConnectionProofs shows of any program that uses   *)
(* them holds of the imports, which do nothing to them that Connection     *)
(* does not allow.                                                         *)
(***************************************************************************)
Pool == CP!TypeOK /\ CP!PoolInv

DbFits == Fits(committed) /\ \A c \in Conns : Fits(pending[c])

\* What a step of thread t may do to the connections.
DbStep(t) ==
  \/ UNCHANGED dbVars
  \/ DB!Begin(t) /\ Len(blocks[t]) < 2
  \/ \E cell, value : CellFits(cell, value) /\ Put(t, cell, value)
  \/ DB!Raise(t)
  \/ DB!Commit(t)
  \/ DB!Rollback(t)

LEMMA Constants == NoConn \notin Conns /\ Databases \subseteq [Cells -> Values] /\ 2 \in Nat
BY DatabaseFits, ImportConstants

LEMMA SameView == DB!Writes = CP!Writes /\ DB!Nothing = CP!Nothing
BY DEF DB!Writes, CP!Writes, DB!Nothing, CP!Nothing

LEMMA SameBegin == ASSUME NEW t PROVE DB!Begin(t) => CP!Begin(t)
BY DEF DB!Begin, CP!Begin, DB!Remember, CP!Remember, DB!Nothing, CP!Nothing, DB!InBlock, CP!InBlock

LEMMA SamePut ==
  ASSUME NEW t, NEW cell, NEW value PROVE Put(t, cell, value) => CP!Execute(t, Written(cell, value))
BY DEF Put, Written, DB!Execute, CP!Execute, DB!Locked, CP!Locked, DB!Over, CP!Over, DB!InBlock, CP!InBlock

LEMMA SameRaise == ASSUME NEW t PROVE DB!Raise(t) => CP!Raise(t)
BY DEF DB!Raise, CP!Raise

LEMMA SameEnd ==
  ASSUME NEW t PROVE (DB!Commit(t) => CP!Commit(t)) /\ (DB!Rollback(t) => CP!Rollback(t))
<1>1. DB!Release(t) => CP!Release(t)
  BY DEF DB!Release, CP!Release, DB!Leave, CP!Leave, DB!Clean, CP!Clean, DB!PutConn, CP!PutConn,
         DB!Nothing, CP!Nothing, DB!Innermost, CP!Innermost
<1>2. DB!Strand(t) => CP!Strand(t)
  BY DEF DB!Strand, CP!Strand, DB!Leave, CP!Leave, DB!Nothing, CP!Nothing, DB!Innermost, CP!Innermost
<1> QED BY <1>1, <1>2 DEF DB!Commit, CP!Commit, DB!Rollback, CP!Rollback, DB!InBlock, CP!InBlock,
                          DB!Over, CP!Over, DB!Innermost, CP!Innermost

LEMMA StepIsConnections ==
  ASSUME NEW t \in Threads, DbStep(t)
  PROVE  [CP!Next]_(CP!vars)
<1>1. CASE UNCHANGED dbVars
  BY <1>1 DEF dbVars, CP!vars
<1>2. CASE DB!Begin(t) /\ Len(blocks[t]) < 2
  BY <1>2, SameBegin DEF CP!Next
<1>3. ASSUME NEW cell, NEW value, CellFits(cell, value), Put(t, cell, value)
      PROVE  [CP!Next]_(CP!vars)
  BY <1>3, SamePut, WrittenFits, SameView DEF CP!Next
<1>4. CASE DB!Raise(t)
  BY <1>4, SameRaise DEF CP!Next
<1>5. CASE DB!Commit(t) \/ DB!Rollback(t)
  BY <1>5, SameEnd DEF CP!Next
<1> QED BY <1>1, <1>2, <1>3, <1>4, <1>5 DEF DbStep

LEMMA PoolKept ==
  ASSUME Pool, NEW t \in Threads, DbStep(t)
  PROVE  Pool'
BY Constants, StepIsConnections, CP!TypeStep, CP!PoolStep DEF Pool

LEMMA PoolTypes ==
  ASSUME Pool
  PROVE  /\ idle \subseteq Conns /\ blocks \in [Threads -> Seq(Conns)]
         /\ pending \in [Conns -> CP!Writes] /\ committed \in [Cells -> Values]
         /\ txnConn \in [Threads -> Conns \cup {NoConn}]
BY DEF Pool, CP!TypeOK

\* With no connection lost, a thread remembers that of its innermost block or none.
LEMMA RemembersOwn ==
  ASSUME Pool, NEW t \in Threads, txnConn[t] # NoConn
  PROVE  blocks[t] # <<>> /\ txnConn[t] = blocks[t][Len(blocks[t])]
BY DEF Pool, CP!TypeOK, CP!PoolInv, CP!ConnectionsAccounted, CP!InBlock, CP!Innermost, Links

\* The effect of each, the pool being as it should.
LEMMA BeginEffect ==
  ASSUME Pool, NEW t \in Threads, DB!Begin(t)
  PROVE  \E c \in idle :
           /\ blocks' = [blocks EXCEPT ![t] = Append(@, c)]
           /\ txnConn' = [txnConn EXCEPT ![t] = c]
           /\ pending[c] = DB!Nothing /\ UNCHANGED <<pending, committed>>
<1>1. PICK c \in idle :
        /\ blocks' = [blocks EXCEPT ![t] = Append(@, c)]
        /\ txnConn' = [txnConn EXCEPT ![t] = c]
        /\ pending' = [pending EXCEPT ![c] = DB!Nothing]
  BY DEF DB!Begin, DB!Remember
<1>2. c \in Conns /\ pending[c] = DB!Nothing
  BY SameView DEF Pool, CP!TypeOK, CP!PoolInv, CP!IdleIsClean
<1>3. pending' = pending
  BY <1>1, <1>2 DEF Pool, CP!TypeOK
<1> QED BY <1>1, <1>2, <1>3 DEF DB!Begin

LEMMA PutEffect ==
  ASSUME Pool, NEW t \in Threads, NEW cell, NEW value, Put(t, cell, value), txnConn[t] # NoConn
  PROVE  /\ txnConn[t] \in Conns
         /\ pending' = [pending EXCEPT ![txnConn[t]] = DB!Over(Written(cell, value), @)]
         /\ UNCHANGED <<blocks, txnConn, committed>>
BY DEF Put, Written, DB!Execute, Pool, CP!TypeOK

LEMMA EndEffect ==
  ASSUME Pool, NEW t \in Threads, DB!Commit(t) \/ DB!Rollback(t)
  PROVE  LET n == Len(blocks[t])
             c == blocks[t][n]
         IN  /\ n \in Nat \ {0} /\ c \in Conns
             /\ pending' = [pending EXCEPT ![c] = DB!Nothing]
             /\ txnConn' = [txnConn EXCEPT ![t] = NoConn]
             /\ blocks' = [blocks EXCEPT ![t] = SubSeq(@, 1, n - 1)]
             /\ blocks'[t] \in Seq(Conns) /\ Len(blocks'[t]) = n - 1
             /\ \A i \in 1..(n - 1) : blocks'[t][i] = blocks[t][i]
             /\ DB!Rollback(t) => committed' = committed
             /\ committed' \in {committed, DB!Over(pending[c], committed)}
<1> DEFINE n == Len(blocks[t])
           c == blocks[t][n]
<1>0. DB!InBlock(t) /\ (DB!Release(t) \/ DB!Strand(t))
  BY DEF DB!Commit, DB!Rollback
<1>2. blocks[t] \in Seq(Conns) /\ blocks[t] # <<>> /\ blocks \in [Threads -> Seq(Conns)]
  BY <1>0 DEF DB!InBlock, Pool, CP!TypeOK
<1>3. /\ SubSeq(blocks[t], 1, n - 1) \in Seq(Conns) /\ Len(SubSeq(blocks[t], 1, n - 1)) = n - 1
      /\ \A i \in 1..(n - 1) : SubSeq(blocks[t], 1, n - 1)[i] = blocks[t][i]
      /\ n \in Nat \ {0} /\ c \in Conns
  BY <1>2, Constants, CP!Popped
<1>1. DB!Release(t)
  <2>1. c = DB!Innermost(t) /\ Links[c] = "up"
    BY <1>3 DEF DB!Innermost, Links
  <2>2. ~DB!Strand(t)
    BY <1>3, <2>1 DEF DB!Strand, Links
  <2> QED BY <1>0, <2>2
<1>4. /\ pending' = [pending EXCEPT ![c] = DB!Nothing]
      /\ txnConn' = [txnConn EXCEPT ![t] = NoConn]
      /\ blocks' = [blocks EXCEPT ![t] = SubSeq(@, 1, n - 1)]
  BY <1>1 DEF DB!Release, DB!Clean, DB!Leave, DB!Innermost
<1>5. /\ DB!Rollback(t) => committed' = committed
      /\ committed' \in {committed, DB!Over(pending[c], committed)}
  BY DEF DB!Commit, DB!Rollback, DB!Innermost
<1> HIDE DEF n, c
<1>6. blocks'[t] = SubSeq(blocks[t], 1, n - 1)
  BY <1>2, <1>4
<1> QED BY <1>3, <1>4, <1>5, <1>6 DEF n, c

\* Only t's blocks change, and cells hold what they are for.
LEMMA DbKept ==
  ASSUME Pool, DbFits, NEW t \in Threads, DbStep(t)
  PROVE  /\ Pool' /\ DbFits'
         /\ \A s \in Threads \ {t} : blocks'[s] = blocks[s] /\ txnConn'[s] = txnConn[s]
<1>1. Pool'
  BY PoolKept
<1> DEFINE Mine == \A s \in Threads \ {t} : blocks'[s] = blocks[s] /\ txnConn'[s] = txnConn[s]
<1>2. CASE UNCHANGED dbVars
  BY <1>1, <1>2 DEF DbFits, dbVars
<1>3. CASE DB!Begin(t)
  <2>1. PICK c \in idle :
           /\ blocks' = [blocks EXCEPT ![t] = Append(@, c)]
           /\ txnConn' = [txnConn EXCEPT ![t] = c]
           /\ UNCHANGED <<pending, committed>>
    BY <1>3, BeginEffect
  <2> QED BY <1>1, <2>1 DEF DbFits, Pool, CP!TypeOK
<1>4. ASSUME NEW cell, NEW value, CellFits(cell, value), Put(t, cell, value)
      PROVE  DbFits' /\ Mine
  <2>1. Fits(Written(cell, value))
    BY <1>4, WrittenFits
  <2>2. CASE txnConn[t] # NoConn
    BY <1>4, <2>1, <2>2, PutEffect, OverFits, PoolTypes DEF DbFits
  <2>3. CASE txnConn[t] = NoConn
    <3>1. committed' = DB!Over(Written(cell, value), committed) /\ UNCHANGED <<pending, blocks, txnConn>>
      BY <1>4, <2>3 DEF Put, Written, DB!Execute
    <3> QED BY <2>1, <3>1, OverFits DEF DbFits
  <2> QED BY <2>2, <2>3
<1>5. CASE DB!Raise(t)
  BY <1>1, <1>5 DEF DbFits, DB!Raise
<1>6. CASE DB!Commit(t) \/ DB!Rollback(t)
  <2> DEFINE n == Len(blocks[t])
             c == blocks[t][n]
  <2>1. /\ c \in Conns
        /\ pending' = [pending EXCEPT ![c] = DB!Nothing]
        /\ txnConn' = [txnConn EXCEPT ![t] = NoConn]
        /\ blocks' = [blocks EXCEPT ![t] = SubSeq(@, 1, n - 1)]
        /\ committed' \in {committed, DB!Over(pending[c], committed)}
    BY <1>6, EndEffect
  <2> HIDE DEF n, c
  <2>2. DbFits'
    BY <2>1, OverFits, NothingFits DEF DbFits, Pool, CP!TypeOK
  <2>3. Mine
    BY <2>1 DEF Pool, CP!TypeOK
  <2> QED BY <1>1, <2>2, <2>3
<1> QED BY <1>1, <1>2, <1>3, <1>4, <1>5, <1>6 DEF DbStep

\* What a thread sees is what cells are for.
LEMMA ViewFits ==
  ASSUME Pool, DbFits, NEW t \in Threads
  PROVE  Fits(DB!View(t)) /\ DOMAIN DB!View(t) = Cells
<1>1. \A c \in Conns : DOMAIN pending[c] \subseteq Cells
  <2>1. ASSUME NEW c \in Conns PROVE DOMAIN pending[c] \subseteq Cells
    <3>1. PICK S \in SUBSET Cells : pending[c] \in [S -> Values]
      BY DEF Pool, CP!TypeOK, CP!Writes
    <3> QED BY <3>1
  <2> QED BY <2>1
<1>2. DOMAIN committed = Cells
  BY DEF Pool, CP!TypeOK
<1>3. txnConn[t] # NoConn => txnConn[t] \in Conns
  BY DEF Pool, CP!TypeOK
<1> QED BY <1>1, <1>2, <1>3, OverFits DEF DB!View, DbFits, DB!Over

LEMMA SeesTyped ==
  ASSUME Pool, DbFits, NEW t \in Threads
  PROVE  /\ \A u \in Units : Sees(t, TurnoverCell(u)) \in TurnoverRows
         /\ \A b \in Batches : Sees(t, RowsCell(b)) \in SUBSET RowNumbers
BY ViewFits, CellsAre DEF Fits, Sees

-----------------------------------------------------------------------------
(***************************************************************************)
(* Where each import is, the blocks it is in and what its locals hold.     *)
(***************************************************************************)
Before == {"idle", "enter"}
Outer == {"batch", "row", "lookup", "create", "update", "check", "write", "tally", "complete",
          "leave", "outcome", "leave_failed"}
Inner == {"insert", "created", "create_failed"}

\* The steps at a row of the file, and those of an import that has its batch.
AtRow == {"lookup", "create", "update", "outcome"} \cup Inner
Working == (Outer \ {"batch", "leave_failed"}) \cup Inner

Edits ==
  {e \in [unit : Units, gen : 0..MaxBatches, op : {"schedule", "seen", "missing", "cancel"}, value : Nat] :
     /\ e.op = "schedule" => e.value \in Dates
     /\ e.op = "missing" => e.value \in 0..CancelAfter}

Locals == [step : Before \cup Outer \cup Inner, file : Files \cup {<<>>}, batch : 0..MaxBatches, i : Nat,
           found : TurnoverRows, edit : Edits \cup {NoEdit}, todo : SUBSET Edits,
           seen : SUBSET Units, outcome : {"none", "OK", "CONFLICT", "SKIPPED_OVERRIDE"}]

Typed == run \in [Threads -> Locals] /\ started \in 0..MaxBatches

\* An import that has created a turnover runs without a connection of its own,
\* which its next statement, at the latest, makes it fail.
Shape(t) ==
  /\ run[t].step \in Before => Len(blocks[t]) = 0
  /\ run[t].step \in Outer => Len(blocks[t]) = 1
  /\ run[t].step \in Outer \ {"outcome", "leave_failed"} => txnConn[t] = blocks[t][1]
  /\ run[t].step \in Inner => Len(blocks[t]) = 2 /\ txnConn[t] = blocks[t][2]

Local(t) ==
  LET r == run[t]
      n == Len(run[t].file)
  IN  /\ r.step # "idle" => r.file \in Files
      /\ r.step \in Before \cup {"batch"} => r.batch = 0
      /\ r.step \in Working => r.batch \in Batches
      /\ r.batch <= started
      /\ r.step = "row" => r.i \in 1..(n + 1)
      /\ r.step \in AtRow => r.i \in 1..n
      /\ r.step \in {"check", "write"} =>
           /\ r.edit \in Edits /\ r.i \in 1..(n + 1)
           /\ r.edit.op = "schedule" <=> r.i # n + 1
      /\ r.step \in {"tally", "complete", "leave"} => r.i = n + 1
      /\ \A e \in r.todo : e.op # "schedule"

Structure == Pool /\ DbFits /\ Typed /\ \A t \in Threads : Local(t) /\ Shape(t)

\* A batch is one import's alone, and nothing of it is committed before the end.
Own ==
  /\ \A c \in Conns, b \in Batches :
       BatchCell(b) \in DOMAIN pending[c] \/ RowsCell(b) \in DOMAIN pending[c] =>
         \E t \in Threads : Len(blocks[t]) >= 1 /\ c = blocks[t][1] /\ run[t].batch = b
  /\ \A s, t \in Threads : run[s].batch = run[t].batch /\ run[t].batch # 0 => s = t
  /\ \A b \in Batches :
       b > started \/ (\E t \in Threads : run[t].batch = b) =>
         committed[BatchCell(b)].status = "none" /\ committed[RowsCell(b)] = {}

\* A step of t alone.
StepOf(t) ==
  /\ DbStep(t)
  /\ \E l \in Locals : run' = [run EXCEPT ![t] = l]
  /\ started' \in started..MaxBatches
  /\ Local(t)' /\ Shape(t)'

LEMMA StructureKept ==
  ASSUME Structure, NEW t \in Threads, StepOf(t)
  PROVE  Structure'
<1>1. /\ Pool' /\ DbFits'
      /\ \A s \in Threads \ {t} : blocks'[s] = blocks[s] /\ txnConn'[s] = txnConn[s]
  BY DbKept DEF Structure, StepOf
<1>2. PICK l \in Locals : run' = [run EXCEPT ![t] = l]
  BY DEF StepOf
<1>3. Typed'
  BY <1>2 DEF Structure, StepOf, Typed
<1>4. \A s \in Threads \ {t} : run'[s] = run[s]
  BY <1>2 DEF Structure, Typed
<1>5. \A s \in Threads : run[s].batch \in Nat /\ started \in Nat /\ started' \in Nat /\ started <= started'
  BY ImportConstants DEF Structure, Typed, StepOf, Locals
<1>6. ASSUME NEW s \in Threads PROVE Local(s)' /\ Shape(s)'
  <2>1. CASE s = t
    BY <2>1 DEF StepOf
  <2>2. CASE s # t
    BY <1>1, <1>4, <1>5, <2>2 DEF Structure, Local, Shape
  <2> QED BY <2>1, <2>2
<1> QED BY <1>1, <1>3, <1>6 DEF Structure

LEMMA FilesAre ==
  ASSUME NEW file \in Files
  PROVE  /\ Len(file) \in Nat
         /\ \A i \in 1..Len(file) : i \in RowNumbers /\ file[i] \in FileRows
BY ImportConstants DEF RowNumbers

\* What is known of thread t's locals.
LEMMA LocalsAre ==
  ASSUME Structure, NEW t \in Threads
  PROVE  /\ run[t] \in Locals /\ Local(t) /\ Shape(t)
         /\ run[t].step \in AtRow => RowUnit(t) \in Units /\ Row(t).date \in Dates /\ run[t].i \in RowNumbers
BY FilesAre DEF Structure, Typed, Local, AtRow, Working, Outer, Inner, Before, Row, RowUnit, FileRows

\* No import under way.
LEMMA IdleIs ==
  Idle \in Locals /\ Idle.step = "idle" /\ Idle.batch = 0 /\ Idle.todo = {}
BY ImportConstants DEF Idle, Locals, Before, NoTurnover, TurnoverRows, Dates, CancelAfter

LEMMA StructureInit == Init => Structure
<1> SUFFICES ASSUME Init PROVE Structure
  OBVIOUS
<1>1. CP!Init
  BY DEF Init, DB!Init, CP!Init, DB!Nothing, CP!Nothing
<1>2. Pool
  BY <1>1, Constants, CP!TypeInit, CP!PoolInit DEF Pool
<1>3. DbFits
  BY DatabaseFits, NothingFits DEF Init, DB!Init, DbFits
<1>5. Typed
  BY IdleIs, ImportConstants DEF Init, Typed
<1>6. ASSUME NEW t \in Threads PROVE Local(t) /\ Shape(t)
  BY DEF Init, DB!Init, Idle, Local, Shape, Before, Outer, Inner, Working, AtRow
<1> QED BY <1>2, <1>3, <1>5, <1>6 DEF Structure

-----------------------------------------------------------------------------
(***************************************************************************)
(* The steps, one by one.                                                  *)
(***************************************************************************)

\* A step that leaves the database alone.
LEMMA QuietStep ==
  ASSUME Structure, NEW t \in Threads, UNCHANGED <<dbVars, started>>,
         NEW l \in Locals, run' = [run EXCEPT ![t] = l],
         Local(t)',
         l.step \in Before => run[t].step \in Before,
         l.step \in Outer => run[t].step \in Outer,
         l.step \in Outer \ {"outcome", "leave_failed"} => run[t].step \in Outer \ {"outcome", "leave_failed"},
         l.step \in Inner => run[t].step \in Inner
  PROVE  StepOf(t)
<1>1. run'[t] = l
  BY DEF Structure, Typed
<1>2. Shape(t)'
  BY <1>1, LocalsAre DEF Shape, dbVars
<1>3. started' \in started..MaxBatches
  BY ImportConstants DEF Structure, Typed
<1> QED BY <1>1, <1>2, <1>3 DEF StepOf, DbStep

LEMMA DetectStep == ASSUME Structure, NEW t \in Threads, Detect(t) PROVE StepOf(t)
<1>1. PICK file \in Files : run' = [run EXCEPT ![t] = [Idle EXCEPT !.step = "enter", !.file = file]]
  BY DEF Detect, Set
<1> DEFINE l == [Idle EXCEPT !.step = "enter", !.file = file]
<1>2. l \in Locals /\ l.step = "enter" /\ l.file = file /\ l.batch = 0 /\ l.todo = {}
  BY IdleIs DEF Locals, Before
<1>3. run'[t] = l /\ run[t].step = "idle" /\ UNCHANGED <<dbVars, started>>
  BY <1>1 DEF Detect, Structure, Typed, AtStep
<1> HIDE DEF l
<1>4. Local(t)'
  BY <1>2, <1>3, ImportConstants DEF Local, Before, Outer, Inner, Working, AtRow, Structure, Typed
<1> QED
  BY <1>1, <1>2, <1>3, <1>4, QuietStep DEF l, Before, Outer, Inner

LEMMA LookupStep == ASSUME Structure, NEW t \in Threads, Lookup(t) PROVE StepOf(t)
<1> DEFINE turnover == Sees(t, TurnoverCell(RowUnit(t)))
           l == [run[t] EXCEPT !.step = IF turnover.status = "open" THEN "update" ELSE "create",
                               !.found = turnover]
<1>1. run[t].step = "lookup" /\ run' = [run EXCEPT ![t] = l] /\ UNCHANGED <<dbVars, started>>
  BY DEF Lookup, Set, AtStep
<1>2. run[t] \in Locals /\ Local(t) /\ turnover \in TurnoverRows
  BY <1>1, LocalsAre, SeesTyped DEF AtRow, Structure
<1>3. /\ l \in Locals /\ l.step \in {"update", "create"}
      /\ l.file = run[t].file /\ l.batch = run[t].batch /\ l.i = run[t].i /\ l.todo = run[t].todo
  BY <1>2 DEF Locals, Outer
<1>4. run'[t] = l
  BY <1>1 DEF Structure, Typed
<1> HIDE DEF l
<1>5. Local(t)'
  BY <1>1, <1>2, <1>3, <1>4 DEF Local, Before, Outer, Inner, Working, AtRow
<1> QED
  BY <1>1, <1>3, <1>5, QuietStep DEF Before, Outer, Inner

LEMMA UpdateStep == ASSUME Structure, NEW t \in Threads, Update(t) PROVE StepOf(t)
<1> DEFINE edit == [unit |-> RowUnit(t), gen |-> run[t].found.gen, op |-> "schedule", value |-> Row(t).date]
<1>1. run[t].step = "update" /\ UNCHANGED <<dbVars, started>>
  BY DEF Update, AtStep
<1>2. run[t] \in Locals /\ Local(t) /\ RowUnit(t) \in Units /\ Row(t).date \in Dates
  BY <1>1, LocalsAre DEF AtRow
<1>3. run[t].found.gen \in 0..MaxBatches
  BY <1>2 DEF Locals, TurnoverRows
<1>4. edit \in Edits /\ edit.op = "schedule"
  BY <1>2, <1>3, ImportConstants DEF Edits, Dates
<1> HIDE DEF edit
<1> DEFINE l == run'[t]
           m == [run[t] EXCEPT !.step = "check", !.outcome = "OK", !.edit = edit]
           k(o) == [run[t] EXCEPT !.step = "outcome", !.outcome = o]
<1>5. run' = [run EXCEPT ![t] = m] \/ \E o \in {"OK", "SKIPPED_OVERRIDE"} : run' = [run EXCEPT ![t] = k(o)]
  BY DEF Update, Set, edit
<1>6. l = m \/ \E o \in {"OK", "SKIPPED_OVERRIDE"} : l = k(o)
  BY <1>5 DEF Structure, Typed
<1>7. /\ l \in Locals
      /\ l.file = run[t].file /\ l.batch = run[t].batch /\ l.i = run[t].i /\ l.todo = run[t].todo
      /\ l.step = "outcome" \/ (l.step = "check" /\ l.edit = edit)
  <2> HIDE DEF l, m, k
  <2>1. CASE l = m
    BY <1>2, <1>4, <2>1 DEF m, Locals, Outer
  <2>2. ASSUME NEW o \in {"OK", "SKIPPED_OVERRIDE"}, l = k(o)
        PROVE  /\ l \in Locals /\ l.step = "outcome"
               /\ l.file = run[t].file /\ l.batch = run[t].batch /\ l.i = run[t].i /\ l.todo = run[t].todo
    BY <1>2, <2>2 DEF k, Locals, Outer
  <2> QED BY <1>6, <2>1, <2>2
<1>8. run' = [run EXCEPT ![t] = l]
  BY <1>5 DEF Structure, Typed
<1>9. Local(t)'
  BY <1>1, <1>2, <1>4, <1>7, FilesAre DEF Local, Before, Outer, Inner, Working, AtRow
<1> HIDE DEF l
<1> QED
  BY <1>1, <1>7, <1>8, <1>9, QuietStep DEF Before, Outer, Inner

LEMMA CheckOpenStep == ASSUME Structure, NEW t \in Threads, CheckOpen(t) PROVE StepOf(t)
<1>1. PICK step \in {"write", "leave_failed"} :
        /\ run[t].step = "check" /\ UNCHANGED <<dbVars, started>>
        /\ run' = [run EXCEPT ![t] = [run[t] EXCEPT !.step = step]]
  BY DEF CheckOpen, Goto, Set, AtStep
<1> DEFINE l == [run[t] EXCEPT !.step = step]
<1>2. run[t] \in Locals /\ Local(t)
  BY LocalsAre
<1>3. /\ l \in Locals /\ l.step = step /\ l.edit = run[t].edit
      /\ l.file = run[t].file /\ l.batch = run[t].batch /\ l.i = run[t].i /\ l.todo = run[t].todo
  BY <1>2 DEF Locals, Outer
<1>4. run'[t] = l
  BY <1>1 DEF Structure, Typed
<1> HIDE DEF l
<1>5. Local(t)'
  BY <1>1, <1>2, <1>3, <1>4 DEF Local, Before, Outer, Inner, Working, AtRow
<1> QED
  BY <1>1, <1>3, <1>5, QuietStep DEF l, Before, Outer, Inner

LEMMA TallyStep == ASSUME Structure, NEW t \in Threads, Tally(t) PROVE StepOf(t)
<1>1. run[t].step = "tally" /\ UNCHANGED <<dbVars, started>>
  BY DEF Tally, AtStep
<1>2. run[t] \in Locals /\ Local(t)
  BY LocalsAre
<1> DEFINE l == run'[t]
           m == [run[t] EXCEPT !.step = "complete"]
           k(edit) == [run[t] EXCEPT !.step = "check", !.edit = edit, !.todo = @ \ {edit}]
<1>3. run' = [run EXCEPT ![t] = m] \/ \E edit \in run[t].todo : run' = [run EXCEPT ![t] = k(edit)]
  BY DEF Tally, Goto, Set
<1>4. l = m \/ \E edit \in run[t].todo : l = k(edit)
  BY <1>3 DEF Structure, Typed
<1>5. run[t].todo \subseteq Edits
  BY <1>2 DEF Locals
<1>6. /\ l \in Locals /\ l.file = run[t].file /\ l.batch = run[t].batch /\ l.i = run[t].i
      /\ l.todo \subseteq run[t].todo
      /\ l.step = "complete" \/ (l.step = "check" /\ l.edit \in run[t].todo)
  <2> HIDE DEF l, m, k
  <2>1. ASSUME l = m
        PROVE  /\ l \in Locals /\ l.file = run[t].file /\ l.batch = run[t].batch /\ l.i = run[t].i
               /\ l.todo = run[t].todo /\ l.step = "complete"
    BY <1>2, <2>1 DEF m, Locals, Outer
  <2>2. ASSUME NEW edit \in run[t].todo, l = k(edit)
        PROVE  /\ l \in Locals /\ l.file = run[t].file /\ l.batch = run[t].batch /\ l.i = run[t].i
               /\ l.todo \subseteq run[t].todo
               /\ l.step = "check" /\ l.edit \in run[t].todo
    <3>1. edit \in Edits /\ run[t].todo \ {edit} \in SUBSET Edits
      BY <1>5
    <3> QED BY <1>2, <2>2, <3>1 DEF k, Locals, Outer
  <2> QED BY <1>4, <2>1, <2>2
<1>7. run' = [run EXCEPT ![t] = l]
  BY <1>3 DEF Structure, Typed
<1>8. l.step = "check" => l.edit \in Edits /\ l.edit.op # "schedule"
  BY <1>2, <1>5, <1>6 DEF Local
<1>9. Local(t)'
  BY <1>1, <1>2, <1>6, <1>8, FilesAre DEF Local, Before, Outer, Inner, Working, AtRow
<1> HIDE DEF l
<1> QED
  BY <1>1, <1>6, <1>7, <1>9, QuietStep DEF Before, Outer, Inner

\* What the missed reports call for.
LEMMA TalliesAre ==
  ASSUME NEW u \in Units, NEW turnover \in TurnoverRows, NEW seen
  PROVE  Tallies(u, turnover, seen) \in SUBSET {e \in Edits : e.op # "schedule"}
BY DEF Tallies, TurnoverRows, Edits, ShouldCancelTurnover, CancelAfter

LEMMA FindMissingStep == ASSUME Structure, NEW t \in Threads, FindMissing(t) PROVE StepOf(t)
<1> DEFINE todo == UNION {Tallies(u, Sees(t, TurnoverCell(u)), run[t].seen) : u \in Units}
           l == [run[t] EXCEPT !.step = "tally", !.todo = todo]
<1>1. /\ run[t].step = "row" /\ run[t].i > Len(run[t].file) /\ UNCHANGED <<dbVars, started>>
      /\ run' = [run EXCEPT ![t] = l]
  BY DEF FindMissing, Set, AtStep
<1>2. run[t] \in Locals /\ Local(t)
  BY LocalsAre
<1>3. todo \in SUBSET {e \in Edits : e.op # "schedule"}
  BY TalliesAre, SeesTyped DEF Structure
<1> HIDE DEF todo
<1>4. /\ l \in Locals /\ l.step = "tally"
      /\ l.file = run[t].file /\ l.batch = run[t].batch /\ l.i = run[t].i /\ l.todo = todo
  BY <1>2, <1>3 DEF Locals, Outer
<1>5. run'[t] = l
  BY <1>1 DEF Structure, Typed
<1> HIDE DEF l
<1>6. Local(t)'
  BY <1>1, <1>2, <1>3, <1>4, <1>5, FilesAre DEF Local, Before, Outer, Inner, Working, AtRow
<1> QED
  BY <1>1, <1>4, <1>6, QuietStep DEF l, Before, Outer, Inner

LEMMA NoTemplatesStep == ASSUME Structure, NEW t \in Threads, NoTemplates(t) PROVE StepOf(t)
<1> DEFINE l == [run[t] EXCEPT !.step = "create_failed", !.outcome = "CONFLICT"]
<1>1. run[t].step = "created" /\ UNCHANGED <<dbVars, started>> /\ run' = [run EXCEPT ![t] = l]
  BY DEF NoTemplates, Set, AtStep
<1>2. run[t] \in Locals /\ Local(t)
  BY LocalsAre
<1>3. /\ l \in Locals /\ l.step = "create_failed"
      /\ l.file = run[t].file /\ l.batch = run[t].batch /\ l.i = run[t].i /\ l.todo = run[t].todo
  BY <1>2 DEF Locals, Inner
<1>4. run'[t] = l
  BY <1>1 DEF Structure, Typed
<1> HIDE DEF l
<1>5. Local(t)'
  BY <1>1, <1>2, <1>3, <1>4 DEF Local, Before, Outer, Inner, Working, AtRow
<1> QED
  BY <1>1, <1>3, <1>5, QuietStep DEF l, Before, Outer, Inner

\* The blocks after each operation.
LEMMA BeginShape ==
  ASSUME Pool, NEW t \in Threads, DB!Begin(t)
  PROVE  /\ Len(blocks'[t]) = Len(blocks[t]) + 1
         /\ txnConn'[t] = blocks'[t][Len(blocks[t]) + 1]
         /\ \A i \in 1..Len(blocks[t]) : blocks'[t][i] = blocks[t][i]
         /\ UNCHANGED <<pending, committed>>
<1>1. PICK c \in idle :
        /\ blocks' = [blocks EXCEPT ![t] = Append(@, c)]
        /\ txnConn' = [txnConn EXCEPT ![t] = c]
        /\ UNCHANGED <<pending, committed>>
  BY BeginEffect
<1>2. c \in Conns /\ blocks[t] \in Seq(Conns) /\ blocks'[t] = Append(blocks[t], c) /\ txnConn'[t] = c
  BY <1>1 DEF Pool, CP!TypeOK
<1> QED BY <1>1, <1>2, Constants, CP!Pushed

LEMMA PutShape ==
  ASSUME NEW t, NEW cell, NEW value, Put(t, cell, value)
  PROVE  UNCHANGED <<blocks, txnConn>>
BY DEF Put, DB!Execute

LEMMA EndShape ==
  ASSUME Pool, NEW t \in Threads, DB!Commit(t) \/ DB!Rollback(t)
  PROVE  /\ Len(blocks'[t]) = Len(blocks[t]) - 1 /\ txnConn'[t] = NoConn
         /\ \A i \in 1..(Len(blocks[t]) - 1) : blocks'[t][i] = blocks[t][i]
BY EndEffect DEF Pool, CP!TypeOK

\* The last conjuncts of StepOf.
LEMMA StepIs ==
  ASSUME Structure, NEW t \in Threads, DbStep(t), started' \in {started, started + 1}, started' <= MaxBatches,
         NEW l \in Locals, run' = [run EXCEPT ![t] = l],
         run'[t] = l => Local(t)' /\ Shape(t)'
  PROVE  StepOf(t)
<1>1. run'[t] = l
  BY DEF Structure, Typed
<1>2. started' \in started..MaxBatches
  BY ImportConstants DEF Structure, Typed
<1> QED BY <1>1, <1>2 DEF StepOf

LEMMA StartedBounded == ASSUME Structure PROVE started <= MaxBatches /\ started \in Nat
BY ImportConstants DEF Structure, Typed

LEMMA EnterStep == ASSUME Structure, NEW t \in Threads, Enter(t) PROVE StepOf(t)
<1>1. run[t].step = "enter" /\ UNCHANGED started /\ run[t] \in Locals /\ Local(t) /\ Shape(t)
  BY LocalsAre DEF Enter, AtStep
<1>2. CASE idle = {}
  <2>1. run' = [run EXCEPT ![t] = Idle] /\ UNCHANGED dbVars
    BY <1>2 DEF Enter, Set
  <2>2. run'[t] = Idle
    BY <2>1 DEF Structure, Typed
  <2>3. Local(t)'
    BY <1>1, <2>2, IdleIs, StartedBounded DEF Local, Before, Outer, Inner, Working, AtRow
  <2> QED BY <1>1, <2>1, <2>3, IdleIs, QuietStep DEF Before, Outer, Inner
<1>3. CASE idle # {}
  <2> DEFINE l == [run[t] EXCEPT !.step = "batch"]
  <2>1. DB!Begin(t) /\ run' = [run EXCEPT ![t] = l]
    BY <1>3 DEF Enter, Goto, Set
  <2>2. /\ l \in Locals /\ l.step = "batch"
        /\ l.file = run[t].file /\ l.batch = run[t].batch /\ l.todo = run[t].todo
    BY <1>1 DEF Locals, Outer
  <2>3. Len(blocks[t]) = 0
    BY <1>1 DEF Shape, Before
  <2>4. DbStep(t)
    BY <2>1, <2>3 DEF DbStep
  <2> HIDE DEF l
  <2>5. run'[t] = l => Local(t)'
    BY <1>1, <2>2 DEF Local, Before, Outer, Inner, Working, AtRow
  <2>6. run'[t] = l => Shape(t)'
    <3>1. Len(blocks'[t]) = 0 + 1 /\ txnConn'[t] = blocks'[t][0 + 1]
      BY <2>1, <2>3, BeginShape DEF Structure
    <3> QED BY <2>2, <3>1 DEF Shape, Before, Outer, Inner
  <2> QED BY <1>1, <2>1, <2>2, <2>4, <2>5, <2>6, StepIs, StartedBounded
<1> QED BY <1>2, <1>3

LEMMA StartBatchStep == ASSUME Structure, NEW t \in Threads, StartBatch(t) PROVE StepOf(t)
<1>1. run[t].step = "batch" /\ run[t] \in Locals /\ Local(t) /\ Shape(t)
  BY LocalsAre DEF StartBatch, AtStep
<1>2. CASE Imported(DB!View(t), run[t].file) \/ started = MaxBatches
  <2> DEFINE l == [run[t] EXCEPT !.step = "leave_failed"]
  <2>1. run' = [run EXCEPT ![t] = l] /\ UNCHANGED <<dbVars, started>>
    BY <1>2 DEF StartBatch, Goto, Set
  <2>2. /\ l \in Locals /\ l.step = "leave_failed"
        /\ l.file = run[t].file /\ l.batch = run[t].batch /\ l.todo = run[t].todo
    BY <1>1 DEF Locals, Outer
  <2> HIDE DEF l
  <2>3. run'[t] = l
    BY <2>1 DEF Structure, Typed
  <2>4. Local(t)'
    BY <1>1, <2>1, <2>2, <2>3 DEF Local, Before, Outer, Inner, Working, AtRow
  <2> QED BY <1>1, <2>1, <2>2, <2>4, QuietStep DEF Before, Outer, Inner
<1>3. CASE ~(Imported(DB!View(t), run[t].file) \/ started = MaxBatches)
  <2> DEFINE b == started + 1
             l == [run[t] EXCEPT !.step = "row", !.batch = b, !.i = 1]
             batch == [status |-> "PROCESSING", file |-> run[t].file]
  <2>1. /\ started' = b /\ Put(t, BatchCell(b), batch)
        /\ run' = [run EXCEPT ![t] = l]
    BY <1>3 DEF StartBatch, Set
  <2>2. b \in Batches /\ b <= MaxBatches
    BY <1>3, ImportConstants DEF Structure, Typed, Batches
  <2> HIDE DEF b
  <2>3. /\ l \in Locals /\ l.step = "row"
        /\ l.file = run[t].file /\ l.batch = b /\ l.todo = run[t].todo /\ l.i = 1
    <3>1. b \in 0..MaxBatches
      BY <2>2, ImportConstants DEF Batches
    <3>2. 1 \in Nat
      OBVIOUS
    <3> QED BY <1>1, <3>1, <3>2 DEF Locals, Outer
  <2>4. run[t].file \in Files /\ Len(run[t].file) \in Nat
    BY <1>1, FilesAre DEF Local
  <2>5. DbStep(t)
    <3>1. CellFits(BatchCell(b), batch)
      BY <2>2, <2>4 DEF CellFits, BatchRows
    <3> QED BY <2>1, <3>1 DEF DbStep
  <2> HIDE DEF l
  <2>6. run'[t] = l => Local(t)'
    BY <1>1, <2>1, <2>2, <2>3, <2>4, ImportConstants DEF Local, Before, Outer, Inner, Working, AtRow, Batches
  <2>7. run'[t] = l => Shape(t)'
    BY <1>1, <2>1, <2>3, PutShape DEF Shape, Before, Outer, Inner
  <2>8. started' \in {started, started + 1}
    BY <2>1 DEF b
  <2> QED BY <2>1, <2>2, <2>3, <2>5, <2>6, <2>7, <2>8, StepIs
<1> QED BY <1>2, <1>3

LEMMA CompleteBatchStep == ASSUME Structure, NEW t \in Threads, CompleteBatch(t) PROVE StepOf(t)
<1> DEFINE l == [run[t] EXCEPT !.step = "leave"]
           batch == [status |-> "COMPLETED", file |-> run[t].file]
<1>1. /\ run[t].step = "complete" /\ run[t] \in Locals /\ Local(t) /\ Shape(t)
      /\ UNCHANGED started /\ Put(t, BatchCell(run[t].batch), batch) /\ run' = [run EXCEPT ![t] = l]
  BY LocalsAre DEF CompleteBatch, AtStep, Goto, Set
<1>2. /\ l \in Locals /\ l.step = "leave" /\ l.i = run[t].i
      /\ l.file = run[t].file /\ l.batch = run[t].batch /\ l.todo = run[t].todo
  BY <1>1 DEF Locals, Outer
<1>3. DbStep(t)
  <2>1. run[t].file \in Files /\ run[t].batch \in Batches
    BY <1>1 DEF Local, Working, Outer
  <2>2. CellFits(BatchCell(run[t].batch), batch)
    BY <2>1 DEF CellFits, BatchRows
  <2> QED BY <1>1, <2>2 DEF DbStep
<1> HIDE DEF l
<1>4. run'[t] = l => Local(t)'
  BY <1>1, <1>2 DEF Local, Before, Outer, Inner, Working, AtRow
<1>5. run'[t] = l => Shape(t)'
  BY <1>1, <1>2, PutShape DEF Shape, Before, Outer, Inner
<1> QED BY <1>1, <1>2, <1>3, <1>4, <1>5, StepIs, StartedBounded

LEMMA LeaveStep == ASSUME Structure, NEW t \in Threads, Leave(t) \/ LeaveFailed(t) PROVE StepOf(t)
<1>1. /\ run[t].step \in {"leave", "leave_failed"} /\ Shape(t)
      /\ UNCHANGED started /\ (DB!Commit(t) \/ DB!Rollback(t)) /\ run' = [run EXCEPT ![t] = Idle]
  BY LocalsAre DEF Leave, LeaveFailed, AtStep, Set
<1>2. DbStep(t)
  BY <1>1 DEF DbStep
<1>3. run'[t] = Idle => Local(t)'
  BY <1>1, IdleIs, StartedBounded DEF Local, Before, Outer, Inner, Working, AtRow
<1>4. run'[t] = Idle => Shape(t)'
  <2>1. Len(blocks[t]) = 1
    BY <1>1 DEF Shape, Outer
  <2>2. Len(blocks'[t]) = 1 - 1
    BY <1>1, <2>1, EndShape DEF Structure
  <2> QED BY <2>2, IdleIs DEF Shape, Before, Outer, Inner
<1> QED BY <1>1, <1>2, <1>3, <1>4, IdleIs, StepIs, StartedBounded

\* A failing step: it leads to the end of a block, after a statement that raised.
LEMMA FailingStep ==
  ASSUME Structure, NEW t \in Threads, UNCHANGED started, DB!Raise(t) \/ UNCHANGED dbVars,
         NEW o \in {"none", "OK", "CONFLICT", "SKIPPED_OVERRIDE"}, NEW step,
         \/ step = "leave_failed" /\ run[t].step \in Outer
         \/ step = "create_failed" /\ run[t].step \in Inner,
         run' = [run EXCEPT ![t] = [run[t] EXCEPT !.outcome = o, !.step = step]]
  PROVE  StepOf(t)
<1> DEFINE l == [run[t] EXCEPT !.outcome = o, !.step = step]
<1>1. run[t] \in Locals /\ Local(t) /\ Shape(t)
  BY LocalsAre
<1>2. /\ l \in Locals /\ l.step = step /\ l.i = run[t].i
      /\ l.file = run[t].file /\ l.batch = run[t].batch /\ l.todo = run[t].todo
  BY <1>1 DEF Locals, Outer, Inner
<1>3. DbStep(t)
  BY DEF DbStep
<1>4. UNCHANGED <<blocks, txnConn>>
  BY DEF DB!Raise, dbVars
<1> HIDE DEF l
<1>5. run'[t] = l => Local(t)'
  BY <1>1, <1>2 DEF Local, Before, Outer, Inner, Working, AtRow
<1>6. run'[t] = l => Shape(t)'
  BY <1>1, <1>2, <1>4 DEF Shape, Before, Outer, Inner
<1>7. run' = [run EXCEPT ![t] = l]
  BY DEF l
<1> QED BY <1>2, <1>3, <1>5, <1>6, <1>7, StepIs, StartedBounded

\* Goto is a failing step that keeps the outcome.
LEMMA GotoFails ==
  ASSUME Structure, NEW t \in Threads, UNCHANGED started, DB!Raise(t) \/ UNCHANGED dbVars, NEW step,
         \/ step = "leave_failed" /\ run[t].step \in Outer
         \/ step = "create_failed" /\ run[t].step \in Inner,
         Goto(t, step)
  PROVE  StepOf(t)
<1>1. run[t] \in Locals
  BY LocalsAre
<1>2. run[t].outcome \in {"none", "OK", "CONFLICT", "SKIPPED_OVERRIDE"}
  BY <1>1 DEF Locals
<1>3. run' = [run EXCEPT ![t] = [run[t] EXCEPT !.outcome = run[t].outcome, !.step = step]]
  BY <1>1 DEF Goto, Set, Locals
<1> QED BY <1>2, <1>3, FailingStep

LEMMA WriteRowStep ==
  ASSUME Structure, Own, NEW t \in Threads, NEW locals \in Locals, WriteRow(t, locals), UNCHANGED started,
         run[t].step \in {"row", "outcome"}, run[t].i \in 1..Len(run[t].file),
         locals.file = run[t].file, locals.batch = run[t].batch, locals.i = run[t].i,
         locals.todo = run[t].todo
  PROVE  StepOf(t)
<1>1. run[t] \in Locals /\ Local(t) /\ Shape(t)
  BY LocalsAre
<1> DEFINE b == run[t].batch
           l == [locals EXCEPT !.step = "row", !.i = @ + 1, !.found = NoTurnover, !.outcome = "none"]
<1>2. b \in Batches /\ run[t].file \in Files
  BY <1>1 DEF Local, Working, Outer
<1>3. CASE Sees(t, BatchCell(b)).status # "none"
  <2>1. /\ Put(t, RowsCell(b), Sees(t, RowsCell(b)) \cup {run[t].i})
        /\ run' = [run EXCEPT ![t] = l]
    BY <1>3 DEF WriteRow, Set
  <2>2. run[t].i \in RowNumbers
    BY <1>2, FilesAre
  <2>3. CellFits(RowsCell(b), Sees(t, RowsCell(b)) \cup {run[t].i})
    BY <1>2, <2>2, SeesTyped DEF CellFits, Structure
  <2>4. DbStep(t)
    BY <2>1, <2>3 DEF DbStep
  <2>5. NoTurnover \in TurnoverRows /\ run[t].i + 1 \in Nat
    BY <1>1, ImportConstants DEF NoTurnover, TurnoverRows, Dates, CancelAfter, Locals
  <2>6. /\ l \in Locals /\ l.step = "row" /\ l.i = run[t].i + 1
        /\ l.file = run[t].file /\ l.batch = b /\ l.todo = run[t].todo
    BY <2>5 DEF Locals, Outer
  <2> HIDE DEF l
  <2>7. run'[t] = l => Local(t)'
    BY <1>1, <1>2, <2>6, FilesAre DEF Local, Before, Outer, Inner, Working, AtRow
  <2>8. run'[t] = l => Shape(t)'
    <3>1. txnConn[t] # NoConn
      BY <1>2, <1>3 DEF Own, Sees, DB!View
    <3>2. txnConn[t] = blocks[t][1]
      <4>1. Len(blocks[t]) = 1
        BY <1>1 DEF Shape, Outer
      <4> QED BY <3>1, <4>1, RemembersOwn DEF Structure
    <3> QED BY <3>2, <1>1, <2>1, <2>6, PutShape DEF Shape, Before, Outer, Inner
  <2> QED BY <2>1, <2>4, <2>6, <2>7, <2>8, StepIs, StartedBounded
<1>4. CASE Sees(t, BatchCell(b)).status = "none"
  BY <1>4, GotoFails DEF WriteRow, Outer
<1> QED BY <1>3, <1>4

LEMMA InvalidRowStep == ASSUME Structure, Own, NEW t \in Threads, InvalidRow(t) PROVE StepOf(t)
<1>1. /\ run[t].step = "row" /\ run[t] \in Locals /\ Local(t) /\ run[t].i <= Len(run[t].file)
      /\ WriteRow(t, run[t]) /\ UNCHANGED started
  BY LocalsAre DEF InvalidRow, AtStep
<1>2. run[t].i \in 1..Len(run[t].file)
  BY <1>1, FilesAre DEF Local
<1> QED BY <1>1, <1>2, WriteRowStep

LEMMA OutcomeStep == ASSUME Structure, Own, NEW t \in Threads, Outcome(t) PROVE StepOf(t)
<1> DEFINE seen == IF run[t].outcome = "CONFLICT" THEN run[t].seen ELSE run[t].seen \cup {RowUnit(t)}
           l == [run[t] EXCEPT !.seen = seen]
<1>1. /\ run[t].step = "outcome" /\ run[t] \in Locals /\ Local(t)
      /\ WriteRow(t, l) /\ UNCHANGED started
  BY LocalsAre DEF Outcome, AtStep
<1>2. run[t].i \in 1..Len(run[t].file) /\ RowUnit(t) \in Units
  BY <1>1, LocalsAre DEF Local, AtRow
<1>3. seen \subseteq Units
  BY <1>1, <1>2 DEF Locals
<1> HIDE DEF seen
<1>4. /\ l \in Locals /\ l.file = run[t].file /\ l.batch = run[t].batch /\ l.i = run[t].i
      /\ l.todo = run[t].todo
  BY <1>1, <1>3 DEF Locals
<1> HIDE DEF l
<1> QED BY <1>1, <1>2, <1>4, WriteRowStep

LEMMA ResolveUnitStep == ASSUME Structure, NEW t \in Threads, ResolveUnit(t) PROVE StepOf(t)
<1> DEFINE l == [run[t] EXCEPT !.step = "lookup"]
<1>1. /\ run[t].step = "row" /\ run[t] \in Locals /\ Local(t) /\ Shape(t) /\ run[t].i <= Len(run[t].file)
      /\ UNCHANGED dbVars \/ Put(t, UnitCell(RowUnit(t)), TRUE)
      /\ UNCHANGED started /\ run' = [run EXCEPT ![t] = l]
  BY LocalsAre DEF ResolveUnit, AtStep, Goto, Set
<1>2. run[t].i \in 1..Len(run[t].file) /\ RowUnit(t) \in Units
  BY <1>1, FilesAre DEF Local, RowUnit, Row, FileRows
<1>3. /\ l \in Locals /\ l.step = "lookup" /\ l.i = run[t].i
      /\ l.file = run[t].file /\ l.batch = run[t].batch /\ l.todo = run[t].todo
  BY <1>1 DEF Locals, Outer
<1>4. DbStep(t)
  BY <1>1, <1>2 DEF DbStep, CellFits
<1> HIDE DEF l
<1>5. run'[t] = l => Local(t)'
  BY <1>1, <1>2, <1>3 DEF Local, Before, Outer, Inner, Working, AtRow
<1>6. UNCHANGED <<blocks, txnConn>>
  BY <1>1, PutShape DEF dbVars
<1>7. run'[t] = l => Shape(t)'
  BY <1>1, <1>3, <1>6 DEF Shape, Before, Outer, Inner
<1> QED BY <1>1, <1>3, <1>4, <1>5, <1>7, StepIs, StartedBounded

LEMMA CreateStep == ASSUME Structure, NEW t \in Threads, Create(t) PROVE StepOf(t)
<1>1. run[t].step = "create" /\ run[t] \in Locals /\ Local(t) /\ Shape(t) /\ UNCHANGED started
  BY LocalsAre DEF Create, AtStep
<1>2. CASE /\ run' = [run EXCEPT ![t] = [run[t] EXCEPT !.step = "outcome", !.outcome = "CONFLICT"]]
           /\ UNCHANGED dbVars
  <2> DEFINE l == [run[t] EXCEPT !.step = "outcome", !.outcome = "CONFLICT"]
  <2>1. /\ l \in Locals /\ l.step = "outcome" /\ l.i = run[t].i
        /\ l.file = run[t].file /\ l.batch = run[t].batch /\ l.todo = run[t].todo
    BY <1>1 DEF Locals, Outer
  <2> HIDE DEF l
  <2>2. run' = [run EXCEPT ![t] = l] /\ run'[t] = l
    BY <1>2 DEF l, Structure, Typed
  <2>3. Local(t)'
    BY <1>1, <2>1, <2>2 DEF Local, Before, Outer, Inner, Working, AtRow
  <2> QED BY <1>1, <1>2, <2>1, <2>2, <2>3, QuietStep DEF Before, Outer, Inner
<1>3. CASE Goto(t, "leave_failed") /\ UNCHANGED dbVars
  BY <1>1, <1>3, GotoFails DEF Outer
<1>4. CASE DB!Begin(t) /\ Goto(t, "insert")
  <2> DEFINE l == [run[t] EXCEPT !.step = "insert"]
  <2>1. /\ l \in Locals /\ l.step = "insert" /\ l.i = run[t].i
        /\ l.file = run[t].file /\ l.batch = run[t].batch /\ l.todo = run[t].todo
    BY <1>1 DEF Locals, Inner
  <2>2. Len(blocks[t]) = 1
    BY <1>1 DEF Shape, Outer
  <2>3. DbStep(t)
    BY <1>4, <2>2 DEF DbStep
  <2>4. run' = [run EXCEPT ![t] = l]
    BY <1>4 DEF Goto, Set
  <2> HIDE DEF l
  <2>5. run'[t] = l => Local(t)'
    BY <1>1, <2>1 DEF Local, Before, Outer, Inner, Working, AtRow
  <2>6. run'[t] = l => Shape(t)'
    <3>1. Len(blocks'[t]) = 1 + 1 /\ txnConn'[t] = blocks'[t][1 + 1]
      BY <1>4, <2>2, BeginShape DEF Structure
    <3> QED BY <2>1, <3>1 DEF Shape, Before, Outer, Inner
  <2> QED BY <1>1, <2>1, <2>3, <2>4, <2>5, <2>6, StepIs, StartedBounded
<1> QED BY <1>2, <1>3, <1>4 DEF Create, Set

\* A turnover a Move Outs report creates.
LEMMA CreatedFits ==
  ASSUME NEW b \in 0..MaxBatches, NEW d \in Dates
  PROVE  [NoTurnover EXCEPT !.status = "open", !.gen = b, !.sched = d] \in TurnoverRows
<1>1. NoTurnover \in TurnoverRows
  BY ImportConstants DEF NoTurnover, TurnoverRows, Dates, CancelAfter
<1> QED BY <1>1 DEF TurnoverRows

LEMMA InsertStep == ASSUME Structure, NEW t \in Threads, Insert(t) PROVE StepOf(t)
<1> DEFINE l == [run[t] EXCEPT !.step = "created"]
           row == [NoTurnover EXCEPT !.status = "open", !.gen = run[t].batch, !.sched = Row(t).date]
<1>1. run[t].step = "insert" /\ run[t] \in Locals /\ Local(t) /\ Shape(t) /\ UNCHANGED started
  BY LocalsAre DEF Insert, AtStep
<1>2. CASE Put(t, TurnoverCell(RowUnit(t)), row) /\ Goto(t, "created")
  <2>1. /\ l \in Locals /\ l.step = "created" /\ l.i = run[t].i
        /\ l.file = run[t].file /\ l.batch = run[t].batch /\ l.todo = run[t].todo
    BY <1>1 DEF Locals, Inner
  <2>2. DbStep(t)
    <3>1. RowUnit(t) \in Units /\ Row(t).date \in Dates /\ run[t].batch \in 0..MaxBatches
      BY <1>1, LocalsAre DEF AtRow, Inner, Locals
    <3>2. row \in TurnoverRows
      BY <3>1, CreatedFits
    <3> QED BY <1>2, <3>1, <3>2 DEF DbStep, CellFits
  <2>3. run' = [run EXCEPT ![t] = l]
    BY <1>2 DEF Goto, Set
  <2> HIDE DEF l
  <2>4. run'[t] = l => Local(t)'
    BY <1>1, <2>1 DEF Local, Before, Outer, Inner, Working, AtRow
  <2>5. run'[t] = l => Shape(t)'
    BY <1>1, <1>2, <2>1, PutShape DEF Shape, Before, Outer, Inner
  <2> QED BY <1>1, <2>1, <2>2, <2>3, <2>4, <2>5, StepIs, StartedBounded
<1>3. CASE DB!Raise(t) /\ Goto(t, "create_failed")
  BY <1>1, <1>3, GotoFails DEF Inner
<1> QED BY <1>2, <1>3 DEF Insert

LEMMA EndCreateStep ==
  ASSUME Structure, NEW t \in Threads, CommitCreate(t) \/ CreateFailed(t)
  PROVE  StepOf(t)
<1>1. /\ run[t].step \in {"created", "create_failed"} /\ run[t] \in Locals /\ Local(t) /\ Shape(t)
      /\ UNCHANGED started /\ (DB!Commit(t) \/ DB!Rollback(t))
  BY LocalsAre DEF CommitCreate, CreateFailed, AtStep
<1>2. PICK step \in {"outcome", "leave_failed"}, o \in {"none", "OK", "CONFLICT", "SKIPPED_OVERRIDE"} :
        run' = [run EXCEPT ![t] = [run[t] EXCEPT !.step = step, !.outcome = o]]
  <2>1. CASE CommitCreate(t)
    BY <2>1 DEF CommitCreate, Set
  <2>2. CASE CreateFailed(t)
    <3>1. PICK step \in {"outcome", "leave_failed"} : run' = [run EXCEPT ![t] = [run[t] EXCEPT !.step = step]]
      BY <2>2 DEF CreateFailed, Goto, Set
    <3>2. [run[t] EXCEPT !.step = step] = [run[t] EXCEPT !.step = step, !.outcome = run[t].outcome]
      BY <1>1 DEF Locals
    <3>3. run[t].outcome \in {"none", "OK", "CONFLICT", "SKIPPED_OVERRIDE"}
      BY <1>1 DEF Locals
    <3> QED BY <3>1, <3>2, <3>3
  <2> QED BY <2>1, <2>2
<1> DEFINE l == [run[t] EXCEPT !.step = step, !.outcome = o]
<1>3. /\ l \in Locals /\ l.step = step /\ l.i = run[t].i
      /\ l.file = run[t].file /\ l.batch = run[t].batch /\ l.todo = run[t].todo
  BY <1>1 DEF Locals, Outer
<1>4. DbStep(t)
  BY <1>1 DEF DbStep
<1> HIDE DEF l
<1>5. run'[t] = l => Local(t)'
  BY <1>1, <1>3 DEF Local, Before, Outer, Inner, Working, AtRow
<1>6. run'[t] = l => Shape(t)'
  <2>1. Len(blocks[t]) = 2
    BY <1>1 DEF Shape, Inner
  <2>2. Len(blocks'[t]) = 2 - 1
    BY <1>1, <2>1, EndShape DEF Structure
  <2> QED BY <1>3, <2>2 DEF Shape, Before, Outer, Inner
<1>7. run' = [run EXCEPT ![t] = l]
  BY <1>2 DEF l
<1> QED BY <1>1, <1>3, <1>4, <1>5, <1>6, <1>7, StepIs, StartedBounded

\* An update leaves a turnover a turnover.
LEMMA EditedFits ==
  ASSUME NEW row \in TurnoverRows, NEW edit \in Edits, NEW b \in 0..MaxBatches
  PROVE  Edited(row, edit, b) \in TurnoverRows
<1>1. row.absences \cup {b} \in SUBSET (0..MaxBatches) /\ 0 \in 0..CancelAfter
  BY DEF TurnoverRows, CancelAfter
<1> QED BY <1>1 DEF Edited, TurnoverRows, Edits

LEMMA WriteStep == ASSUME Structure, NEW t \in Threads, Write(t) PROVE StepOf(t)
<1> DEFINE edit == run[t].edit
           cell == TurnoverCell(edit.unit)
           step == IF edit.op = "schedule" THEN "outcome" ELSE "tally"
           l == [run[t] EXCEPT !.step = step, !.edit = NoEdit]
<1>1. /\ run[t].step = "write" /\ run[t] \in Locals /\ Local(t) /\ Shape(t) /\ UNCHANGED started
      /\ UNCHANGED dbVars \/ Put(t, cell, Edited(Sees(t, cell), edit, run[t].batch))
      /\ run' = [run EXCEPT ![t] = l]
  BY LocalsAre DEF Write, AtStep, Set
<1>2. edit \in Edits /\ run[t].batch \in 0..MaxBatches
  BY <1>1 DEF Local, Locals
<1>3. DbStep(t)
  <2>1. edit.unit \in Units
    BY <1>2 DEF Edits
  <2>2. Edited(Sees(t, cell), edit, run[t].batch) \in TurnoverRows
    BY <1>2, <2>1, SeesTyped, EditedFits DEF Structure
  <2> QED BY <1>1, <2>1, <2>2 DEF DbStep, CellFits
<1>4. /\ l \in Locals /\ l.step = step /\ l.i = run[t].i
      /\ l.file = run[t].file /\ l.batch = run[t].batch /\ l.todo = run[t].todo
  BY <1>1 DEF Locals, Outer
<1> HIDE DEF l
<1>5. UNCHANGED <<blocks, txnConn>>
  BY <1>1, PutShape DEF dbVars
<1>6. run'[t] = l => Local(t)'
  BY <1>1, <1>4, FilesAre DEF Local, Before, Outer, Inner, Working, AtRow
<1>7. run'[t] = l => Shape(t)'
  BY <1>1, <1>4, <1>5 DEF Shape, Before, Outer, Inner
<1> QED BY <1>1, <1>3, <1>4, <1>6, <1>7, StepIs, StartedBounded

LEMMA FailStep == ASSUME Structure, NEW t \in Threads, Fail(t) PROVE StepOf(t)
<1>1. run[t] \in Locals /\ Shape(t) /\ run[t].step \notin Before
  BY LocalsAre DEF Fail, Before
<1>2. run[t].step \in Outer \/ run[t].step \in Inner
  BY <1>1 DEF Locals
<1>3. /\ DB!Raise(t) /\ UNCHANGED started
      /\ \/ Len(blocks[t]) = 2 /\ run' = [run EXCEPT ![t] = [run[t] EXCEPT !.outcome = "none", !.step = "create_failed"]]
         \/ Len(blocks[t]) # 2 /\ run' = [run EXCEPT ![t] = [run[t] EXCEPT !.outcome = "none", !.step = "leave_failed"]]
  BY DEF Fail, Set
<1>4. CASE run[t].step \in Outer
  <2>1. Len(blocks[t]) # 2
    BY <1>1, <1>4 DEF Shape
  <2> QED BY <1>3, <1>4, <2>1, FailingStep
<1>5. CASE run[t].step \in Inner
  <2>1. Len(blocks[t]) = 2
    BY <1>1, <1>5 DEF Shape
  <2> QED BY <1>3, <1>5, <2>1, FailingStep
<1> QED BY <1>2, <1>4, <1>5

LEMMA EveryStep ==
  ASSUME Structure, Own, NEW t \in Threads, Detect(t) \/ Import(t) \/ Fail(t)
  PROVE  StepOf(t)
BY DetectStep, EnterStep, StartBatchStep, InvalidRowStep, ResolveUnitStep, LookupStep, CreateStep,
   InsertStep, EndCreateStep, NoTemplatesStep, UpdateStep, CheckOpenStep, WriteStep, OutcomeStep,
   FindMissingStep, TallyStep, CompleteBatchStep, LeaveStep, FailStep
   DEF Import

-----------------------------------------------------------------------------
(***************************************************************************)
(* The same steps, by what they do to the batch and its rows.              *)
(***************************************************************************)
Outermost(t) == blocks[t][1]

\* t has written one cell on connection c.
Wrote(t, c, cell, value) ==
  /\ c \in Conns /\ c = txnConn[t]
  /\ pending' = [pending EXCEPT ![c] = DB!Over(Written(cell, value), @)]
  /\ UNCHANGED <<blocks, txnConn, committed>>

\* The batch and the place in its file stay as they are.
Stays(t) ==
  /\ run'[t].batch = run[t].batch
  /\ run'[t].step \in Working =>
       /\ run[t].step \in Working /\ (run'[t].step = "leave" <=> run[t].step = "leave")
       /\ run'[t].file = run[t].file /\ run'[t].i = run[t].i

\* Nothing is written.
Waits(t) ==
  /\ UNCHANGED <<pending, committed, started>> /\ Stays(t)
  /\ Len(blocks[t]) >= 1 => Len(blocks'[t]) >= 1 /\ Outermost(t)' = Outermost(t)

\* A unit or a turnover is written.
Works(t) ==
  /\ UNCHANGED started /\ Stays(t) /\ Len(blocks[t]) >= 1 /\ run[t].step \in Working
  /\ run[t].step # "leave"
  /\ \E u \in Units : \E value :
       \/ Wrote(t, txnConn[t], UnitCell(u), value)
       \/ Wrote(t, txnConn[t], TurnoverCell(u), value)

\* The batch is opened, an import row is written, the batch is completed.
Opens(t) ==
  LET b == started + 1 IN
  /\ started' = b /\ b \in Batches /\ run'[t].batch = b /\ run'[t].i = 1
  /\ run[t].step = "batch" /\ run'[t].step = "row" /\ Len(blocks[t]) = 1
  /\ run'[t].file = run[t].file
  /\ Wrote(t, Outermost(t), BatchCell(b), [status |-> "PROCESSING", file |-> run[t].file])

Records(t) ==
  /\ UNCHANGED started /\ run[t].step \in {"row", "outcome"} /\ run'[t].step = "row"
  /\ Len(blocks[t]) = 1
  /\ run'[t].batch = run[t].batch /\ run'[t].file = run[t].file /\ run'[t].i = run[t].i + 1
  /\ Wrote(t, Outermost(t), RowsCell(run[t].batch), Sees(t, RowsCell(run[t].batch)) \cup {run[t].i})

Completes(t) ==
  /\ UNCHANGED started /\ run[t].step = "complete" /\ run'[t].step = "leave" /\ Len(blocks[t]) = 1
  /\ run'[t].batch = run[t].batch /\ run'[t].file = run[t].file /\ run'[t].i = run[t].i
  /\ Wrote(t, Outermost(t), BatchCell(run[t].batch), [status |-> "COMPLETED", file |-> run[t].file])

\* Its transaction ends: it commits or not.
Ends(t) ==
  /\ UNCHANGED started /\ Len(blocks[t]) = 1 /\ Len(blocks'[t]) = 0
  /\ run'[t] = Idle
  /\ Outermost(t) \in Conns /\ pending' = [pending EXCEPT ![Outermost(t)] = DB!Nothing]
  /\ \/ UNCHANGED committed
     \/ run[t].step = "leave" /\ committed' = DB!Over(pending[Outermost(t)], committed)

\* That of a creation ends.
EndsCreation(t) ==
  /\ UNCHANGED started /\ Stays(t) /\ Len(blocks[t]) = 2 /\ Len(blocks'[t]) = 1
  /\ run'[t].step \in {"outcome", "leave_failed"}
  /\ Outermost(t)' = Outermost(t)
  /\ blocks[t][2] \in Conns /\ pending' = [pending EXCEPT ![blocks[t][2]] = DB!Nothing]
  /\ committed' \in {committed, DB!Over(pending[blocks[t][2]], committed)}

Moves(t) ==
  Waits(t) \/ Works(t) \/ Opens(t) \/ Records(t) \/ Completes(t) \/ Ends(t) \/ EndsCreation(t)

LEMMA PutWrote ==
  ASSUME Structure, NEW t \in Threads, NEW cell, NEW value, Put(t, cell, value), txnConn[t] # NoConn
  PROVE  Wrote(t, txnConn[t], cell, value)
BY PutEffect DEF Wrote, Structure

\* A connection is never None.
LEMMA OwnConnection ==
  ASSUME Structure, NEW t \in Threads
  PROVE  /\ run[t].step \in Outer => Len(blocks[t]) = 1 /\ Outermost(t) \in Conns
         /\ run[t].step \in Outer \ {"outcome", "leave_failed"} =>
              txnConn[t] = Outermost(t) /\ txnConn[t] # NoConn
         /\ run[t].step \in Inner => txnConn[t] # NoConn /\ Len(blocks[t]) = 2 /\ blocks[t][2] \in Conns
         /\ txnConn[t] # NoConn /\ Len(blocks[t]) = 1 => txnConn[t] = Outermost(t)
<1>1. Shape(t) /\ blocks[t] \in Seq(Conns)
  BY LocalsAre DEF Structure, Pool, CP!TypeOK
<1>2. txnConn[t] # NoConn => txnConn[t] = blocks[t][Len(blocks[t])]
  BY RemembersOwn DEF Structure
<1>3. Len(blocks[t]) >= 1 => blocks[t][1] \in Conns
  BY <1>1
<1>4. Len(blocks[t]) = 2 => blocks[t][2] \in Conns
  BY <1>1
<1> QED BY <1>1, <1>2, <1>3, <1>4, Constants DEF Shape, Outermost

\* Steps that neither write nor end anything.
LEMMA WaitingStep ==
  ASSUME Structure, NEW t \in Threads,
         \/ Detect(t) \/ Enter(t) \/ Lookup(t) \/ Create(t) \/ NoTemplates(t) \/ Update(t) \/ CheckOpen(t)
         \/ FindMissing(t) \/ Tally(t) \/ Fail(t)
  PROVE  Waits(t)
<1>1. run \in [Threads -> Locals] /\ run[t] \in Locals /\ Local(t) /\ Shape(t)
  BY LocalsAre DEF Structure, Typed
<1>2. UNCHANGED started
  BY DEF Detect, Enter, Lookup, Create, NoTemplates, Update, CheckOpen, FindMissing, Tally, Fail
<1>3. \/ UNCHANGED dbVars
      \/ DB!Begin(t)
      \/ DB!Raise(t)
  BY DEF Detect, Enter, Lookup, Create, NoTemplates, Update, CheckOpen, FindMissing, Tally, Fail
<1>4. /\ UNCHANGED <<pending, committed>>
      /\ Len(blocks[t]) >= 1 => Len(blocks'[t]) >= 1 /\ Outermost(t)' = Outermost(t)
  <2>1. CASE UNCHANGED dbVars \/ DB!Raise(t)
    BY <2>1 DEF dbVars, DB!Raise, Outermost
  <2>2. CASE DB!Begin(t)
    <3>1. Len(blocks[t]) \in Nat
      BY DEF Structure, Pool, CP!TypeOK
    <3> QED BY <2>2, <3>1, BeginShape DEF Structure, Outermost
  <2> QED BY <1>3, <2>1, <2>2
<1>5. Stays(t)
  <2>1. CASE Detect(t)
    <3>1. PICK file \in Files : run' = [run EXCEPT ![t] = [Idle EXCEPT !.step = "enter", !.file = file]]
      BY <2>1 DEF Detect, Set
    <3>2. run[t].step = "idle" /\ run'[t].step = "enter" /\ run'[t].batch = 0
      BY <1>1, <2>1, <3>1, IdleIs DEF Detect, AtStep, Locals
    <3> QED BY <1>1, <3>2 DEF Stays, Local, Working, Before, Outer, Inner
  <2>2. CASE Enter(t)
    <3>1. run[t].step = "enter" /\ (run' = [run EXCEPT ![t] = Idle] \/ run' = [run EXCEPT ![t] = [run[t] EXCEPT !.step = "batch"]])
      BY <2>2 DEF Enter, Set, Goto, AtStep
    <3>2. run'[t].batch = 0 /\ run'[t].step \in {"idle", "batch"}
      BY <1>1, <3>1, IdleIs DEF Local, Before, Locals
    <3> QED BY <1>1, <3>1, <3>2 DEF Stays, Local, Working, Before, Outer, Inner
  <2>3. CASE Lookup(t)
    BY <1>1, <2>3 DEF Lookup, Set, AtStep, Stays, Locals, Working, Outer, Inner
  <2>4. CASE Create(t)
    <3>1. /\ run[t].step = "create"
          /\ \/ run' = [run EXCEPT ![t] = [run[t] EXCEPT !.step = "outcome", !.outcome = "CONFLICT"]]
             \/ run' = [run EXCEPT ![t] = [run[t] EXCEPT !.step = "leave_failed"]]
             \/ run' = [run EXCEPT ![t] = [run[t] EXCEPT !.step = "insert"]]
      BY <2>4 DEF Create, Set, Goto, AtStep
    <3>2. \/ run'[t] = [run[t] EXCEPT !.step = "outcome", !.outcome = "CONFLICT"]
          \/ run'[t] = [run[t] EXCEPT !.step = "leave_failed"]
          \/ run'[t] = [run[t] EXCEPT !.step = "insert"]
      BY <1>1, <3>1
    <3>3. /\ run'[t].step \in {"outcome", "leave_failed", "insert"}
          /\ run'[t].batch = run[t].batch /\ run'[t].file = run[t].file /\ run'[t].i = run[t].i
      BY <1>1, <3>2 DEF Locals
    <3> QED BY <3>1, <3>3 DEF Stays, Locals, Working, Outer, Inner
  <2>5. CASE NoTemplates(t)
    BY <1>1, <2>5 DEF NoTemplates, Set, AtStep, Stays, Locals, Working, Outer, Inner
  <2>6. CASE Update(t)
    <3> DEFINE edit == [unit |-> RowUnit(t), gen |-> run[t].found.gen, op |-> "schedule", value |-> Row(t).date]
    <3>1. /\ run[t].step = "update"
          /\ \/ run' = [run EXCEPT ![t] = [run[t] EXCEPT !.step = "check", !.outcome = "OK", !.edit = edit]]
             \/ run' = [run EXCEPT ![t] = [run[t] EXCEPT !.step = "outcome", !.outcome = "OK"]]
             \/ run' = [run EXCEPT ![t] = [run[t] EXCEPT !.step = "outcome", !.outcome = "SKIPPED_OVERRIDE"]]
      BY <2>6 DEF Update, Set, AtStep
    <3> HIDE DEF edit
    <3>2. \/ run'[t] = [run[t] EXCEPT !.step = "check", !.outcome = "OK", !.edit = edit]
          \/ run'[t] = [run[t] EXCEPT !.step = "outcome", !.outcome = "OK"]
          \/ run'[t] = [run[t] EXCEPT !.step = "outcome", !.outcome = "SKIPPED_OVERRIDE"]
      BY <1>1, <3>1
    <3>3. /\ run'[t].step \in {"check", "outcome"}
          /\ run'[t].batch = run[t].batch /\ run'[t].file = run[t].file /\ run'[t].i = run[t].i
      BY <1>1, <3>2 DEF Locals
    <3> QED BY <3>1, <3>3 DEF Stays, Locals, Working, Outer, Inner
  <2>7. CASE CheckOpen(t)
    BY <1>1, <2>7 DEF CheckOpen, Set, Goto, AtStep, Stays, Locals, Working, Outer, Inner
  <2>8. CASE FindMissing(t)
    <3> DEFINE todo == UNION {Tallies(u, Sees(t, TurnoverCell(u)), run[t].seen) : u \in Units}
    <3>1. run[t].step = "row" /\ run' = [run EXCEPT ![t] = [run[t] EXCEPT !.step = "tally", !.todo = todo]]
      BY <2>8 DEF FindMissing, Set, AtStep
    <3> HIDE DEF todo
    <3> QED BY <1>1, <3>1 DEF Stays, Locals, Working, Outer, Inner
  <2>9. CASE Tally(t)
    <3>1. CASE run[t].todo = {}
      <4>1. run[t].step = "tally" /\ run' = [run EXCEPT ![t] = [run[t] EXCEPT !.step = "complete"]]
        BY <2>9, <3>1 DEF Tally, Set, Goto, AtStep
      <4> QED BY <1>1, <4>1 DEF Stays, Locals, Working, Outer, Inner
    <3>2. CASE run[t].todo # {}
      <4>1. PICK edit \in run[t].todo :
              run' = [run EXCEPT ![t] = [run[t] EXCEPT !.step = "check", !.edit = edit, !.todo = @ \ {edit}]]
        BY <2>9, <3>2 DEF Tally, Set
      <4>2. run[t].step = "tally"
        BY <2>9 DEF Tally, AtStep
      <4> QED BY <1>1, <4>1, <4>2 DEF Stays, Locals, Working, Outer, Inner
    <3> QED BY <3>1, <3>2
  <2>10. CASE Fail(t)
    <3>1. PICK step \in {"create_failed", "leave_failed"} :
            /\ run' = [run EXCEPT ![t] = [run[t] EXCEPT !.outcome = "none", !.step = step]]
            /\ step = "create_failed" => Len(blocks[t]) = 2
      BY <2>10 DEF Fail, Set
    <3>2. step = "create_failed" => run[t].step \in Inner
      <4>1. run[t].step \in Before \cup Outer \cup Inner
        BY <1>1 DEF Locals
      <4> QED BY <1>1, <3>1, <4>1 DEF Shape
    <3> QED BY <1>1, <3>1, <3>2 DEF Stays, Locals, Working, Outer, Inner
  <2> QED BY <2>1, <2>2, <2>3, <2>4, <2>5, <2>6, <2>7, <2>8, <2>9, <2>10
<1> QED BY <1>2, <1>4, <1>5 DEF Waits

LEMMA WritingStep ==
  ASSUME Structure, Own, NEW t \in Threads,
         StartBatch(t) \/ InvalidRow(t) \/ ResolveUnit(t) \/ Insert(t) \/ Write(t) \/ Outcome(t) \/ CompleteBatch(t)
  PROVE  Moves(t)
<1>1. run \in [Threads -> Locals] /\ run[t] \in Locals /\ Local(t) /\ Shape(t)
  BY LocalsAre DEF Structure, Typed
<1>2. ASSUME NEW l \in Locals, l.batch = run[t].batch, l.file = run[t].file, l.i = run[t].i,
             WriteRow(t, l), run[t].step \in {"row", "outcome"}, UNCHANGED started
      PROVE  Moves(t)
  <2>1. CASE Sees(t, BatchCell(run[t].batch)).status # "none"
    <3> DEFINE m == [l EXCEPT !.step = "row", !.i = @ + 1, !.found = NoTurnover, !.outcome = "none"]
    <3>1. /\ Put(t, RowsCell(run[t].batch), Sees(t, RowsCell(run[t].batch)) \cup {run[t].i})
          /\ run' = [run EXCEPT ![t] = m]
      BY <1>2, <2>1 DEF WriteRow, Set
    <3>2. /\ run'[t].batch = run[t].batch /\ run'[t].file = run[t].file /\ run'[t].i = run[t].i + 1
          /\ run'[t].step = "row"
      BY <1>1, <1>2, <3>1 DEF Locals
    <3>3. run[t].batch \in Batches
      BY <1>1, <1>2 DEF Local, Working, Outer
    <3>4. txnConn[t] # NoConn
      BY <2>1, <3>3 DEF Own, Sees, DB!View
    <3>5. Len(blocks[t]) = 1 /\ txnConn[t] = Outermost(t)
      BY <1>2, <3>4, OwnConnection DEF Outer
    <3> QED BY <1>2, <3>1, <3>2, <3>4, <3>5, PutWrote DEF Moves, Records
  <2>2. CASE Sees(t, BatchCell(run[t].batch)).status = "none"
    <3>1. DB!Raise(t) /\ run' = [run EXCEPT ![t] = [run[t] EXCEPT !.step = "leave_failed"]]
      BY <1>2, <2>2 DEF WriteRow, Goto, Set
    <3>2. run'[t].step = "leave_failed" /\ run'[t].batch = run[t].batch
      BY <1>1, <3>1 DEF Locals
    <3>3. Waits(t)
      BY <1>2, <3>1, <3>2 DEF Waits, Stays, DB!Raise, Outermost, Working, Outer, Inner
    <3> QED BY <3>3 DEF Moves
  <2> QED BY <2>1, <2>2
<1>3. CASE InvalidRow(t)
  BY <1>1, <1>2, <1>3 DEF InvalidRow, AtStep
<1>4. CASE Outcome(t)
  <2> DEFINE seen == IF run[t].outcome = "CONFLICT" THEN run[t].seen ELSE run[t].seen \cup {RowUnit(t)}
             l == [run[t] EXCEPT !.seen = seen]
  <2>1. /\ run[t].step = "outcome" /\ WriteRow(t, l) /\ UNCHANGED started
    BY <1>4 DEF Outcome, AtStep
  <2>2. RowUnit(t) \in Units
    BY <2>1, LocalsAre DEF AtRow
  <2>3. seen \subseteq Units
    BY <1>1, <2>2 DEF Locals
  <2> HIDE DEF seen
  <2>4. l \in Locals /\ l.file = run[t].file /\ l.batch = run[t].batch /\ l.i = run[t].i
    BY <1>1, <2>3 DEF Locals
  <2> HIDE DEF l
  <2> QED BY <1>2, <2>1, <2>4
<1>5. CASE StartBatch(t)
  <2>1. CASE Imported(DB!View(t), run[t].file) \/ started = MaxBatches
    <3>1. UNCHANGED <<dbVars, started>> /\ run' = [run EXCEPT ![t] = [run[t] EXCEPT !.step = "leave_failed"]]
      BY <1>5, <2>1 DEF StartBatch, Goto, Set
    <3>2. run'[t].step = "leave_failed" /\ run'[t].batch = run[t].batch
      BY <1>1, <3>1 DEF Locals
    <3>3. Waits(t)
      BY <3>1, <3>2 DEF Waits, Stays, dbVars, Outermost, Working, Outer, Inner
    <3> QED BY <3>3 DEF Moves
  <2>2. CASE ~(Imported(DB!View(t), run[t].file) \/ started = MaxBatches)
    <3> DEFINE b == started + 1
    <3>1. /\ started' = b /\ Put(t, BatchCell(b), [status |-> "PROCESSING", file |-> run[t].file])
          /\ run' = [run EXCEPT ![t] = [run[t] EXCEPT !.step = "row", !.batch = b, !.i = 1]]
          /\ run[t].step = "batch"
      BY <1>5, <2>2 DEF StartBatch, Set, AtStep
    <3>2. b \in Batches
      BY <2>2, ImportConstants DEF Structure, Typed, Batches
    <3> HIDE DEF b
    <3>3. run'[t].batch = b /\ run'[t].i = 1 /\ run'[t].file = run[t].file /\ run'[t].step = "row"
      BY <1>1, <3>1 DEF Locals
    <3>4. Len(blocks[t]) = 1 /\ txnConn[t] = Outermost(t) /\ txnConn[t] # NoConn
      BY <3>1, OwnConnection DEF Outer
    <3> QED BY <3>1, <3>2, <3>3, <3>4, PutWrote DEF Moves, Opens, b
  <2> QED BY <2>1, <2>2
<1>6. CASE CompleteBatch(t)
  <2>1. /\ run[t].step = "complete" /\ Put(t, BatchCell(run[t].batch), [status |-> "COMPLETED", file |-> run[t].file])
        /\ run' = [run EXCEPT ![t] = [run[t] EXCEPT !.step = "leave"]] /\ UNCHANGED started
    BY <1>6 DEF CompleteBatch, Goto, Set, AtStep
  <2>2. /\ run'[t].batch = run[t].batch /\ run'[t].i = run[t].i /\ run'[t].file = run[t].file
        /\ run'[t].step = "leave"
    BY <1>1, <2>1 DEF Locals
  <2>3. Len(blocks[t]) = 1 /\ txnConn[t] = Outermost(t) /\ txnConn[t] # NoConn
    BY <2>1, OwnConnection DEF Outer
  <2> QED BY <2>1, <2>2, <2>3, PutWrote DEF Moves, Completes
<1>7. CASE ResolveUnit(t)
  <2>1. /\ run[t].step = "row" /\ UNCHANGED started
        /\ UNCHANGED dbVars \/ Put(t, UnitCell(RowUnit(t)), TRUE)
        /\ run' = [run EXCEPT ![t] = [run[t] EXCEPT !.step = "lookup"]]
    BY <1>7 DEF ResolveUnit, Goto, Set, AtStep
  <2>2. Stays(t)
    BY <1>1, <2>1 DEF Stays, Locals, Working, Outer, Inner
  <2>3. CASE UNCHANGED dbVars
    BY <2>1, <2>2, <2>3 DEF Moves, Waits, dbVars, Outermost
  <2>4. CASE Put(t, UnitCell(RowUnit(t)), TRUE)
    <3>1. RowUnit(t) \in Units
      BY <1>1, <1>7, FilesAre DEF ResolveUnit, AtStep, Local, RowUnit, Row, FileRows
    <3>2. Len(blocks[t]) = 1 /\ txnConn[t] # NoConn /\ run[t].step \in Working
      BY <2>1, OwnConnection DEF Outer, Working
    <3>3. Wrote(t, txnConn[t], UnitCell(RowUnit(t)), TRUE)
      BY <2>4, <3>2, PutWrote
    <3>4. \E value : Wrote(t, txnConn[t], UnitCell(RowUnit(t)), value)
      BY <3>3, Zenon
    <3> QED BY <2>1, <2>2, <3>1, <3>2, <3>4 DEF Moves, Works
  <2> QED BY <2>1, <2>3, <2>4
<1>8. CASE Insert(t)
  <2>1. run[t].step = "insert" /\ UNCHANGED started
    BY <1>8 DEF Insert, AtStep
  <2>2. Len(blocks[t]) = 2 /\ txnConn[t] # NoConn /\ run[t].step \in Working /\ RowUnit(t) \in Units
    BY <2>1, OwnConnection, LocalsAre DEF Inner, Working, AtRow
  <2>3. CASE DB!Raise(t) /\ Goto(t, "create_failed")
    <3>1. Stays(t)
      BY <1>1, <2>1, <2>3 DEF Goto, Set, Stays, Locals, Working, Outer, Inner
    <3> QED BY <2>1, <2>3, <3>1 DEF Moves, Waits, DB!Raise, Outermost
  <2>4. ASSUME NEW value, Put(t, TurnoverCell(RowUnit(t)), value), Goto(t, "created")
        PROVE  Moves(t)
    <3>1. Stays(t)
      BY <1>1, <2>1, <2>4 DEF Goto, Set, Stays, Locals, Working, Outer, Inner
    <3>2. Wrote(t, txnConn[t], TurnoverCell(RowUnit(t)), value)
      BY <2>2, <2>4, PutWrote
    <3> QED BY <2>1, <2>2, <3>1, <3>2 DEF Moves, Works
  <2> QED BY <1>8, <2>3, <2>4 DEF Insert
<1>9. CASE Write(t)
  <2> DEFINE edit == run[t].edit
             cell == TurnoverCell(edit.unit)
             value == Edited(Sees(t, cell), edit, run[t].batch)
             step == IF edit.op = "schedule" THEN "outcome" ELSE "tally"
  <2>1. /\ run[t].step = "write" /\ UNCHANGED started
        /\ UNCHANGED dbVars \/ Put(t, cell, value)
        /\ run' = [run EXCEPT ![t] = [run[t] EXCEPT !.step = step, !.edit = NoEdit]]
    BY <1>9 DEF Write, AtStep, Set
  <2>2. Stays(t)
    BY <1>1, <2>1 DEF Stays, Locals, Working, Outer, Inner
  <2>3. edit.unit \in Units
    BY <1>1, <2>1 DEF Local, Edits
  <2> HIDE DEF value, step
  <2>4. CASE UNCHANGED dbVars
    BY <2>1, <2>2, <2>4 DEF Moves, Waits, dbVars, Outermost
  <2>5. CASE Put(t, cell, value)
    <3>1. Len(blocks[t]) = 1 /\ txnConn[t] # NoConn /\ run[t].step \in Working
      BY <2>1, OwnConnection DEF Outer, Working
    <3>2. Wrote(t, txnConn[t], cell, value)
      BY <2>5, <3>1, PutWrote
    <3> QED BY <2>1, <2>2, <2>3, <3>1, <3>2 DEF Moves, Works
  <2> QED BY <2>1, <2>4, <2>5
<1> QED BY <1>3, <1>4, <1>5, <1>6, <1>7, <1>8, <1>9

LEMMA EndingStep ==
  ASSUME Structure, NEW t \in Threads,
         Leave(t) \/ LeaveFailed(t) \/ CommitCreate(t) \/ CreateFailed(t)
  PROVE  Moves(t)
<1>1. run \in [Threads -> Locals] /\ run[t] \in Locals
  BY LocalsAre DEF Structure, Typed
<1>2. UNCHANGED started /\ (DB!Commit(t) \/ DB!Rollback(t))
  BY DEF Leave, LeaveFailed, CommitCreate, CreateFailed
<1>3. /\ pending' = [pending EXCEPT ![blocks[t][Len(blocks[t])]] = DB!Nothing]
      /\ Len(blocks'[t]) = Len(blocks[t]) - 1
      /\ \A i \in 1..(Len(blocks[t]) - 1) : blocks'[t][i] = blocks[t][i]
      /\ DB!Rollback(t) => committed' = committed
      /\ committed' \in {committed, DB!Over(pending[blocks[t][Len(blocks[t])]], committed)}
  BY <1>2, EndEffect DEF Structure
<1>4. CASE Leave(t) \/ LeaveFailed(t)
  <2>1. /\ run[t].step \in {"leave", "leave_failed"} /\ run'[t] = Idle
        /\ run[t].step # "leave" => DB!Rollback(t)
    BY <1>1, <1>4 DEF Leave, LeaveFailed, AtStep, Set
  <2>2. Len(blocks[t]) = 1 /\ Outermost(t) \in Conns
    BY <2>1, OwnConnection DEF Outer
  <2>3. Ends(t)
    BY <1>2, <1>3, <2>1, <2>2 DEF Ends, Outermost
  <2> QED BY <2>3 DEF Moves
<1>5. CASE CommitCreate(t) \/ CreateFailed(t)
  <2>1. run[t].step \in {"created", "create_failed"}
    BY <1>5 DEF CommitCreate, CreateFailed, AtStep
  <2>2. /\ run'[t].step \in {"outcome", "leave_failed"} /\ run'[t].batch = run[t].batch
        /\ run'[t].file = run[t].file /\ run'[t].i = run[t].i
    <3>1. CASE CommitCreate(t)
      BY <1>1, <3>1 DEF CommitCreate, Set, Locals
    <3>2. CASE CreateFailed(t)
      BY <1>1, <3>2 DEF CreateFailed, Set, Goto, Locals
    <3> QED BY <1>5, <3>1, <3>2
  <2>3. Stays(t)
    BY <2>1, <2>2 DEF Stays, Working, Outer, Inner
  <2>4. Len(blocks[t]) = 2 /\ blocks[t][2] \in Conns
    BY <2>1, OwnConnection DEF Inner
  <2>5. EndsCreation(t)
    BY <1>2, <1>3, <2>2, <2>3, <2>4 DEF EndsCreation, Outermost
  <2> QED BY <2>5 DEF Moves
<1> QED BY <1>4, <1>5

LEMMA EveryMove ==
  ASSUME Structure, Own, NEW t \in Threads, Detect(t) \/ Import(t) \/ Fail(t)
  PROVE  Moves(t)
BY WaitingStep, WritingStep, EndingStep DEF Import, Moves

-----------------------------------------------------------------------------
(***************************************************************************)
(* Import rows.  What an import has written of its batch waits on its      *)
(* outermost connection: one row for each line it is past.  Nothing of a   *)
(* batch goes anywhere else, so all of it is committed or nothing.         *)
(***************************************************************************)
Progress(t) ==
  run[t].step \in Working =>
    LET b == run[t].batch
        writes == pending[Outermost(t)]
    IN  /\ BatchCell(b) \in DOMAIN writes
        /\ writes[BatchCell(b)] = [status |-> IF run[t].step = "leave" THEN "COMPLETED" ELSE "PROCESSING",
                                   file |-> run[t].file]
        /\ IF RowsCell(b) \in DOMAIN writes THEN writes[RowsCell(b)] = 1..(run[t].i - 1) ELSE run[t].i = 1

RowsInv == Own /\ (\A t \in Threads : Progress(t)) /\ RowsMatchBatch

\* What a step leaves alone, and who holds which connection.
LEMMA Frame ==
  ASSUME Structure, NEW t \in Threads, StepOf(t)
  PROVE  /\ \A s \in Threads \ {t} : run'[s] = run[s] /\ blocks'[s] = blocks[s] /\ Outermost(s)' = Outermost(s)
         /\ \A s \in Threads : run[s].batch \in 0..started /\ blocks[s] \in Seq(Conns)
         /\ started \in Nat /\ pending \in [Conns -> DB!Writes]
         /\ \A c \in Conns : DOMAIN pending[c] \subseteq Cells
<1>1. \A s \in Threads \ {t} : run'[s] = run[s] /\ blocks'[s] = blocks[s]
  <2>1. PICK l \in Locals : run' = [run EXCEPT ![t] = l]
    BY DEF StepOf
  <2> QED BY <2>1, DbKept DEF Structure, StepOf, Typed
<1>2. \A s \in Threads : run[s].batch \in 0..started
  BY ImportConstants DEF Structure, Typed, Local, Locals
<1>3. started \in Nat /\ pending \in [Conns -> DB!Writes] /\ blocks \in [Threads -> Seq(Conns)]
  BY SameView, ImportConstants DEF Structure, Typed, Pool, CP!TypeOK
<1>4. ASSUME NEW c \in Conns PROVE DOMAIN pending[c] \subseteq Cells
  <2>1. PICK S \in SUBSET Cells : pending[c] \in [S -> Values]
    BY <1>3 DEF DB!Writes
  <2> QED BY <2>1
<1> QED BY <1>1, <1>2, <1>3, <1>4 DEF Outermost

\* Two blocks never share a connection.
LEMMA Apart ==
  ASSUME Structure, NEW s \in Threads, NEW t \in Threads,
         NEW i \in 1..Len(blocks[s]), NEW j \in 1..Len(blocks[t]), blocks[s][i] = blocks[t][j]
  PROVE  s = t /\ i = j
BY DEF Structure, Pool, CP!PoolInv, CP!ConnectionsAccounted

\* Which writes of batches a connection holds.
LEMMA Owned ==
  ASSUME Structure, Own, NEW t \in Threads, Len(blocks[t]) \in {1, 2}, NEW b \in Batches
  PROVE  /\ BatchCell(b) \in DOMAIN pending[Outermost(t)] \/ RowsCell(b) \in DOMAIN pending[Outermost(t)]
              => run[t].batch = b
         /\ Len(blocks[t]) = 2 =>
              BatchCell(b) \notin DOMAIN pending[blocks[t][2]] /\ RowsCell(b) \notin DOMAIN pending[blocks[t][2]]
<1>1. blocks[t] \in Seq(Conns)
  BY DEF Structure, Pool, CP!TypeOK
<1>2. ASSUME NEW c \in Conns, BatchCell(b) \in DOMAIN pending[c] \/ RowsCell(b) \in DOMAIN pending[c]
      PROVE  \E s \in Threads : 1 \in 1..Len(blocks[s]) /\ c = blocks[s][1] /\ run[s].batch = b
  <2>1. PICK s \in Threads : Len(blocks[s]) >= 1 /\ c = blocks[s][1] /\ run[s].batch = b
    BY <1>2 DEF Own
  <2>2. Len(blocks[s]) \in Nat
    BY DEF Structure, Pool, CP!TypeOK
  <2> QED BY <2>1, <2>2
<1>3. 1 \in 1..Len(blocks[t]) /\ blocks[t][1] \in Conns
  BY <1>1
<1>4. Len(blocks[t]) = 2 => 2 \in 1..Len(blocks[t]) /\ blocks[t][2] \in Conns
  BY <1>1
<1> QED BY <1>2, <1>3, <1>4, Apart DEF Outermost

\* The domain of a connection's writes after one more.
LEMMA WroteDomain ==
  ASSUME Structure, NEW t \in Threads, NEW c, NEW cell, NEW value, Wrote(t, c, cell, value)
  PROVE  /\ DOMAIN pending'[c] = DOMAIN pending[c] \cup {cell} /\ pending'[c][cell] = value
         /\ \A k \in DOMAIN pending[c] \ {cell} : pending'[c][k] = pending[c][k]
         /\ \A d \in Conns \ {c} : pending'[d] = pending[d]
<1>1. pending'[c] = DB!Over(Written(cell, value), pending[c]) /\ \A d \in Conns \ {c} : pending'[d] = pending[d]
  BY DEF Wrote, Structure, Pool, CP!TypeOK
<1> DEFINE over == DB!Over(Written(cell, value), pending[c])
<1>2. /\ DOMAIN over = DOMAIN pending[c] \cup {cell} /\ over[cell] = value
      /\ \A k \in DOMAIN pending[c] \ {cell} : over[k] = pending[c][k]
  BY DEF DB!Over, Written
<1> HIDE DEF over
<1>3. pending'[c] = over
  BY <1>1 DEF over
<1> QED BY <1>1, <1>2, <1>3

LEMMA OwnStep ==
  ASSUME Structure, Own, NEW t \in Threads, StepOf(t), Moves(t)
  PROVE  Own'
<1> DEFINE Owners ==
      \A c \in Conns, b \in Batches :
        BatchCell(b) \in DOMAIN pending[c] \/ RowsCell(b) \in DOMAIN pending[c] =>
          \E s \in Threads : Len(blocks[s]) >= 1 /\ c = Outermost(s) /\ run[s].batch = b
    Alone == \A r, s \in Threads : run[r].batch = run[s].batch /\ run[s].batch # 0 => r = s
    Uncommitted ==
      \A b \in Batches :
        b > started \/ (\E s \in Threads : run[s].batch = b) =>
          committed[BatchCell(b)].status = "none" /\ committed[RowsCell(b)] = {}
<1>1. Own <=> Owners /\ Alone /\ Uncommitted
  BY DEF Own, Outermost
<1>2. Own' <=> Owners' /\ Alone' /\ Uncommitted'
  BY DEF Own, Outermost
<1>3. Owners /\ Alone /\ Uncommitted
  BY <1>1
<1> HIDE <1>1
<1>4. CASE Waits(t)
  <2>1. \A s \in Threads : run'[s].batch = run[s].batch
    BY <1>4, Frame DEF Waits, Stays
  <2>2. \A s \in Threads : Len(blocks[s]) >= 1 => Len(blocks'[s]) >= 1 /\ Outermost(s)' = Outermost(s)
    BY <1>4, Frame DEF Waits
  <2> QED BY <1>2, <1>3, <1>4, <2>1, <2>2 DEF Waits
<1>5. CASE Works(t)
  <2>1. \A s \in Threads : run'[s].batch = run[s].batch
    BY <1>5, Frame DEF Works, Stays
  <2>2. PICK cell, value :
          /\ Wrote(t, txnConn[t], cell, value)
          /\ \A b \in Batches : cell # BatchCell(b) /\ cell # RowsCell(b)
    BY <1>5, Tables DEF Works
  <2>3. \A c \in Conns, b \in Batches :
          /\ BatchCell(b) \in DOMAIN pending'[c] => BatchCell(b) \in DOMAIN pending[c]
          /\ RowsCell(b) \in DOMAIN pending'[c] => RowsCell(b) \in DOMAIN pending[c]
    BY <2>2, WroteDomain
  <2>4. UNCHANGED <<blocks, committed, started>>
    BY <1>5, <2>2 DEF Works, Wrote
  <2> QED BY <1>2, <1>3, <2>1, <2>3, <2>4 DEF Outermost
<1>6. CASE Opens(t)
  <2> DEFINE b == started + 1
             c == Outermost(t)
  <2>1. /\ Wrote(t, c, BatchCell(b), [status |-> "PROCESSING", file |-> run[t].file])
        /\ started' = b /\ b \in Batches /\ run'[t].batch = b /\ Len(blocks[t]) = 1 /\ run[t].step = "batch"
    BY <1>6 DEF Opens
  <2>2. run[t].batch = 0
    BY <2>1, LocalsAre DEF Local
  <2>3. \A d \in Conns, e \in Batches :
          /\ BatchCell(e) \in DOMAIN pending'[d] => BatchCell(e) \in DOMAIN pending[d] \/ (d = c /\ e = b)
          /\ RowsCell(e) \in DOMAIN pending'[d] => RowsCell(e) \in DOMAIN pending[d]
    BY <2>1, WroteDomain, Tables
  <2>4. UNCHANGED <<blocks, committed>>
    BY <2>1 DEF Wrote
  <2>5. \A s \in Threads : run'[s].batch = IF s = t THEN b ELSE run[s].batch
    BY <2>1, Frame
  <2>6. \A s \in Threads : run[s].batch \in 0..started /\ started \in Nat
    BY Frame
  <2>7. Owners'
    <3>1. ASSUME NEW d \in Conns, NEW e \in Batches,
                 BatchCell(e) \in DOMAIN pending'[d] \/ RowsCell(e) \in DOMAIN pending'[d]
          PROVE  \E s \in Threads : Len(blocks[s]) >= 1 /\ d = Outermost(s) /\ run'[s].batch = e
      <4>1. CASE d = c /\ e = b
        BY <2>1, <2>5, <4>1
      <4>2. CASE BatchCell(e) \in DOMAIN pending[d] \/ RowsCell(e) \in DOMAIN pending[d]
        <5>1. PICK s \in Threads : Len(blocks[s]) >= 1 /\ d = Outermost(s) /\ run[s].batch = e
          BY <1>3, <4>2
        <5>2. s # t
          BY <2>2, <5>1 DEF Batches
        <5> QED BY <2>5, <5>1, <5>2
      <4> QED BY <2>3, <3>1, <4>1, <4>2
    <3> QED BY <2>4, <3>1 DEF Outermost
  <2>8. Alone'
    BY <1>3, <2>5, <2>6
  <2>9. Uncommitted'
    BY <1>3, <2>1, <2>4, <2>5, <2>6 DEF Batches
  <2> QED BY <1>2, <2>7, <2>8, <2>9
<1>7. CASE Records(t) \/ Completes(t)
  <2> DEFINE b == run[t].batch
             c == Outermost(t)
  <2>1. PICK cell, value : Wrote(t, c, cell, value) /\ cell \in {BatchCell(b), RowsCell(b)}
    BY <1>7 DEF Records, Completes
  <2>2. UNCHANGED started /\ Len(blocks[t]) = 1 /\ run'[t].batch = b
    BY <1>7 DEF Records, Completes
  <2>3. \A d \in Conns, e \in Batches :
          /\ BatchCell(e) \in DOMAIN pending'[d] => BatchCell(e) \in DOMAIN pending[d] \/ (d = c /\ e = b)
          /\ RowsCell(e) \in DOMAIN pending'[d] => RowsCell(e) \in DOMAIN pending[d] \/ (d = c /\ e = b)
    BY <2>1, WroteDomain, Tables
  <2>4. UNCHANGED <<blocks, committed>>
    BY <2>1 DEF Wrote
  <2>5. \A s \in Threads : run'[s].batch = run[s].batch
    BY <2>2, Frame
  <2>6. Len(blocks[t]) >= 1
    BY <2>2
  <2> QED BY <1>2, <1>3, <2>2, <2>3, <2>4, <2>5, <2>6 DEF Outermost
<1>8. CASE Ends(t)
  <2> DEFINE c == Outermost(t)
  <2>1. /\ UNCHANGED started /\ Len(blocks[t]) = 1 /\ run'[t].batch = 0 /\ c \in Conns
        /\ pending' = [pending EXCEPT ![c] = DB!Nothing]
        /\ committed' \in {committed, DB!Over(pending[c], committed)}
    BY <1>8, IdleIs DEF Ends
  <2>2. \A b \in Batches : BatchCell(b) \in DOMAIN pending[c] \/ RowsCell(b) \in DOMAIN pending[c] => run[t].batch = b
    BY <2>1, Owned
  <2>3. pending'[c] = DB!Nothing /\ \A d \in Conns \ {c} : pending'[d] = pending[d]
    BY <2>1, Frame
  <2>4. Owners'
    <3>1. ASSUME NEW d \in Conns, NEW e \in Batches,
                 BatchCell(e) \in DOMAIN pending'[d] \/ RowsCell(e) \in DOMAIN pending'[d]
          PROVE  \E s \in Threads : Len(blocks'[s]) >= 1 /\ d = Outermost(s)' /\ run'[s].batch = e
      <4>1. d # c
        BY <2>3, <3>1, NothingFits
      <4>2. PICK s \in Threads : Len(blocks[s]) >= 1 /\ d = Outermost(s) /\ run[s].batch = e
        BY <1>3, <2>3, <3>1, <4>1
      <4>3. s # t
        BY <4>1, <4>2
      <4> QED BY <4>2, <4>3, Frame
    <3> QED BY <3>1
  <2>5. Alone'
    BY <1>3, <2>1, Frame
  <2>6. ASSUME NEW b \in Batches, b > started \/ (\E s \in Threads : run'[s].batch = b)
        PROVE  committed'[BatchCell(b)].status = "none" /\ committed'[RowsCell(b)] = {}
    <3>1. b # 0 /\ started \in Nat /\ run[t].batch <= started
      BY Frame DEF Batches
    <3>2. b > started \/ (\E s \in Threads \ {t} : run[s].batch = b)
      BY <2>1, <2>6, <3>1, Frame
    <3>3. run[t].batch # b
      BY <1>3, <3>1, <3>2, Frame
    <3>4. committed[BatchCell(b)].status = "none" /\ committed[RowsCell(b)] = {}
      BY <1>3, <3>2
    <3>5. BatchCell(b) \notin DOMAIN pending[c] /\ RowsCell(b) \notin DOMAIN pending[c]
      BY <2>2, <3>3
    <3>6. BatchCell(b) \in DOMAIN committed /\ RowsCell(b) \in DOMAIN committed
      BY CellsAre DEF Structure, Pool, CP!TypeOK
    <3> QED BY <2>1, <3>4, <3>5, <3>6 DEF DB!Over
  <2>7. Uncommitted'
    BY <2>1, <2>6
  <2> QED BY <1>2, <2>4, <2>5, <2>7
<1>9. CASE EndsCreation(t)
  <2> DEFINE c == blocks[t][2]
  <2>1. /\ UNCHANGED started /\ Len(blocks[t]) = 2 /\ Len(blocks'[t]) = 1 /\ run'[t].batch = run[t].batch
        /\ c \in Conns /\ Outermost(t)' = Outermost(t)
        /\ pending' = [pending EXCEPT ![c] = DB!Nothing]
        /\ committed' \in {committed, DB!Over(pending[c], committed)}
    BY <1>9 DEF EndsCreation, Stays
  <2>2. \A b \in Batches : BatchCell(b) \notin DOMAIN pending[c] /\ RowsCell(b) \notin DOMAIN pending[c]
    BY <2>1, Owned
  <2>3. pending'[c] = DB!Nothing /\ \A d \in Conns \ {c} : pending'[d] = pending[d]
    BY <2>1, Frame
  <2>4. \A d \in Conns, b \in Batches :
          /\ BatchCell(b) \in DOMAIN pending'[d] => BatchCell(b) \in DOMAIN pending[d]
          /\ RowsCell(b) \in DOMAIN pending'[d] => RowsCell(b) \in DOMAIN pending[d]
    BY <2>3, NothingFits
  <2>5. \A b \in Batches : committed'[BatchCell(b)] = committed[BatchCell(b)] /\ committed'[RowsCell(b)] = committed[RowsCell(b)]
    <3>1. \A b \in Batches : BatchCell(b) \in DOMAIN committed /\ RowsCell(b) \in DOMAIN committed
      BY CellsAre DEF Structure, Pool, CP!TypeOK
    <3> QED BY <2>1, <2>2, <3>1 DEF DB!Over
  <2>6. \A s \in Threads :
          /\ run'[s].batch = run[s].batch
          /\ Len(blocks[s]) >= 1 => Len(blocks'[s]) >= 1 /\ Outermost(s)' = Outermost(s)
    <3>1. \A s \in Threads \ {t} : run'[s] = run[s] /\ blocks'[s] = blocks[s] /\ Outermost(s)' = Outermost(s)
      BY Frame
    <3>2. Len(blocks'[t]) >= 1 /\ Outermost(t)' = Outermost(t) /\ run'[t].batch = run[t].batch
      BY <2>1
    <3> QED BY <3>1, <3>2
  <2> QED BY <1>2, <1>3, <2>1, <2>4, <2>5, <2>6
<1> QED BY <1>4, <1>5, <1>6, <1>7, <1>8, <1>9 DEF Moves

LEMMA OwnInit == Init => Own
<1> SUFFICES ASSUME Init PROVE Own
  OBVIOUS
<1>1. \A c \in Conns : DOMAIN pending[c] = {}
  BY NothingFits DEF Init, DB!Init
<1>2. \A t \in Threads : run[t].batch = 0
  BY IdleIs DEF Init
<1>3. \A b \in Batches : committed[BatchCell(b)] = NoBatch /\ committed[RowsCell(b)] = {}
  BY DatabaseFits DEF Init, DB!Init
<1> QED BY <1>1, <1>2, <1>3 DEF Own, NoBatch

\* Another import's outermost connection is left alone, and so is t's own by
\* what t does in the block of a creation.
LEMMA OthersKept ==
  ASSUME Structure, NEW t \in Threads, StepOf(t), Moves(t)
  PROVE  /\ \A s \in Threads \ {t} :
              Len(blocks[s]) >= 1 => Outermost(s) \in Conns /\ pending'[Outermost(s)] = pending[Outermost(s)]
         /\ EndsCreation(t) => pending'[Outermost(t)] = pending[Outermost(t)]
<1>1. \A s \in Threads : Len(blocks[s]) \in Nat /\ (Len(blocks[s]) >= 1 => Outermost(s) \in Conns)
  BY DEF Structure, Pool, CP!TypeOK, Outermost
<1>2. ASSUME NEW c \in Conns, NEW s \in Threads, Len(blocks[s]) >= 1, pending'[c] # pending[c], c = Outermost(s)
      PROVE  \E j \in 1..Len(blocks[t]) : c = blocks[t][j]
  <2>1. CASE Waits(t)
    BY <1>2, <2>1 DEF Waits
  <2>2. ASSUME NEW d, NEW cell, NEW value, Wrote(t, d, cell, value)
        PROVE  \E j \in 1..Len(blocks[t]) : c = blocks[t][j]
    <3>0. d = txnConn[t]
      BY <2>2 DEF Wrote
    <3>1. c = txnConn[t]
      <4>1. \A e \in Conns \ {d} : pending'[e] = pending[e]
        BY <2>2, WroteDomain
      <4> QED BY <1>2, <3>0, <4>1
    <3>2. txnConn[t] # NoConn
      BY <1>2, <3>1, Constants
    <3>3. blocks[t] # <<>> /\ txnConn[t] = blocks[t][Len(blocks[t])]
      BY <3>2, RemembersOwn DEF Structure
    <3>4. Len(blocks[t]) \in 1..Len(blocks[t])
      BY <3>3 DEF Structure, Pool, CP!TypeOK
    <3> QED BY <3>1, <3>3, <3>4
  <2>3. CASE Ends(t)
    <3>1. c = blocks[t][1] /\ Len(blocks[t]) = 1
      BY <1>2, <2>3, Frame DEF Ends, Outermost
    <3> QED BY <3>1
  <2>4. CASE EndsCreation(t)
    <3>1. c = blocks[t][2] /\ Len(blocks[t]) = 2
      BY <1>2, <2>4, Frame DEF EndsCreation
    <3> QED BY <3>1
  <2> QED BY <2>1, <2>2, <2>3, <2>4 DEF Moves, Works, Opens, Records, Completes
<1>3. ASSUME NEW s \in Threads \ {t}, Len(blocks[s]) >= 1
      PROVE  pending'[Outermost(s)] = pending[Outermost(s)]
  <2>1. SUFFICES ASSUME pending'[Outermost(s)] # pending[Outermost(s)] PROVE FALSE
    OBVIOUS
  <2>2. PICK j \in 1..Len(blocks[t]) : blocks[s][1] = blocks[t][j]
    BY <1>1, <1>2, <1>3, <2>1 DEF Outermost
  <2>3. 1 \in 1..Len(blocks[s])
    BY <1>1, <1>3
  <2> QED BY <2>2, <2>3, Apart
<1>4. ASSUME EndsCreation(t) PROVE pending'[Outermost(t)] = pending[Outermost(t)]
  <2>1. /\ Len(blocks[t]) = 2 /\ blocks[t][2] \in Conns
        /\ pending' = [pending EXCEPT ![blocks[t][2]] = DB!Nothing]
    BY <1>4 DEF EndsCreation
  <2>2. 1 \in 1..Len(blocks[t]) /\ 2 \in 1..Len(blocks[t])
    BY <2>1
  <2>3. blocks[t][1] # blocks[t][2]
    BY <2>2, Apart
  <2> QED BY <1>1, <2>1, <2>3, Frame DEF Outermost
<1> QED BY <1>1, <1>3, <1>4

LEMMA ProgressStep ==
  ASSUME Structure, Own, NEW t \in Threads, StepOf(t), Moves(t), NEW s \in Threads, Progress(s)
  PROVE  Progress(s)'
<1>1. CASE s # t
  <2>1. run'[s] = run[s] /\ blocks'[s] = blocks[s] /\ Outermost(s)' = Outermost(s)
    BY <1>1, Frame
  <2>2. run[s].step \in Working => Len(blocks[s]) >= 1
    BY DEF Structure, Shape, Working
  <2> QED BY <1>1, <2>1, <2>2, OthersKept DEF Progress
<1>2. CASE s = t
  <2> DEFINE b == run[t].batch
             c == Outermost(t)
  <2>0. /\ run[t].step \in Working => Len(blocks[t]) >= 1 /\ b \in Batches
        /\ Len(blocks[t]) >= 1 => c \in Conns
    BY PoolTypes DEF Structure, Shape, Local, Working, Outermost
  <2>1. CASE Waits(t)
    BY <1>2, <2>0, <2>1 DEF Waits, Stays, Progress
  <2>2. CASE Works(t)
    <3>1. PICK cell, value :
            /\ Wrote(t, txnConn[t], cell, value)
            /\ \A e \in Batches : cell # BatchCell(e) /\ cell # RowsCell(e)
      BY <2>2, Tables DEF Works
    <3>2. Outermost(t)' = c
      BY <3>1 DEF Wrote, Outermost
    <3>3. \A k \in {BatchCell(b), RowsCell(b)} :
            /\ k \in DOMAIN pending'[c] <=> k \in DOMAIN pending[c]
            /\ k \in DOMAIN pending[c] => pending'[c][k] = pending[c][k]
      BY <2>0, <2>2, <3>1, WroteDomain DEF Works
    <3>4. /\ run[t].step \in Working /\ Stays(t)
      BY <2>2 DEF Works
    <3> QED BY <1>2, <3>2, <3>3, <3>4 DEF Stays, Progress
  <2>3. CASE Opens(t)
    <3> DEFINE n == started + 1
    <3>1. /\ n \in Batches /\ run'[t].batch = n /\ run'[t].i = 1 /\ run'[t].file = run[t].file
          /\ run'[t].step = "row" /\ run[t].step = "batch" /\ Len(blocks[t]) = 1
          /\ Wrote(t, c, BatchCell(n), [status |-> "PROCESSING", file |-> run[t].file])
      BY <2>3 DEF Opens
    <3>2. b = 0 /\ n # 0
      BY <3>1 DEF Structure, Local, Before, Batches
    <3>3. RowsCell(n) \notin DOMAIN pending[c]
      BY <3>1, <3>2, Owned
    <3>4. RowsCell(n) # BatchCell(n)
      BY <3>1, Tables
    <3>5. RowsCell(n) \notin DOMAIN pending'[c] /\ BatchCell(n) \in DOMAIN pending'[c]
          /\ pending'[c][BatchCell(n)] = [status |-> "PROCESSING", file |-> run[t].file]
      BY <3>1, <3>3, <3>4, WroteDomain
    <3>6. Outermost(t)' = c
      BY <3>1 DEF Wrote, Outermost
    <3> HIDE DEF n
    <3> QED BY <1>2, <3>1, <3>5, <3>6 DEF Progress
  <2>4. CASE Records(t)
    <3>1. /\ run[t].step \in {"row", "outcome"} /\ run'[t].step = "row" /\ Len(blocks[t]) = 1
          /\ run'[t].batch = b /\ run'[t].file = run[t].file /\ run'[t].i = run[t].i + 1
          /\ Wrote(t, c, RowsCell(b), Sees(t, RowsCell(b)) \cup {run[t].i})
      BY <2>4 DEF Records
    <3>2. b \in Batches /\ run[t].i \in Nat \ {0}
      BY <3>1 DEF Structure, Local, Working, Outer, AtRow, Typed, Locals
    <3>3. c = txnConn[t] /\ c \in Conns /\ c # NoConn
      BY <3>1, Constants DEF Wrote
    <3>4. RowsCell(b) \in DOMAIN committed /\ committed[RowsCell(b)] = {}
      BY <3>2, CellsAre DEF Own, Structure, Pool, CP!TypeOK
    <3>5. Sees(t, RowsCell(b)) = 1..(run[t].i - 1)
      <4>1. Sees(t, RowsCell(b)) = DB!Over(pending[c], committed)[RowsCell(b)]
        BY <3>3 DEF Sees, DB!View
      <4>2. CASE RowsCell(b) \in DOMAIN pending[c]
        BY <1>2, <3>1, <4>1, <4>2 DEF DB!Over, Progress, Working, Outer
      <4>3. CASE RowsCell(b) \notin DOMAIN pending[c]
        <5>1. run[t].i = 1
          BY <1>2, <3>1, <4>3 DEF Progress, Working, Outer
        <5>2. Sees(t, RowsCell(b)) = {}
          BY <3>4, <4>1, <4>3 DEF DB!Over
        <5>3. 1..(run[t].i - 1) = {}
          BY <5>1
        <5> QED BY <5>2, <5>3
      <4> QED BY <4>2, <4>3
    <3>6. Sees(t, RowsCell(b)) \cup {run[t].i} = 1..(run'[t].i - 1)
      BY <3>1, <3>2, <3>5
    <3>7. BatchCell(b) # RowsCell(b)
      BY <3>2, Tables
    <3>8. /\ BatchCell(b) \in DOMAIN pending'[c] /\ RowsCell(b) \in DOMAIN pending'[c]
          /\ pending'[c][BatchCell(b)] = pending[c][BatchCell(b)]
          /\ pending'[c][RowsCell(b)] = 1..(run'[t].i - 1)
      <4>1. BatchCell(b) \in DOMAIN pending[c]
        BY <1>2, <3>1 DEF Progress, Working, Outer
      <4>2. /\ DOMAIN pending'[c] = DOMAIN pending[c] \cup {RowsCell(b)}
            /\ pending'[c][RowsCell(b)] = Sees(t, RowsCell(b)) \cup {run[t].i}
            /\ \A k \in DOMAIN pending[c] \ {RowsCell(b)} : pending'[c][k] = pending[c][k]
        BY <3>1, WroteDomain
      <4> QED BY <3>6, <3>7, <4>1, <4>2
    <3>9. Outermost(t)' = c
      BY <3>1 DEF Wrote, Outermost
    <3> QED BY <1>2, <3>1, <3>8, <3>9 DEF Progress, Working, Outer
  <2>5. CASE Completes(t)
    <3>1. /\ run[t].step = "complete" /\ run'[t].step = "leave" /\ Len(blocks[t]) = 1
          /\ run'[t].batch = b /\ run'[t].file = run[t].file /\ run'[t].i = run[t].i
          /\ Wrote(t, c, BatchCell(b), [status |-> "COMPLETED", file |-> run[t].file])
      BY <2>5 DEF Completes
    <3>2. b \in Batches /\ BatchCell(b) # RowsCell(b)
      BY <3>1, Tables DEF Structure, Local, Working, Outer
    <3>3. /\ BatchCell(b) \in DOMAIN pending'[c]
          /\ RowsCell(b) \in DOMAIN pending'[c] <=> RowsCell(b) \in DOMAIN pending[c]
          /\ RowsCell(b) \in DOMAIN pending[c] => pending'[c][RowsCell(b)] = pending[c][RowsCell(b)]
          /\ pending'[c][BatchCell(b)] = [status |-> "COMPLETED", file |-> run[t].file]
      BY <3>1, <3>2, WroteDomain
    <3>4. Outermost(t)' = c
      BY <3>1 DEF Wrote, Outermost
    <3> QED BY <1>2, <3>1, <3>3, <3>4 DEF Progress, Working, Outer
  <2>6. CASE Ends(t)
    BY <1>2, <2>6 DEF Ends, Idle, Progress, Working, Outer, Inner
  <2>7. CASE EndsCreation(t)
    <3>1. pending'[c] = pending[c] /\ Outermost(t)' = c /\ Stays(t)
      BY <2>7, OthersKept DEF EndsCreation
    <3> QED BY <1>2, <3>1 DEF Stays, Progress
  <2> QED BY <2>1, <2>2, <2>3, <2>4, <2>5, <2>6, <2>7 DEF Moves
<1> QED BY <1>1, <1>2

\* What is committed of a batch changes when its import ends well, and then it
\* is all of it.
LEMMA BatchesKept ==
  ASSUME Structure, Own, NEW t \in Threads, StepOf(t), Moves(t), Progress(t), NEW b \in Batches
  PROVE  \/ committed'[BatchCell(b)] = committed[BatchCell(b)] /\ committed'[RowsCell(b)] = committed[RowsCell(b)]
         \/ /\ b = run[t].batch /\ run[t].step = "leave" /\ run'[t] = Idle
            /\ committed'[BatchCell(b)] = [status |-> "COMPLETED", file |-> run[t].file]
            /\ committed'[RowsCell(b)] = 1..Len(run[t].file)
<1>1. BatchCell(b) \in DOMAIN committed /\ RowsCell(b) \in DOMAIN committed
  BY CellsAre DEF Structure, Pool, CP!TypeOK
<1>2. CASE UNCHANGED committed
  BY <1>2
<1>3. CASE EndsCreation(t) /\ committed' = DB!Over(pending[blocks[t][2]], committed)
  <2>1. BatchCell(b) \notin DOMAIN pending[blocks[t][2]] /\ RowsCell(b) \notin DOMAIN pending[blocks[t][2]]
    BY <1>3, Owned DEF EndsCreation
  <2> QED BY <1>1, <1>3, <2>1 DEF DB!Over
<1>4. CASE Ends(t) /\ run[t].step = "leave" /\ committed' = DB!Over(pending[Outermost(t)], committed)
  <2> DEFINE writes == pending[Outermost(t)]
  <2>1. Len(blocks[t]) = 1 /\ run'[t] = Idle
    BY <1>4 DEF Ends
  <2>2. CASE b # run[t].batch
    <3>1. BatchCell(b) \notin DOMAIN writes /\ RowsCell(b) \notin DOMAIN writes
      BY <2>1, <2>2, Owned
    <3> QED BY <1>1, <1>4, <3>1 DEF DB!Over
  <2>3. CASE b = run[t].batch
    <3>1. /\ BatchCell(b) \in DOMAIN writes
          /\ writes[BatchCell(b)] = [status |-> "COMPLETED", file |-> run[t].file]
          /\ IF RowsCell(b) \in DOMAIN writes THEN writes[RowsCell(b)] = 1..(run[t].i - 1) ELSE run[t].i = 1
      BY <1>4, <2>3 DEF Progress, Working, Outer
    <3>2. run[t].i = Len(run[t].file) + 1 /\ Len(run[t].file) \in Nat
      BY <1>4, FilesAre DEF Structure, Local
    <3>3. committed[RowsCell(b)] = {}
      BY <2>3 DEF Own
    <3>4. committed'[BatchCell(b)] = [status |-> "COMPLETED", file |-> run[t].file]
      BY <1>4, <3>1 DEF DB!Over
    <3>5. CASE RowsCell(b) \in DOMAIN writes
      <4>1. committed'[RowsCell(b)] = writes[RowsCell(b)]
        BY <1>4, <3>5 DEF DB!Over
      <4>2. writes[RowsCell(b)] = 1..Len(run[t].file)
        BY <3>1, <3>2, <3>5
      <4> QED BY <1>4, <2>1, <2>3, <3>4, <4>1, <4>2
    <3>6. CASE RowsCell(b) \notin DOMAIN writes
      <4>1. committed'[RowsCell(b)] = {}
        BY <1>1, <1>4, <3>3, <3>6 DEF DB!Over
      <4>2. 1..Len(run[t].file) = {}
        BY <3>1, <3>2, <3>6
      <4> QED BY <1>4, <2>1, <2>3, <3>4, <4>1, <4>2
    <3> QED BY <3>5, <3>6
  <2> QED BY <2>2, <2>3
<1> QED BY <1>2, <1>3, <1>4 DEF Moves, Waits, Works, Opens, Records, Completes, Wrote, Ends, EndsCreation

LEMMA RowsStep ==
  ASSUME Structure, RowsInv, NEW t \in Threads, StepOf(t), Moves(t)
  PROVE  RowsInv'
<1>1. Own /\ (\A s \in Threads : Progress(s)) /\ RowsMatchBatch
  BY DEF RowsInv
<1>2. Own'
  BY <1>1, OwnStep
<1>3. ASSUME NEW s \in Threads PROVE Progress(s)'
  BY <1>1, ProgressStep
<1>4. RowsMatchBatch'
  <2>1. ASSUME NEW b \in Batches
        PROVE  committed'[RowsCell(b)] =
                 IF committed'[BatchCell(b)].status = "COMPLETED" THEN 1..Len(committed'[BatchCell(b)].file) ELSE {}
    <3>1. CASE /\ committed'[BatchCell(b)] = committed[BatchCell(b)]
               /\ committed'[RowsCell(b)] = committed[RowsCell(b)]
      BY <1>1, <3>1 DEF RowsMatchBatch
    <3>2. CASE /\ committed'[BatchCell(b)] = [status |-> "COMPLETED", file |-> run[t].file]
               /\ committed'[RowsCell(b)] = 1..Len(run[t].file)
      BY <3>2
    <3> QED BY <1>1, <3>1, <3>2, BatchesKept
  <2> QED BY <2>1 DEF RowsMatchBatch
<1> QED BY <1>2, <1>3, <1>4 DEF RowsInv

LEMMA RowsInit == Init => RowsInv
<1> SUFFICES ASSUME Init PROVE RowsInv
  OBVIOUS
<1>1. \A b \in Batches : committed[BatchCell(b)] = NoBatch /\ committed[RowsCell(b)] = {}
  BY DatabaseFits DEF Init, DB!Init
<1>2. \A t \in Threads : Progress(t)
  BY IdleIs DEF Init, Progress, Working, Outer, Inner, Idle
<1>3. RowsMatchBatch
  <2>1. NoBatch.status # "COMPLETED"
    BY DEF NoBatch
  <2>2. \A b \in Batches : committed[BatchCell(b)].status # "COMPLETED" /\ committed[RowsCell(b)] = {}
    BY <1>1, <2>1
  <2> QED BY <2>2, Zenon DEF RowsMatchBatch
<1> QED BY <1>2, <1>3, OwnInit DEF RowsInv

\* Each step of the program, and none.
LEMMA EveryNext ==
  ASSUME Structure, Own, Next
  PROVE  \E t \in Threads : StepOf(t) /\ Moves(t)
BY EveryStep, EveryMove DEF Next

LEMMA Stuttering ==
  ASSUME Structure, RowsInv, UNCHANGED vars
  PROVE  Structure' /\ RowsInv'
<1>1. Pool'
  BY DEF Structure, Pool, vars, dbVars, CP!TypeOK, CP!PoolInv, CP!ConnectionsAccounted, CP!Held, CP!Innermost,
         CP!IdleIsClean, CP!InBlock, Links
<1>2. DbFits' /\ Typed' /\ \A t \in Threads : Local(t)' /\ Shape(t)'
  BY DEF Structure, vars, dbVars, DbFits, Typed, Local, Shape
<1>3. RowsInv'
  BY DEF RowsInv, vars, dbVars, Own, Progress, Outermost, RowsMatchBatch
<1> QED BY <1>1, <1>2, <1>3 DEF Structure

LEMMA InvStep == Structure /\ RowsInv /\ [Next]_vars => Structure' /\ RowsInv'
<1> SUFFICES ASSUME Structure, RowsInv, [Next]_vars PROVE Structure' /\ RowsInv'
  OBVIOUS
<1>1. CASE Next
  <2>1. PICK t \in Threads : StepOf(t) /\ Moves(t)
    BY <1>1, EveryNext DEF RowsInv
  <2> QED BY <2>1, StructureKept, RowsStep
<1>2. CASE UNCHANGED vars
  BY <1>2, Stuttering
<1> QED BY <1>1, <1>2

\* A completed import has committed one import row per row of its file, and an
\* import that did not complete none: batch_service and move_outs_service write
\* both on one connection, which commits them together.
THEOREM RowsMatch == Spec => []RowsMatchBatch
<1>1. Init => Structure /\ RowsInv
  BY StructureInit, RowsInit
<1>2. Structure /\ RowsInv => RowsMatchBatch
  BY DEF RowsInv
<1> QED BY <1>1, <1>2, InvStep, PTL DEF Spec

\* Tables and locals always hold values of their types, whatever the imports do.
THEOREM ImportTypes == Spec => []TypeOK
<1>1. Init => Structure /\ RowsInv
  BY StructureInit, RowsInit
<1>2. Structure => TypeOK
  <2> SUFFICES ASSUME Structure PROVE TypeOK
    OBVIOUS
  <2>1. ASSUME NEW f, Fits(f), NEW k \in Cells, k \in DOMAIN f PROVE CellOK(k, f[k])
    <3>1. /\ \A u : UnitCell(u)[1] = "unit" /\ TurnoverCell(u)[1] = "turnover"
          /\ \A b : BatchCell(b)[1] = "batch" /\ RowsCell(b)[1] = "rows"
      BY DEF UnitCell, TurnoverCell, BatchCell, RowsCell
    <3>2. CASE \E u \in Units : k = UnitCell(u)
      BY <2>1, <3>1, <3>2 DEF Fits, CellOK
    <3>3. CASE \E u \in Units : k = TurnoverCell(u)
      BY <2>1, <3>1, <3>3 DEF Fits, CellOK
    <3>4. CASE \E b \in Batches : k = BatchCell(b)
      BY <2>1, <3>1, <3>4 DEF Fits, CellOK, BatchRows
    <3>5. CASE \E b \in Batches : k = RowsCell(b)
      BY <2>1, <3>1, <3>5 DEF Fits, CellOK, RowNumbers
    <3> QED BY <3>2, <3>3, <3>4, <3>5 DEF Cells
  <2>2. DOMAIN committed = Cells /\ Fits(committed)
    BY DEF Structure, Pool, CP!TypeOK, DbFits
  <2>3. ASSUME NEW c \in Conns PROVE DOMAIN pending[c] \subseteq Cells /\ Fits(pending[c])
    <3>1. PICK S \in SUBSET Cells : pending[c] \in [S -> Values]
      BY DEF Structure, Pool, CP!TypeOK, CP!Writes
    <3> QED BY <3>1 DEF Structure, DbFits
  <2>4. /\ started \in 0..MaxBatches
        /\ \A t \in Threads :
             run[t].batch \in 0..MaxBatches /\ run[t].seen \subseteq Units /\ run[t].found \in TurnoverRows
    BY DEF Structure, Typed, Locals
  <2> QED BY <2>1, <2>2, <2>3, <2>4 DEF TypeOK
<1> QED BY <1>1, <1>2, InvStep, PTL DEF Spec

\* The imports use the connections only as Connection says a program may, so
\* everything proved of transaction() in ConnectionProofs holds of them.
THEOREM UsesConnections == Spec => CP!Spec
<1>1. Init => CP!Init
  BY DEF Init, DB!Init, CP!Init, DB!Nothing, CP!Nothing
<1>2. Init => Structure /\ RowsInv
  BY StructureInit, RowsInit
<1>3. Structure /\ RowsInv /\ [Next]_vars => [CP!Next]_(CP!vars)
  <2> SUFFICES ASSUME Structure, RowsInv, [Next]_vars PROVE [CP!Next]_(CP!vars)
    OBVIOUS
  <2>1. CASE Next
    BY <2>1, EveryNext, StepIsConnections DEF RowsInv, StepOf
  <2>2. CASE UNCHANGED vars
    BY <2>2 DEF vars, dbVars, CP!vars
  <2> QED BY <2>1, <2>2
<1> QED BY <1>1, <1>2, <1>3, InvStep, PTL DEF Spec, CP!Spec

-----------------------------------------------------------------------------
(***************************************************************************)
(* Imports that do not overlap, by however many threads they are run.      *)
(***************************************************************************)
Serial == \A s, t \in Threads : run[s].step # "idle" /\ run[t].step # "idle" => s = t

LEMMA FileKept ==
  ASSUME Structure, NEW t \in Threads, Import(t) \/ Fail(t)
  PROVE  run[t].step # "idle" /\ (run'[t] = Idle \/ run'[t].file = run[t].file)
<1>1. run[t] \in Locals /\ run \in [Threads -> Locals]
  BY DEF Structure, Typed
<1>2. ASSUME NEW l, Set(t, l) PROVE run'[t] = l
  BY <1>1, <1>2 DEF Set
<1>3. ASSUME NEW s, Goto(t, s) PROVE run'[t].file = run[t].file
  BY <1>1, <1>3 DEF Goto, Set, Locals
<1>4. ASSUME NEW l, WriteRow(t, l), l.file = run[t].file, l \in Locals
      PROVE  run'[t].file = run[t].file
  <2>1. CASE Goto(t, "leave_failed")
    BY <1>3, <2>1
  <2>2. CASE Set(t, [l EXCEPT !.step = "row", !.i = @ + 1, !.found = NoTurnover, !.outcome = "none"])
    BY <1>2, <1>4, <2>2 DEF Locals
  <2> QED BY <1>4, <2>1, <2>2 DEF WriteRow
<1>5. CASE Fail(t)
  BY <1>1, <1>2, <1>5 DEF Fail, Locals
<1>6. CASE Enter(t) \/ Leave(t) \/ LeaveFailed(t)
  BY <1>2, <1>3, <1>6 DEF Enter, Leave, LeaveFailed, AtStep
<1>7. CASE InvalidRow(t)
  BY <1>1, <1>4, <1>7 DEF InvalidRow, AtStep
<1>8. CASE Outcome(t)
  <2> DEFINE seen == IF run[t].outcome = "CONFLICT" THEN run[t].seen ELSE run[t].seen \cup {RowUnit(t)}
             l == [run[t] EXCEPT !.seen = seen]
  <2>1. run[t].step = "outcome" /\ WriteRow(t, l)
    BY <1>8 DEF Outcome, AtStep
  <2>2. RowUnit(t) \in Units
    BY <2>1, LocalsAre DEF AtRow
  <2>3. seen \in SUBSET Units
    BY <1>1, <2>2 DEF Locals
  <2>4. l \in Locals /\ l.file = run[t].file
    BY <1>1, <2>3 DEF Locals
  <2> QED BY <1>4, <2>1, <2>4
<1>9. CASE StartBatch(t) \/ ResolveUnit(t) \/ Lookup(t) \/ Create(t) \/ Insert(t)
  BY <1>1, <1>2, <1>3, <1>9 DEF StartBatch, ResolveUnit, Lookup, Create, Insert, AtStep, Locals
<1>10. CASE CommitCreate(t) \/ CreateFailed(t) \/ NoTemplates(t) \/ Update(t) \/ CheckOpen(t)
  BY <1>1, <1>2, <1>3, <1>10 DEF CommitCreate, CreateFailed, NoTemplates, Update, CheckOpen, AtStep, Locals
<1>11. CASE Write(t) \/ FindMissing(t) \/ Tally(t) \/ CompleteBatch(t)
  BY <1>1, <1>2, <1>3, <1>11 DEF Write, FindMissing, Tally, CompleteBatch, AtStep, Locals
<1> QED BY <1>5, <1>6, <1>7, <1>8, <1>9, <1>10, <1>11 DEF Import

\* When imports do not overlap, the others rest while one takes a step.
LEMMA OthersRest ==
  ASSUME Structure, RowsInv, Serial, Serial', NEW t \in Threads, Detect(t) \/ Import(t) \/ Fail(t),
         NEW s \in Threads, s # t
  PROVE  run'[s] = run[s] /\ run[s].step = "idle"
<1>1. run \in [Threads -> Locals]
  BY DEF Structure, Typed
<1>2. PICK l \in Locals : run' = [run EXCEPT ![t] = l]
  BY EveryStep DEF RowsInv, StepOf
<1>3. run'[s] = run[s] /\ run'[t] = l
  BY <1>1, <1>2
<1>4. run[t].step # "idle" \/ run'[t].step # "idle"
  <2>1. CASE Detect(t)
    <3>1. PICK file \in Files : Set(t, [Idle EXCEPT !.step = "enter", !.file = file])
      BY <2>1 DEF Detect
    <3>2. run'[t].step = "enter"
      BY <1>1, <3>1, IdleIs DEF Set, Locals
    <3> QED BY <3>2
  <2>2. CASE Import(t) \/ Fail(t)
    BY <2>2, FileKept
  <2> QED BY <2>1, <2>2
<1> QED BY <1>3, <1>4 DEF Serial

-----------------------------------------------------------------------------
(***************************************************************************)
(* Cancellation.  A turnover's count is the number of imports that missed  *)
(* it, none twice, and of those all have committed but the one at work.    *)
(* If imports do not overlap an update still fits the row it was computed  *)
(* from.                                                                   *)
(***************************************************************************)
Completed == {b \in Batches : committed[BatchCell(b)].status = "COMPLETED"}

\* The batches of the imports whose outermost connection c is.
BatchesOn(c) ==
  {run[t].batch : t \in {s \in Threads : Len(blocks[s]) >= 1 /\ Outermost(s) = c}}

Counted(row) ==
  IF row.status = "canceled" THEN Cardinality(row.absences) >= CancelAfter
                             ELSE Cardinality(row.absences) = row.missing

GoodRow(row, batches) ==
  row \in TurnoverRows /\ Counted(row) /\ row.absences \ {0} \subseteq batches

RowsGood ==
  /\ \A u \in Units : GoodRow(committed[TurnoverCell(u)], Completed)
  /\ \A c \in Conns, u \in Units :
       TurnoverCell(u) \in DOMAIN pending[c] =>
         GoodRow(pending[c][TurnoverCell(u)], Completed \cup BatchesOn(c))

\* Is the import at its rows, or in post-processing?
AtRows(t) ==
  \/ run[t].step \in {"row"} \cup AtRow
  \/ run[t].step \in {"check", "write"} /\ run[t].edit.op = "schedule"

AtTally(t) ==
  \/ run[t].step = "tally"
  \/ run[t].step \in {"check", "write"} /\ run[t].edit.op # "schedule"

\* The updates it has yet to make, and the row of a unit as it stands.
Due(t) == IF run[t].step = "tally" THEN run[t].todo ELSE run[t].todo \cup {run[t].edit}

RowNow(t, u) == DB!Over(pending[Outermost(t)], committed)[TurnoverCell(u)]

\* An update not made yet still fits the row it was computed from.
StillFits(t, e) ==
  LET row == RowNow(t, e.unit)
  IN  /\ row.status # "canceled" /\ run[t].batch \notin row.absences
      /\ e.op = "missing" => e.value = row.missing + 1
      /\ e.op = "cancel" => row.missing + 1 >= CancelAfter

TalliesInv(t) ==
  /\ AtRows(t) =>
       \A u \in Units :
         TurnoverCell(u) \in DOMAIN pending[Outermost(t)] =>
           run[t].batch \notin pending[Outermost(t)][TurnoverCell(u)].absences
  /\ AtTally(t) =>
       /\ \A e \in Due(t) : StillFits(t, e)
       /\ \A e, f \in Due(t) : e.unit = f.unit => e = f
       /\ run[t].step \in {"check", "write"} => run[t].edit \notin run[t].todo

\* Absences are finite sets.
LEMMA AbsencesFinite ==
  ASSUME NEW row \in TurnoverRows
  PROVE  IsFiniteSet(row.absences) /\ Cardinality(row.absences) \in Nat /\ row.missing \in Nat
<1>1. row.absences \subseteq 0..MaxBatches /\ row.missing \in Nat
  BY DEF TurnoverRows, CancelAfter
<1>2. IsFiniteSet(0..MaxBatches)
  BY FS_Interval, ImportConstants
<1> QED BY <1>1, <1>2, FS_Subset, FS_CardinalityType

LEMMA NewRowGood ==
  ASSUME NEW row \in TurnoverRows, row.status # "canceled", row.missing = 0, row.absences = {}, NEW batches
  PROVE  GoodRow(row, batches)
BY FS_EmptySet DEF GoodRow, Counted

\* What an update that fits makes of a good row.
LEMMA EditedGood ==
  ASSUME NEW row, NEW batches, GoodRow(row, batches), NEW e \in Edits, NEW b \in Batches, b \in batches,
         e.op # "schedule" =>
           /\ row.status # "canceled" /\ b \notin row.absences
           /\ e.op = "missing" => e.value = row.missing + 1
           /\ e.op = "cancel" => row.missing + 1 >= CancelAfter
  PROVE  /\ GoodRow(Edited(row, e, b), batches)
         /\ e.op = "schedule" => Edited(row, e, b).absences = row.absences
<1>0. row \in TurnoverRows /\ Counted(row) /\ row.absences \ {0} \subseteq batches
  BY DEF GoodRow
<1>1. IsFiniteSet(row.absences) /\ Cardinality(row.absences) \in Nat
  BY <1>0, AbsencesFinite
<1>2. Edited(row, e, b) \in TurnoverRows
  BY <1>0, EditedFits, ImportConstants DEF Batches
<1>3. b \notin row.absences => Cardinality(row.absences \cup {b}) = Cardinality(row.absences) + 1
  BY <1>1, FS_AddElement
<1>4. CASE e.op = "schedule"
  <2>1. Edited(row, e, b) = [row EXCEPT !.sched = e.value, !.override = FALSE]
    BY <1>4 DEF Edited
  <2>2. Edited(row, e, b).status = row.status /\ Edited(row, e, b).absences = row.absences
        /\ Edited(row, e, b).missing = row.missing
    BY <1>0, <2>1 DEF TurnoverRows
  <2> QED BY <1>0, <1>2, <2>2 DEF GoodRow, Counted
<1>5. CASE e.op = "seen"
  <2>1. Edited(row, e, b) = [row EXCEPT !.missing = 0, !.absences = {}]
    BY <1>5 DEF Edited
  <2>2. Edited(row, e, b).status = row.status /\ Edited(row, e, b).absences = {}
        /\ Edited(row, e, b).missing = 0
    BY <1>0, <2>1 DEF TurnoverRows
  <2> QED BY <1>2, <1>5, <2>2, NewRowGood
<1>6. CASE e.op = "missing"
  <2>1. Edited(row, e, b) = [row EXCEPT !.missing = e.value, !.absences = @ \cup {b}]
    BY <1>6 DEF Edited
  <2>2. Edited(row, e, b).status = row.status /\ Edited(row, e, b).absences = row.absences \cup {b}
        /\ Edited(row, e, b).missing = row.missing + 1
    BY <1>0, <1>6, <2>1 DEF TurnoverRows
  <2> QED BY <1>0, <1>2, <1>3, <1>6, <2>2 DEF GoodRow, Counted
<1>7. CASE e.op = "cancel"
  <2>1. Edited(row, e, b) = [row EXCEPT !.status = "canceled", !.absences = @ \cup {b}]
    BY <1>7 DEF Edited
  <2>2. Edited(row, e, b).status = "canceled" /\ Edited(row, e, b).absences = row.absences \cup {b}
    BY <1>0, <2>1 DEF TurnoverRows
  <2>3. Cardinality(row.absences \cup {b}) >= CancelAfter
    BY <1>0, <1>3, <1>7 DEF Counted
  <2> QED BY <1>0, <1>2, <1>7, <2>2, <2>3 DEF GoodRow, Counted
<1> QED BY <1>4, <1>5, <1>6, <1>7 DEF Edits

\* The turnovers t writes are good ones.
WritesGood(t) ==
  \A c \in Conns, u \in Units :
    TurnoverCell(u) \in DOMAIN pending'[c] =>
      \/ TurnoverCell(u) \in DOMAIN pending[c] /\ pending'[c][TurnoverCell(u)] = pending[c][TurnoverCell(u)]
      \/ GoodRow(pending'[c][TurnoverCell(u)], Completed \cup BatchesOn(c))

LEMMA MoreBatches ==
  ASSUME NEW row, NEW A, NEW B, GoodRow(row, A), A \subseteq B \cup {0}
  PROVE  GoodRow(row, B)
BY DEF GoodRow

LEMMA CompletedKept ==
  ASSUME Structure, Own, NEW t \in Threads, StepOf(t), Moves(t), Progress(t)
  PROVE  Completed \subseteq Completed'
<1>1. ASSUME NEW b \in Completed PROVE b \in Completed'
  <2>1. b \in Batches /\ committed[BatchCell(b)].status = "COMPLETED"
    BY DEF Completed
  <2>2. committed'[BatchCell(b)].status = "COMPLETED"
    <3>1. CASE committed'[BatchCell(b)] = committed[BatchCell(b)]
      BY <2>1, <3>1
    <3>2. CASE committed'[BatchCell(b)] = [status |-> "COMPLETED", file |-> run[t].file]
      BY <3>2
    <3> QED BY <2>1, <3>1, <3>2, BatchesKept
  <2> QED BY <2>1, <2>2 DEF Completed
<1> QED BY <1>1

LEMMA BatchesOnKept ==
  ASSUME Structure, Own, NEW t \in Threads, StepOf(t), Moves(t), NEW c \in Conns, DOMAIN pending'[c] # {}
  PROVE  BatchesOn(c) \subseteq BatchesOn(c)' \cup {0}
<1>1. ASSUME NEW s \in Threads, Len(blocks[s]) >= 1, Outermost(s) = c, run[s].batch # 0
      PROVE  Len(blocks'[s]) >= 1 /\ Outermost(s)' = c /\ run'[s].batch = run[s].batch
  <2>1. CASE s # t
    BY <1>1, <2>1, Frame
  <2>2. CASE s = t
    <3>1. CASE Waits(t)
      BY <1>1, <2>2, <3>1 DEF Waits, Stays
    <3>2. CASE Works(t)
      BY <1>1, <2>2, <3>2 DEF Works, Wrote, Stays, Outermost
    <3>3. CASE Opens(t)
      BY <1>1, <2>2, <3>3 DEF Opens, Structure, Local, Before
    <3>4. CASE Records(t) \/ Completes(t)
      BY <1>1, <2>2, <3>4 DEF Records, Completes, Wrote, Outermost
    <3>5. CASE Ends(t)
      <4>1. pending'[c] = DB!Nothing
        BY <1>1, <2>2, <3>5, Frame DEF Ends
      <4> QED BY <4>1, NothingFits
    <3>6. CASE EndsCreation(t)
      BY <1>1, <2>2, <3>6 DEF EndsCreation, Stays
    <3> QED BY <3>1, <3>2, <3>3, <3>4, <3>5, <3>6 DEF Moves
  <2> QED BY <2>1, <2>2
<1> QED BY <1>1 DEF BatchesOn

LEMMA RowsGoodStep ==
  ASSUME Structure, RowsInv, RowsGood, NEW t \in Threads, StepOf(t), Moves(t), WritesGood(t)
  PROVE  RowsGood'
<1>0. Own /\ Progress(t)
  BY DEF RowsInv
<1>1. Completed \subseteq Completed'
  BY <1>0, CompletedKept
<1>2. ASSUME NEW c \in Conns, NEW u \in Units, TurnoverCell(u) \in DOMAIN pending'[c]
      PROVE  GoodRow(pending'[c][TurnoverCell(u)], Completed' \cup BatchesOn(c)')
  <2>1. Completed \cup BatchesOn(c) \subseteq (Completed' \cup BatchesOn(c)') \cup {0}
    BY <1>0, <1>1, <1>2, BatchesOnKept
  <2>2. GoodRow(pending'[c][TurnoverCell(u)], Completed \cup BatchesOn(c))
    BY <1>2 DEF WritesGood, RowsGood
  <2> QED BY <2>1, <2>2, MoreBatches
<1>3. ASSUME NEW u \in Units
      PROVE  GoodRow(committed'[TurnoverCell(u)], Completed')
  <2>0. GoodRow(committed[TurnoverCell(u)], Completed)
    BY DEF RowsGood
  <2>1. CASE committed'[TurnoverCell(u)] = committed[TurnoverCell(u)]
    BY <1>1, <2>0, <2>1, MoreBatches
  <2>2. ASSUME NEW c \in Conns, committed' = DB!Over(pending[c], committed), BatchesOn(c) \subseteq Completed'
        PROVE  GoodRow(committed'[TurnoverCell(u)], Completed')
    <3>1. TurnoverCell(u) \in DOMAIN committed
      BY CellsAre DEF Structure, Pool, CP!TypeOK
    <3>2. CASE TurnoverCell(u) \in DOMAIN pending[c]
      <4>1. committed'[TurnoverCell(u)] = pending[c][TurnoverCell(u)]
        BY <2>2, <3>2 DEF DB!Over
      <4>2. GoodRow(pending[c][TurnoverCell(u)], Completed \cup BatchesOn(c))
        BY <3>2 DEF RowsGood
      <4>3. Completed \cup BatchesOn(c) \subseteq Completed' \cup {0}
        BY <1>1, <2>2
      <4> QED BY <4>1, <4>2, <4>3, MoreBatches
    <3>3. CASE TurnoverCell(u) \notin DOMAIN pending[c]
      <4>1. committed'[TurnoverCell(u)] = committed[TurnoverCell(u)]
        BY <2>2, <3>1, <3>3 DEF DB!Over
      <4> QED BY <2>1, <4>1
    <3> QED BY <3>2, <3>3
  <2>3. CASE Ends(t) /\ run[t].step = "leave" /\ committed' = DB!Over(pending[Outermost(t)], committed)
    <3> DEFINE c == Outermost(t)
               b == run[t].batch
    <3>1. c \in Conns /\ Len(blocks[t]) = 1 /\ b \in Batches
      BY <2>3 DEF Ends, Structure, Local, Working, Outer
    <3>2. ASSUME NEW s \in Threads, Len(blocks[s]) >= 1, Outermost(s) = c PROVE s = t
      <4>1. 1 \in 1..Len(blocks[s]) /\ 1 \in 1..Len(blocks[t])
        BY <3>1, <3>2 DEF Structure, Pool, CP!TypeOK
      <4> QED BY <3>2, <4>1, Apart DEF Outermost
    <3>3. committed'[BatchCell(b)] = [status |-> "COMPLETED", file |-> run[t].file]
      BY <1>0, <2>3 DEF Progress, Working, Outer, DB!Over
    <3>4. BatchesOn(c) \subseteq Completed'
      BY <3>1, <3>2, <3>3 DEF BatchesOn, Completed
    <3> QED BY <2>2, <2>3, <3>1, <3>4
  <2>4. CASE EndsCreation(t) /\ committed' = DB!Over(pending[blocks[t][2]], committed)
    <3> DEFINE c == blocks[t][2]
    <3>1. c \in Conns /\ Len(blocks[t]) = 2
      BY <2>4 DEF EndsCreation
    <3>2. ASSUME NEW s \in Threads, Len(blocks[s]) >= 1, Outermost(s) = c PROVE FALSE
      <4>1. 1 \in 1..Len(blocks[s]) /\ 2 \in 1..Len(blocks[t])
        BY <3>1, <3>2 DEF Structure, Pool, CP!TypeOK
      <4> QED BY <3>2, <4>1, Apart DEF Outermost
    <3>3. BatchesOn(c) = {}
      BY <3>2 DEF BatchesOn
    <3> QED BY <2>2, <2>4, <3>1, <3>3
  <2> QED BY <2>1, <2>3, <2>4
        DEF Moves, Waits, Works, Opens, Records, Completes, Wrote, Ends, EndsCreation
<1> QED BY <1>2, <1>3 DEF RowsGood

LEMMA QuietWrites ==
  ASSUME NEW t \in Threads,
         \/ UNCHANGED pending
         \/ Structure /\ \E c \in Conns : pending' = [pending EXCEPT ![c] = DB!Nothing]
  PROVE  WritesGood(t)
<1>1. CASE UNCHANGED pending
  BY <1>1 DEF WritesGood
<1>2. ASSUME Structure, NEW c \in Conns, pending' = [pending EXCEPT ![c] = DB!Nothing]
      PROVE  WritesGood(t)
  <2>1. \A d \in Conns : DOMAIN pending'[d] # {} => pending'[d] = pending[d]
    BY <1>2, NothingFits DEF Structure, Pool, CP!TypeOK
  <2> QED BY <2>1 DEF WritesGood
<1> QED BY <1>1, <1>2

LEMMA WritesElsewhere ==
  ASSUME Structure, NEW t \in Threads, NEW cell, NEW value, Put(t, cell, value),
         \A u \in Units : cell # TurnoverCell(u)
  PROVE  WritesGood(t)
<1>1. CASE txnConn[t] = NoConn
  <2>1. UNCHANGED pending
    BY <1>1 DEF Put, DB!Execute
  <2> QED BY <2>1, QuietWrites
<1>2. CASE txnConn[t] # NoConn
  <2>1. Wrote(t, txnConn[t], cell, value)
    BY <1>2, PutWrote
  <2>2. \A d \in Conns : \A k \in DOMAIN pending'[d] \ {cell} :
          k \in DOMAIN pending[d] /\ pending'[d][k] = pending[d][k]
    BY <2>1, WroteDomain
  <2> QED BY <2>2 DEF WritesGood
<1> QED BY <1>1, <1>2

\* Writing a good turnover.
LEMMA WritesTurnover ==
  ASSUME Structure, NEW t \in Threads, NEW u \in Units, NEW row, Put(t, TurnoverCell(u), row), txnConn[t] # NoConn,
         GoodRow(row, Completed \cup BatchesOn(txnConn[t]))
  PROVE  WritesGood(t)
<1>1. Wrote(t, txnConn[t], TurnoverCell(u), row)
  BY PutWrote
<1>2. /\ pending'[txnConn[t]][TurnoverCell(u)] = row
      /\ \A d \in Conns : \A k \in DOMAIN pending'[d] :
           \/ k = TurnoverCell(u) /\ d = txnConn[t]
           \/ k \in DOMAIN pending[d] /\ pending'[d][k] = pending[d][k]
  BY <1>1, WroteDomain
<1> QED BY <1>2 DEF WritesGood

LEMMA RowNowGood ==
  ASSUME Structure, RowsGood, NEW t \in Threads, Outermost(t) \in Conns, NEW u \in Units
  PROVE  /\ GoodRow(RowNow(t, u), Completed \cup BatchesOn(Outermost(t)))
         /\ RowNow(t, u) \in {committed[TurnoverCell(u)], pending[Outermost(t)][TurnoverCell(u)]}
         /\ TurnoverCell(u) \notin DOMAIN pending[Outermost(t)] => RowNow(t, u) = committed[TurnoverCell(u)]
         /\ TurnoverCell(u) \in DOMAIN pending[Outermost(t)] =>
              RowNow(t, u) = pending[Outermost(t)][TurnoverCell(u)]
<1>1. TurnoverCell(u) \in DOMAIN committed
  BY CellsAre DEF Structure, Pool, CP!TypeOK
<1>2. /\ TurnoverCell(u) \notin DOMAIN pending[Outermost(t)] => RowNow(t, u) = committed[TurnoverCell(u)]
      /\ TurnoverCell(u) \in DOMAIN pending[Outermost(t)] =>
           RowNow(t, u) = pending[Outermost(t)][TurnoverCell(u)]
  BY <1>1 DEF RowNow, DB!Over
<1>3. GoodRow(committed[TurnoverCell(u)], Completed \cup BatchesOn(Outermost(t)))
  <2>1. GoodRow(committed[TurnoverCell(u)], Completed)
    BY DEF RowsGood
  <2>2. Completed \subseteq (Completed \cup BatchesOn(Outermost(t))) \cup {0}
    OBVIOUS
  <2> QED BY <2>1, <2>2, MoreBatches
<1> QED BY <1>2, <1>3 DEF RowsGood

\* What a statement of t sees of a turnover, on its outermost connection.
LEMMA SeesRowNow ==
  ASSUME Structure, NEW t \in Threads, NEW u \in Units, run[t].step \in Outer \ {"outcome", "leave_failed"}
  PROVE  Sees(t, TurnoverCell(u)) = RowNow(t, u)
BY OwnConnection DEF Sees, RowNow, DB!View

\* No row has counted the import at work before its post-processing.
LEMMA NotCountedYet ==
  ASSUME Structure, Own, RowsGood, NEW t \in Threads, TalliesInv(t), AtRows(t), NEW u \in Units
  PROVE  run[t].batch \notin RowNow(t, u).absences
<1>1. run[t].batch \in Batches /\ Outermost(t) \in Conns
  BY PoolTypes DEF Structure, Local, Shape, AtRows, AtRow, Working, Outer, Inner, Outermost
<1>2. run[t].batch # 0 /\ run[t].batch \notin Completed
  BY <1>1 DEF Own, Completed, Batches
<1>3. run[t].batch \notin committed[TurnoverCell(u)].absences
  BY <1>2 DEF RowsGood, GoodRow
<1> QED BY <1>1, <1>3, RowNowGood DEF TalliesInv

LEMMA WritesGoodStep ==
  ASSUME Structure, Own, RowsGood, NEW t \in Threads, TalliesInv(t), Detect(t) \/ Import(t) \/ Fail(t)
  PROVE  WritesGood(t)
<1>1. CASE \/ Detect(t) \/ Enter(t) \/ Lookup(t) \/ Create(t) \/ NoTemplates(t) \/ Update(t) \/ CheckOpen(t)
           \/ FindMissing(t) \/ Tally(t) \/ Fail(t)
  <2>1. UNCHANGED pending
    BY <1>1, WaitingStep DEF Waits
  <2> QED BY <2>1, QuietWrites
<1>2. CASE Leave(t) \/ LeaveFailed(t) \/ CommitCreate(t) \/ CreateFailed(t)
  <2>1. DB!Commit(t) \/ DB!Rollback(t)
    BY <1>2 DEF Leave, LeaveFailed, CommitCreate, CreateFailed
  <2>2. \E c \in Conns : pending' = [pending EXCEPT ![c] = DB!Nothing]
    BY <2>1, EndEffect DEF Structure
  <2> QED BY <2>2, QuietWrites
<1>3. CASE StartBatch(t) \/ CompleteBatch(t) \/ ResolveUnit(t) \/ InvalidRow(t) \/ Outcome(t)
  <2>1. \/ UNCHANGED pending
        \/ \E cell, value : Put(t, cell, value) /\ \A u \in Units : cell # TurnoverCell(u)
    <3>1. CASE StartBatch(t)
      BY <3>1, Tables DEF StartBatch, dbVars
    <3>2. CASE CompleteBatch(t)
      BY <3>2, Tables DEF CompleteBatch
    <3>3. CASE ResolveUnit(t)
      <4>1. UNCHANGED pending \/ Put(t, UnitCell(RowUnit(t)), TRUE)
        BY <3>3 DEF ResolveUnit, dbVars
      <4>2. \A u \in Units : UnitCell(RowUnit(t)) # TurnoverCell(u)
        BY Tables
      <4> QED BY <4>1, <4>2, Zenon
    <3>4. CASE InvalidRow(t) \/ Outcome(t)
      BY <3>4, Tables DEF InvalidRow, Outcome, WriteRow, DB!Raise
    <3> QED BY <1>3, <3>1, <3>2, <3>3, <3>4
  <2> QED BY <2>1, QuietWrites, WritesElsewhere
<1>4. CASE Insert(t)
  <2> DEFINE row == [NoTurnover EXCEPT !.status = "open", !.gen = run[t].batch, !.sched = Row(t).date]
  <2>1. run[t].step = "insert"
    BY <1>4 DEF Insert, AtStep
  <2>2. txnConn[t] # NoConn /\ RowUnit(t) \in Units /\ Row(t).date \in Dates /\ run[t].batch \in 0..MaxBatches
    BY <2>1, OwnConnection, LocalsAre DEF Inner, AtRow, Locals
  <2>3. row \in TurnoverRows
    BY <2>2, CreatedFits
  <2>4. row.status # "canceled" /\ row.missing = 0 /\ row.absences = {}
    BY DEF NoTurnover
  <2>5. GoodRow(row, Completed \cup BatchesOn(txnConn[t]))
    BY <2>3, <2>4, NewRowGood
  <2>6. Put(t, TurnoverCell(RowUnit(t)), row) \/ UNCHANGED pending
    BY <1>4 DEF Insert, DB!Raise
  <2> HIDE DEF row
  <2> QED BY <2>2, <2>5, <2>6, WritesTurnover, QuietWrites
<1>5. CASE Write(t)
  <2> DEFINE e == run[t].edit
             b == run[t].batch
             c == Outermost(t)
             row == RowNow(t, e.unit)
  <2>1. run[t].step = "write"
    BY <1>5 DEF Write, AtStep
  <2>2. /\ txnConn[t] = c /\ c # NoConn /\ c \in Conns /\ Len(blocks[t]) = 1
        /\ e \in Edits /\ e.unit \in Units /\ b \in Batches
    BY <2>1, OwnConnection DEF Outer, Structure, Local, Working, Edits
  <2>3. b \in Completed \cup BatchesOn(c)
    <3>1. Len(blocks[t]) >= 1
      BY <2>2
    <3>2. t \in {s \in Threads : Len(blocks[s]) >= 1 /\ Outermost(s) = c}
      BY <3>1, Zenon
    <3> QED BY <3>2, Zenon DEF BatchesOn
  <2>4. GoodRow(row, Completed \cup BatchesOn(c))
    BY <2>2, RowNowGood
  <2>5. e.op # "schedule" =>
          /\ row.status # "canceled" /\ b \notin row.absences
          /\ e.op = "missing" => e.value = row.missing + 1
          /\ e.op = "cancel" => row.missing + 1 >= CancelAfter
    <3>1. SUFFICES ASSUME e.op # "schedule" PROVE StillFits(t, e)
      BY DEF StillFits
    <3>2. AtTally(t) /\ e \in Due(t)
      BY <2>1, <3>1 DEF AtTally, Due
    <3> QED BY <3>2 DEF TalliesInv
  <2>6. GoodRow(Edited(row, e, b), Completed \cup BatchesOn(c))
    <3> HIDE DEF row, e, b, c
    <3> QED BY <2>2, <2>3, <2>4, <2>5, EditedGood
  <2>7. Sees(t, TurnoverCell(e.unit)) = row
    BY <2>1, <2>2, SeesRowNow DEF Outer
  <2>8. Put(t, TurnoverCell(e.unit), Edited(row, e, b)) \/ UNCHANGED pending
    BY <1>5, <2>7 DEF Write, dbVars
  <2> HIDE DEF row, e, b, c
  <2> QED BY <2>2, <2>6, <2>8, WritesTurnover, QuietWrites
<1> QED BY <1>1, <1>2, <1>3, <1>4, <1>5 DEF Import

\* Outside post-processing an import leaves the turnovers it has written alone.
LEMMA OwnRowsKept ==
  ASSUME Structure, NEW t \in Threads,
         \/ InvalidRow(t) \/ ResolveUnit(t) \/ Lookup(t) \/ Create(t) \/ Insert(t) \/ CommitCreate(t)
         \/ CreateFailed(t) \/ NoTemplates(t) \/ Update(t) \/ Outcome(t) \/ Fail(t)
         \/ FindMissing(t) \/ Tally(t) \/ CheckOpen(t),
         Len(blocks[t]) >= 1
  PROVE  /\ Outermost(t)' = Outermost(t) /\ Outermost(t) \in Conns
         /\ \A u \in Units :
              TurnoverCell(u) \in DOMAIN pending'[Outermost(t)] =>
                /\ TurnoverCell(u) \in DOMAIN pending[Outermost(t)]
                /\ pending'[Outermost(t)][TurnoverCell(u)] = pending[Outermost(t)][TurnoverCell(u)]
<1> DEFINE c == Outermost(t)
<1>1. c \in Conns /\ blocks[t] \in Seq(Conns) /\ Len(blocks[t]) \in Nat
  BY DEF Structure, Pool, CP!TypeOK, Outermost
<1>2. CASE \/ Lookup(t) \/ Create(t) \/ NoTemplates(t) \/ Update(t) \/ Fail(t)
           \/ FindMissing(t) \/ Tally(t) \/ CheckOpen(t)
  BY <1>1, <1>2, WaitingStep DEF Waits
<1>3. CASE CommitCreate(t) \/ CreateFailed(t)
  <2>1. run[t].step \in Inner /\ (DB!Commit(t) \/ DB!Rollback(t))
    BY <1>3 DEF CommitCreate, CreateFailed, AtStep, Inner
  <2>2. Len(blocks[t]) = 2
    BY <2>1, OwnConnection
  <2>3. /\ blocks[t][2] \in Conns /\ pending' = [pending EXCEPT ![blocks[t][2]] = DB!Nothing]
        /\ \A i \in 1..1 : blocks'[t][i] = blocks[t][i]
    BY <2>1, <2>2, EndEffect DEF Structure
  <2>4. 1 \in 1..Len(blocks[t]) /\ 2 \in 1..Len(blocks[t])
    BY <2>2
  <2>5. blocks[t][1] # blocks[t][2]
    BY <2>4, Apart
  <2>6. pending'[c] = pending[c]
    BY <1>1, <2>3, <2>5 DEF Outermost, Structure, Pool, CP!TypeOK
  <2> QED BY <1>1, <2>3, <2>6 DEF Outermost
<1>4. ASSUME NEW cell, NEW value, Put(t, cell, value),
             (\A u \in Units : cell # TurnoverCell(u)) \/ txnConn[t] # c
      PROVE  /\ Outermost(t)' = Outermost(t)
             /\ \A u \in Units :
                  TurnoverCell(u) \in DOMAIN pending'[c] =>
                    /\ TurnoverCell(u) \in DOMAIN pending[c]
                    /\ pending'[c][TurnoverCell(u)] = pending[c][TurnoverCell(u)]
  <2>1. CASE txnConn[t] = NoConn
    BY <1>4, <2>1 DEF Put, DB!Execute, Outermost
  <2>2. CASE txnConn[t] # NoConn
    <3>1. Wrote(t, txnConn[t], cell, value)
      BY <1>4, <2>2, PutWrote
    <3>2. Outermost(t)' = c
      BY <3>1 DEF Wrote, Outermost
    <3>3. CASE txnConn[t] # c
      BY <1>1, <3>1, <3>2, <3>3, WroteDomain
    <3>4. CASE txnConn[t] = c
      <4>1. /\ DOMAIN pending'[c] = DOMAIN pending[c] \cup {cell}
            /\ \A k \in DOMAIN pending[c] \ {cell} : pending'[c][k] = pending[c][k]
        BY <3>1, <3>4, WroteDomain
      <4> QED BY <1>4, <3>2, <3>4, <4>1
    <3> QED BY <3>3, <3>4
  <2> QED BY <2>1, <2>2
<1>5. CASE UNCHANGED <<pending, blocks>>
  BY <1>1, <1>5 DEF Outermost
<1>6. CASE ResolveUnit(t) \/ InvalidRow(t) \/ Outcome(t)
  <2>1. \/ UNCHANGED <<pending, blocks>>
        \/ \E cell, value : Put(t, cell, value) /\ \A u \in Units : cell # TurnoverCell(u)
    <3>1. CASE ResolveUnit(t)
      <4>1. UNCHANGED <<pending, blocks>> \/ Put(t, UnitCell(RowUnit(t)), TRUE)
        BY <3>1 DEF ResolveUnit, dbVars
      <4>2. \A u \in Units : UnitCell(RowUnit(t)) # TurnoverCell(u)
        BY Tables
      <4> QED BY <4>1, <4>2, Zenon
    <3>2. CASE InvalidRow(t) \/ Outcome(t)
      BY <3>2, Tables DEF InvalidRow, Outcome, WriteRow, DB!Raise
    <3> QED BY <1>6, <3>1, <3>2
  <2> HIDE DEF c
  <2> QED BY <1>1, <1>4, <1>5, <2>1 DEF c
<1>7. CASE Insert(t)
  <2>1. run[t].step = "insert"
    BY <1>7 DEF Insert, AtStep
  <2>2. Len(blocks[t]) = 2 /\ txnConn[t] = blocks[t][2]
    BY <2>1, LocalsAre DEF Shape, Inner
  <2>3. 1 \in 1..Len(blocks[t]) /\ 2 \in 1..Len(blocks[t])
    BY <2>2
  <2>4. txnConn[t] # c
    BY <2>2, <2>3, Apart DEF Outermost
  <2>5. UNCHANGED <<pending, blocks>> \/ \E value : Put(t, TurnoverCell(RowUnit(t)), value)
    BY <1>7 DEF Insert, DB!Raise
  <2> HIDE DEF c
  <2> QED BY <1>1, <1>4, <1>5, <2>4, <2>5 DEF c
<1> QED BY <1>2, <1>3, <1>6, <1>7

\* Where the other steps of an import leave it.
LEMMA RowSteps ==
  ASSUME Structure, NEW t \in Threads,
         \/ InvalidRow(t) \/ ResolveUnit(t) \/ Lookup(t) \/ Create(t) \/ Insert(t) \/ CommitCreate(t)
         \/ CreateFailed(t) \/ NoTemplates(t) \/ Update(t) \/ Outcome(t)
  PROVE  /\ AtRows(t) /\ ~AtTally(t)' /\ run'[t].batch = run[t].batch /\ Len(blocks[t]) >= 1
<1>1. run \in [Threads -> Locals] /\ run[t] \in Locals
  BY LocalsAre DEF Structure, Typed
<1>2. AtRows(t) /\ Len(blocks[t]) >= 1
  <2>1. run[t].step \in {"row"} \cup AtRow
    BY DEF InvalidRow, ResolveUnit, Lookup, Create, Insert, CommitCreate, CreateFailed, NoTemplates, Update,
           Outcome, AtStep, AtRow, Inner
  <2> QED BY <2>1, OwnConnection DEF AtRows, AtRow, Outer, Inner
<1>3. ASSUME NEW l \in Locals, WriteRow(t, l), l.batch = run[t].batch
      PROVE  ~AtTally(t)' /\ run'[t].batch = run[t].batch
  <2> DEFINE m == [l EXCEPT !.step = "row", !.i = @ + 1, !.found = NoTurnover, !.outcome = "none"]
  <2>1. m.step = "row" /\ m.batch = l.batch
    BY <1>3 DEF Locals
  <2> HIDE DEF m
  <2>2. run'[t] = m \/ run'[t] = [run[t] EXCEPT !.step = "leave_failed"]
    BY <1>1, <1>3 DEF WriteRow, Set, Goto, m
  <2> QED BY <1>1, <1>3, <2>1, <2>2 DEF AtTally, Locals
<1>4. CASE InvalidRow(t)
  BY <1>1, <1>2, <1>3, <1>4 DEF InvalidRow
<1>5. CASE Outcome(t)
  <2> DEFINE seen == IF run[t].outcome = "CONFLICT" THEN run[t].seen ELSE run[t].seen \cup {RowUnit(t)}
             l == [run[t] EXCEPT !.seen = seen]
  <2>1. run[t].step = "outcome" /\ WriteRow(t, l)
    BY <1>5 DEF Outcome, AtStep
  <2>2. RowUnit(t) \in Units
    BY <2>1, LocalsAre DEF AtRow
  <2>3. seen \subseteq Units
    BY <1>1, <2>2 DEF Locals
  <2> HIDE DEF seen
  <2>4. l \in Locals /\ l.batch = run[t].batch
    BY <1>1, <2>3 DEF Locals
  <2> HIDE DEF l
  <2> QED BY <1>2, <1>3, <2>1, <2>4
<1>6. CASE ResolveUnit(t)
  BY <1>1, <1>2, <1>6 DEF ResolveUnit, Goto, Set, AtTally, Locals
<1>7. CASE Lookup(t)
  BY <1>1, <1>2, <1>7 DEF Lookup, Set, AtTally, Locals
<1>8. CASE Create(t)
  <2>1. \/ run'[t] = [run[t] EXCEPT !.step = "outcome", !.outcome = "CONFLICT"]
        \/ run'[t] = [run[t] EXCEPT !.step = "leave_failed"]
        \/ run'[t] = [run[t] EXCEPT !.step = "insert"]
    BY <1>1, <1>8 DEF Create, Goto, Set
  <2>2. run'[t].step \in {"outcome", "leave_failed", "insert"} /\ run'[t].batch = run[t].batch
    BY <1>1, <2>1 DEF Locals
  <2> QED BY <1>2, <2>2 DEF AtTally
<1>9. CASE Insert(t)
  BY <1>1, <1>2, <1>9 DEF Insert, Goto, Set, AtTally, Locals
<1>10. CASE CommitCreate(t) \/ NoTemplates(t)
  <2>1. \/ run'[t] = [run[t] EXCEPT !.step = "outcome", !.outcome = "OK"]
        \/ run'[t] = [run[t] EXCEPT !.step = "create_failed", !.outcome = "CONFLICT"]
    BY <1>1, <1>10 DEF CommitCreate, NoTemplates, Set
  <2>2. run'[t].step \in {"outcome", "create_failed"} /\ run'[t].batch = run[t].batch
    BY <1>1, <2>1 DEF Locals
  <2> QED BY <1>2, <2>2 DEF AtTally
<1>11. CASE CreateFailed(t)
  BY <1>1, <1>2, <1>11 DEF CreateFailed, Goto, Set, AtTally, Locals
<1>12. CASE Update(t)
  <2> DEFINE e == [unit |-> RowUnit(t), gen |-> run[t].found.gen, op |-> "schedule", value |-> Row(t).date]
  <2>1. \/ run' = [run EXCEPT ![t] = [run[t] EXCEPT !.step = "check", !.outcome = "OK", !.edit = e]]
        \/ run' = [run EXCEPT ![t] = [run[t] EXCEPT !.step = "outcome", !.outcome = "OK"]]
        \/ run' = [run EXCEPT ![t] = [run[t] EXCEPT !.step = "outcome", !.outcome = "SKIPPED_OVERRIDE"]]
    BY <1>12 DEF Update, Set
  <2>2. e.op = "schedule"
    OBVIOUS
  <2> HIDE DEF e
  <2>3. \/ run'[t] = [run[t] EXCEPT !.step = "check", !.outcome = "OK", !.edit = e]
        \/ run'[t] = [run[t] EXCEPT !.step = "outcome", !.outcome = "OK"]
        \/ run'[t] = [run[t] EXCEPT !.step = "outcome", !.outcome = "SKIPPED_OVERRIDE"]
    BY <1>1, <2>1
  <2>4. /\ run'[t].batch = run[t].batch
        /\ run'[t].step = "outcome" \/ (run'[t].step = "check" /\ run'[t].edit.op = "schedule")
    BY <1>1, <2>2, <2>3 DEF Locals
  <2> QED BY <1>2, <2>4 DEF AtTally
<1> QED BY <1>2, <1>4, <1>5, <1>6, <1>7, <1>8, <1>9, <1>10, <1>11, <1>12

\* What post-processing finds of one open turnover.
LEMMA TallyOf ==
  ASSUME NEW u, NEW turnover, NEW seen, NEW e \in Tallies(u, turnover, seen)
  PROVE  /\ e.unit = u /\ turnover.status = "open"
         /\ e.op \in {"seen", "missing", "cancel"}
         /\ e.op = "missing" => e.value = turnover.missing + 1
         /\ e.op = "cancel" => turnover.missing + 1 >= CancelAfter
         /\ \A f \in Tallies(u, turnover, seen) : e = f
<1> DEFINE edit(op, value) == [unit |-> u, gen |-> turnover.gen, op |-> op, value |-> value]
           missing == turnover.missing + 1
<1>1. CASE turnover.status # "open"
  BY <1>1 DEF Tallies
<1>2. CASE turnover.status = "open" /\ u \in seen
  BY <1>2 DEF Tallies
<1>3. CASE turnover.status = "open" /\ u \notin seen
  <2>1. Tallies(u, turnover, seen) \in
          {{}, {edit("cancel", 0)}, {edit("missing", missing)}}
        /\ (Tallies(u, turnover, seen) = {edit("cancel", 0)} => ShouldCancelTurnover(missing))
    BY <1>3 DEF Tallies
  <2> QED BY <1>3, <2>1 DEF ShouldCancelTurnover
<1> QED BY <1>1, <1>2, <1>3

\* What AtRows asks stays so while no turnover changes on the connection.
LEMMA RowsStay ==
  ASSUME Structure, NEW t \in Threads, TalliesInv(t), AtRows(t), run'[t].batch = run[t].batch, ~AtTally(t)',
         Outermost(t)' = Outermost(t),
         \A u \in Units :
           TurnoverCell(u) \in DOMAIN pending'[Outermost(t)] =>
             /\ TurnoverCell(u) \in DOMAIN pending[Outermost(t)]
             /\ pending'[Outermost(t)][TurnoverCell(u)] = pending[Outermost(t)][TurnoverCell(u)]
  PROVE  TalliesInv(t)'
BY DEF TalliesInv

LEMMA TalliesStep ==
  ASSUME Structure, Own, RowsGood, NEW t \in Threads, TalliesInv(t), Detect(t) \/ Import(t) \/ Fail(t)
  PROVE  TalliesInv(t)'
<1> DEFINE c == Outermost(t)
           b == run[t].batch
<1>1. /\ run \in [Threads -> Locals] /\ run[t] \in Locals /\ Local(t) /\ Shape(t)
      /\ StepOf(t) /\ Moves(t)
  BY LocalsAre, EveryStep, EveryMove DEF Structure, Typed
<1>2. ASSUME run'[t].step \in {"idle", "enter", "batch", "complete", "leave", "leave_failed"}
      PROVE  TalliesInv(t)'
  BY <1>2 DEF TalliesInv, AtRows, AtTally, AtRow, Inner
<1>3. CASE Detect(t) \/ Enter(t) \/ Leave(t) \/ LeaveFailed(t) \/ CompleteBatch(t)
  <2>1. CASE Detect(t)
    BY <1>1, <1>2, <2>1, IdleIs DEF Detect, Set, Idle
  <2>2. CASE Enter(t)
    BY <1>1, <1>2, <2>2, IdleIs DEF Enter, Set, Goto, Locals
  <2>3. CASE Leave(t) \/ LeaveFailed(t)
    BY <1>1, <1>2, <2>3, IdleIs DEF Leave, LeaveFailed, Set
  <2>4. CASE CompleteBatch(t)
    BY <1>1, <1>2, <2>4 DEF CompleteBatch, Set, Goto, Locals
  <2> QED BY <1>3, <2>1, <2>2, <2>3, <2>4
<1>4. CASE StartBatch(t)
  <2>1. CASE Goto(t, "leave_failed")
    BY <1>1, <1>2, <2>1 DEF Goto, Set, Locals
  <2>2. ASSUME NEW n, n = started + 1, started # MaxBatches, run[t].step = "batch",
               Put(t, BatchCell(n), [status |-> "PROCESSING", file |-> run[t].file]),
               Set(t, [run[t] EXCEPT !.step = "row", !.batch = n, !.i = 1])
        PROVE  TalliesInv(t)'
    <3>1. run'[t].step = "row" /\ run'[t].batch = n
      BY <1>1, <2>2 DEF Set, Locals
    <3>2. Len(blocks[t]) = 1 /\ c \in Conns /\ txnConn[t] = c /\ txnConn[t] # NoConn
      BY <2>2, OwnConnection DEF Outer
    <3>3. Wrote(t, c, BatchCell(n), [status |-> "PROCESSING", file |-> run[t].file])
      BY <2>2, <3>2, PutWrote
    <3>4. \A u \in Units :
            TurnoverCell(u) \in DOMAIN pending'[c] =>
              /\ TurnoverCell(u) \in DOMAIN pending[c]
              /\ pending'[c][TurnoverCell(u)] = pending[c][TurnoverCell(u)]
      BY <3>3, Tables, WroteDomain
    <3>5. n \notin Completed /\ n # 0 /\ n \in Nat
      BY <2>2, Frame, <1>1 DEF Completed, Own
    <3>6. BatchesOn(c) \subseteq {0}
      <4>1. ASSUME NEW s \in Threads, Len(blocks[s]) >= 1, Outermost(s) = c PROVE s = t
        <5>1. 1 \in 1..Len(blocks[s]) /\ 1 \in 1..Len(blocks[t])
          BY <3>2, <4>1 DEF Structure, Pool, CP!TypeOK
        <5> QED BY <4>1, <5>1, Apart DEF Outermost
      <4>2. run[t].batch = 0
        BY <1>1, <2>2 DEF Local, Before
      <4> QED BY <4>1, <4>2 DEF BatchesOn
    <3>7. \A u \in Units : TurnoverCell(u) \in DOMAIN pending[c] => n \notin pending[c][TurnoverCell(u)].absences
      BY <3>2, <3>5, <3>6 DEF RowsGood, GoodRow
    <3>8. Outermost(t)' = c
      BY <3>3 DEF Wrote, Outermost
    <3> QED BY <3>1, <3>4, <3>7, <3>8 DEF TalliesInv, AtTally
  <2> QED BY <1>4, <2>1, <2>2 DEF StartBatch, AtStep
<1>5. CASE \/ InvalidRow(t) \/ ResolveUnit(t) \/ Lookup(t) \/ Create(t) \/ Insert(t) \/ CommitCreate(t)
           \/ CreateFailed(t) \/ NoTemplates(t) \/ Update(t) \/ Outcome(t)
  BY <1>5, RowSteps, OwnRowsKept, RowsStay
<1>6. CASE Fail(t)
  <2>1. PICK step \in {"create_failed", "leave_failed"} :
          /\ run' = [run EXCEPT ![t] = [run[t] EXCEPT !.outcome = "none", !.step = step]]
          /\ step = "create_failed" => Len(blocks[t]) = 2
    BY <1>6 DEF Fail, Set
  <2>2. run'[t].step = step /\ run'[t].batch = b
    BY <1>1, <2>1 DEF Locals
  <2>3. CASE step = "create_failed"
    <3>1. run[t].step \in Inner
      <4>1. run[t].step \in Before \cup Outer \cup Inner
        BY <1>1 DEF Locals
      <4> QED BY <1>1, <2>1, <2>3, <4>1 DEF Shape
    <3>2. AtRows(t) /\ ~AtTally(t)'
      BY <2>2, <2>3, <3>1 DEF AtRows, AtTally, AtRow
    <3>3. Len(blocks[t]) >= 1
      BY <2>1, <2>3
    <3> QED BY <1>6, <2>2, <3>2, <3>3, OwnRowsKept, RowsStay
  <2> QED BY <1>2, <2>2, <2>3
<1>7. CASE FindMissing(t)
  <2> DEFINE todo == UNION {Tallies(u, Sees(t, TurnoverCell(u)), run[t].seen) : u \in Units}
  <2>1. /\ run[t].step = "row" /\ UNCHANGED dbVars
        /\ run' = [run EXCEPT ![t] = [run[t] EXCEPT !.step = "tally", !.todo = todo]]
    BY <1>7 DEF FindMissing, AtStep, Set
  <2>2. run'[t].step = "tally" /\ run'[t].todo = todo /\ run'[t].batch = b
    <3> HIDE DEF todo
    <3> QED BY <1>1, <2>1 DEF Locals
  <2>3. AtRows(t)
    BY <2>1 DEF AtRows
  <2>4. \A u \in Units : RowNow(t, u)' = RowNow(t, u) /\ Sees(t, TurnoverCell(u)) = RowNow(t, u)
    BY <2>1, SeesRowNow DEF RowNow, Outermost, dbVars, Outer
  <2>5. ASSUME NEW u \in Units, NEW e \in Tallies(u, RowNow(t, u), run[t].seen)
        PROVE  e.unit = u /\ StillFits(t, e)'
    <3>1. b \notin RowNow(t, u).absences
      BY <2>3, NotCountedYet
    <3>2. RowNow(t, e.unit)' = RowNow(t, u) /\ e.unit = u
      BY <2>4, <2>5, TallyOf
    <3> QED BY <2>2, <2>5, <3>1, <3>2, TallyOf DEF StillFits
  <2>6. \A e \in todo : StillFits(t, e)'
    BY <2>4, <2>5
  <2>7. \A e, f \in todo : e.unit = f.unit => e = f
    <3>1. SUFFICES ASSUME NEW u \in Units, NEW v \in Units,
                          NEW e \in Tallies(u, RowNow(t, u), run[t].seen),
                          NEW f \in Tallies(v, RowNow(t, v), run[t].seen), e.unit = f.unit
                   PROVE  e = f
      BY <2>4
    <3>2. u = v
      BY <2>5, <3>1
    <3> QED BY <3>1, <3>2, TallyOf
  <2> HIDE DEF todo
  <2>8. Due(t)' = todo /\ AtTally(t)' /\ ~AtRows(t)'
    BY <2>2 DEF Due, AtTally, AtRows, AtRow, Inner
  <2> QED BY <2>2, <2>6, <2>7, <2>8 DEF TalliesInv
<1>8. CASE Tally(t)
  <2>0. run[t].step = "tally" /\ UNCHANGED dbVars
    BY <1>8 DEF Tally, AtStep
  <2>1. CASE run[t].todo = {}
    BY <1>1, <1>2, <1>8, <2>1 DEF Tally, Goto, Set, Locals
  <2>2. CASE run[t].todo # {}
    <3>1. PICK e \in run[t].todo :
            run' = [run EXCEPT ![t] = [run[t] EXCEPT !.step = "check", !.edit = e, !.todo = @ \ {e}]]
      BY <1>8, <2>2 DEF Tally, Set
    <3>2. /\ run'[t].step = "check" /\ run'[t].edit = e /\ run'[t].todo = run[t].todo \ {e}
          /\ run'[t].batch = b
      BY <1>1, <3>1 DEF Locals
    <3>3. e.op # "schedule"
      BY <1>1 DEF Local
    <3>4. Due(t)' = run[t].todo /\ Due(t) = run[t].todo /\ AtTally(t) /\ AtTally(t)' /\ ~AtRows(t)'
      BY <2>0, <3>2, <3>3 DEF Due, AtTally, AtRows, AtRow, Inner
    <3>5. \A u : RowNow(t, u)' = RowNow(t, u)
      BY <2>0 DEF RowNow, Outermost, dbVars
    <3>6. \A f \in run[t].todo : StillFits(t, f)'
      BY <3>2, <3>4, <3>5 DEF TalliesInv, StillFits
    <3> QED BY <3>2, <3>4, <3>6 DEF TalliesInv
  <2> QED BY <2>1, <2>2
<1>9. CASE CheckOpen(t)
  <2>0. run[t].step = "check" /\ UNCHANGED dbVars
    BY <1>9 DEF CheckOpen, AtStep
  <2>1. \/ run'[t] = [run[t] EXCEPT !.step = "write"]
        \/ run'[t] = [run[t] EXCEPT !.step = "leave_failed"]
    BY <1>1, <1>9 DEF CheckOpen, Goto, Set
  <2>2. CASE run'[t] = [run[t] EXCEPT !.step = "write"]
    <3>1. /\ run'[t].step = "write" /\ run'[t].edit = run[t].edit /\ run'[t].todo = run[t].todo
          /\ run'[t].batch = b
      BY <1>1, <2>2 DEF Locals
    <3>2. /\ AtTally(t)' <=> AtTally(t)
          /\ AtRows(t)' <=> AtRows(t)
          /\ Due(t)' = Due(t)
      BY <2>0, <3>1 DEF Due, AtTally, AtRows, AtRow, Inner
    <3>3. (\A u : RowNow(t, u)' = RowNow(t, u)) /\ Outermost(t)' = Outermost(t) /\ pending' = pending
      BY <2>0 DEF RowNow, Outermost, dbVars
    <3> QED BY <2>0, <3>1, <3>2, <3>3 DEF TalliesInv, StillFits
  <2>3. CASE run'[t] = [run[t] EXCEPT !.step = "leave_failed"]
    BY <1>1, <1>2, <2>3 DEF Locals
  <2> QED BY <2>1, <2>2, <2>3
<1>10. CASE Write(t)
  <2> DEFINE e == run[t].edit
             row == RowNow(t, e.unit)
             cell == TurnoverCell(e.unit)
             new == Edited(row, e, b)
  <2>1. run[t].step = "write"
    BY <1>10 DEF Write, AtStep
  <2>2. /\ txnConn[t] = c /\ c # NoConn /\ c \in Conns /\ Len(blocks[t]) = 1
        /\ e \in Edits /\ e.unit \in Units /\ b \in Batches
    BY <1>1, <2>1, OwnConnection DEF Outer, Local, Working, Edits
  <2>3. Sees(t, cell) = row
    BY <2>1, <2>2, SeesRowNow DEF Outer
  <2>4. /\ UNCHANGED dbVars \/ Put(t, cell, new)
        /\ run' = [run EXCEPT ![t] = [run[t] EXCEPT
                     !.step = IF e.op = "schedule" THEN "outcome" ELSE "tally", !.edit = NoEdit]]
    BY <1>10, <2>3 DEF Write, Set
  <2>5. /\ run'[t].step = IF e.op = "schedule" THEN "outcome" ELSE "tally"
        /\ run'[t].todo = run[t].todo /\ run'[t].batch = b
    BY <1>1, <2>4 DEF Locals
  <2> HIDE DEF new
  <2>6. /\ Outermost(t)' = c
        /\ \A k \in DOMAIN pending'[c] \ {cell} : k \in DOMAIN pending[c] /\ pending'[c][k] = pending[c][k]
        /\ \A k \in DOMAIN pending[c] \ {cell} : k \in DOMAIN pending'[c]
        /\ cell \in DOMAIN pending'[c] =>
             pending'[c][cell] = new \/ (cell \in DOMAIN pending[c] /\ pending'[c][cell] = pending[c][cell])
        /\ UNCHANGED committed
    <3>1. CASE UNCHANGED dbVars
      BY <3>1 DEF dbVars, Outermost
    <3>2. CASE Put(t, cell, new)
      <4>1. Wrote(t, c, cell, new)
        BY <2>2, <3>2, PutWrote
      <4>2. Outermost(t)' = c /\ UNCHANGED committed
        BY <4>1 DEF Wrote, Outermost
      <4> QED BY <4>1, <4>2, WroteDomain
    <3> QED BY <2>4, <3>1, <3>2
  <2>7. CASE e.op = "schedule"
    <3>1. AtRows(t) /\ ~AtTally(t)'
      BY <2>1, <2>5, <2>7 DEF AtRows, AtTally
    <3>2. b \notin row.absences
      BY <2>2, <3>1, NotCountedYet
    <3>3. row \in TurnoverRows
      BY <2>2, RowNowGood DEF GoodRow
    <3>4. new.absences = row.absences
      BY <2>7, <3>3 DEF new, Edited, TurnoverRows
    <3>5. ASSUME NEW u \in Units, TurnoverCell(u) \in DOMAIN pending'[c]
          PROVE  b \notin pending'[c][TurnoverCell(u)].absences
      <4>1. CASE TurnoverCell(u) = cell
        BY <2>2, <2>6, <3>1, <3>2, <3>4, <3>5, <4>1 DEF TalliesInv
      <4>2. CASE TurnoverCell(u) # cell
        BY <2>6, <3>1, <3>5, <4>2 DEF TalliesInv
      <4> QED BY <4>1, <4>2
    <3> QED BY <2>5, <2>6, <3>1, <3>5 DEF TalliesInv
  <2>8. CASE e.op # "schedule"
    <3>1. AtTally(t) /\ AtTally(t)' /\ ~AtRows(t)' /\ Due(t)' = run[t].todo /\ Due(t) = run[t].todo \cup {e}
      BY <2>1, <2>5, <2>8 DEF AtRows, AtTally, AtRow, Inner, Due
    <3>2. ASSUME NEW f \in run[t].todo PROVE StillFits(t, f)'
      <4>1. f.unit # e.unit /\ f.unit \in Units
        BY <1>1, <2>1, <3>1 DEF TalliesInv, Locals, Edits
      <4>2. TurnoverCell(f.unit) # cell
        BY <4>1, Tables
      <4>3. RowNow(t, f.unit)' = RowNow(t, f.unit)
        <5>1. TurnoverCell(f.unit) \in DOMAIN committed
          BY <4>1, CellsAre DEF Structure, Pool, CP!TypeOK
        <5> QED BY <2>6, <4>2, <5>1 DEF RowNow, DB!Over
      <4> QED BY <2>5, <3>1, <4>3 DEF TalliesInv, StillFits
    <3> QED BY <2>5, <2>8, <3>1, <3>2 DEF TalliesInv
  <2> QED BY <2>7, <2>8
<1> QED BY <1>3, <1>4, <1>5, <1>6, <1>7, <1>8, <1>9, <1>10 DEF Import

\* Of imports that do not overlap, _post_process_missing_moveouts cancels a turnover
\* only when CancelAfter in a row have missed it, each of which has committed.
THEOREM SerialCancelsRightly == Spec /\ []Serial => []CanceledAfterTwoAbsences
<1> DEFINE Tallied == RowsGood /\ \A t \in Threads : TalliesInv(t)
<1>1. Init => Structure /\ RowsInv /\ Tallied
  <2> SUFFICES ASSUME Init PROVE Tallied
    BY StructureInit, RowsInit
  <2>1. \A c \in Conns : DOMAIN pending[c] = {}
    BY NothingFits DEF Init, DB!Init
  <2>2. ASSUME NEW u \in Units PROVE GoodRow(committed[TurnoverCell(u)], Completed)
    <3> DEFINE row == committed[TurnoverCell(u)]
    <3>1. row \in OldTurnovers
      BY DatabaseFits DEF Init, DB!Init
    <3>2. row \in TurnoverRows /\ row.status # "canceled" /\ row.missing \in {0, 1}
          /\ row.absences = IF row.missing = 1 THEN {0} ELSE {}
      BY <3>1 DEF OldTurnovers, TurnoverRows, CancelAfter
    <3> HIDE DEF row
    <3>3. CASE row.missing = 0
      BY <3>2, <3>3, NewRowGood DEF row
    <3>4. CASE row.missing = 1
      <4>1. Cardinality({0}) = 1
        BY FS_Singleton
      <4> QED BY <3>2, <3>4, <4>1 DEF GoodRow, Counted, row
    <3> QED BY <3>2, <3>3, <3>4
  <2>3. \A t \in Threads : TalliesInv(t)
    BY IdleIs DEF Init, TalliesInv, AtRows, AtTally, AtRow, Inner
  <2> QED BY <2>1, <2>2, <2>3 DEF RowsGood
<1>2. Structure /\ RowsInv /\ Tallied /\ Serial /\ Serial' /\ [Next]_vars => Tallied'
  <2> SUFFICES ASSUME Structure, RowsInv, Tallied, Serial, Serial', [Next]_vars PROVE Tallied'
    OBVIOUS
  <2>1. ASSUME NEW t \in Threads, Detect(t) \/ Import(t) \/ Fail(t) PROVE Tallied'
    <3>1. Own /\ TalliesInv(t) /\ RowsGood
      BY DEF RowsInv
    <3>2. StepOf(t) /\ Moves(t)
      BY <2>1, <3>1, EveryStep, EveryMove
    <3>3. RowsGood'
      BY <2>1, <3>1, <3>2, WritesGoodStep, RowsGoodStep
    <3>4. TalliesInv(t)'
      BY <2>1, <3>1, TalliesStep
    <3>5. ASSUME NEW s \in Threads, s # t PROVE TalliesInv(s)'
      <4>1. run'[s].step = "idle"
        BY <2>1, <3>5, OthersRest
      <4> QED BY <4>1 DEF TalliesInv, AtRows, AtTally, AtRow, Inner
    <3> QED BY <3>3, <3>4, <3>5
  <2>2. CASE UNCHANGED vars
    <3>1. UNCHANGED <<pending, blocks, committed, run>>
      BY <2>2 DEF vars, dbVars
    <3>2. RowsGood'
      BY <3>1 DEF RowsGood, Completed, BatchesOn, Outermost
    <3>3. ASSUME NEW t \in Threads PROVE TalliesInv(t)'
      <4>1. (\A u : RowNow(t, u)' = RowNow(t, u)) /\ Outermost(t)' = Outermost(t)
        BY <3>1 DEF RowNow, Outermost
      <4>2. (\A e : StillFits(t, e)' <=> StillFits(t, e)) /\ Due(t)' = Due(t)
        BY <3>1, <4>1 DEF StillFits, Due
      <4> QED BY <3>1, <4>1, <4>2 DEF TalliesInv, AtRows, AtTally
    <3> QED BY <3>2, <3>3
  <2> QED BY <2>1, <2>2 DEF Next
<1>3. Tallied => CanceledAfterTwoAbsences
  <2> SUFFICES ASSUME RowsGood, NEW u \in Units, committed[TurnoverCell(u)].status = "canceled"
               PROVE  /\ Cardinality(committed[TurnoverCell(u)].absences) >= CancelAfter
                      /\ committed[TurnoverCell(u)].absences \ {0} \subseteq Completed
    BY DEF CanceledAfterTwoAbsences, Completed
  <2> QED BY DEF RowsGood, GoodRow, Counted
<1> HIDE DEF Tallied
<1> QED BY <1>1, <1>2, <1>3, InvStep, PTL DEF Spec
=============================================================================
