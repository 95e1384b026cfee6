----------------------------- MODULE Connection -----------------------------
(***************************************************************************)
(* db/connection.py: the pool, get_connection() and transaction(), over a  *)
(* database seen as cells (rows, say) that statements write.  A statement  *)
(* runs on the connection its thread remembers in _local.txn_conn, and     *)
(* otherwise on one borrowed for it alone, which commits at once.          *)
(*                                                                         *)
(* External, modelled from how the code uses them: psycopg2 connections    *)
(* and PostgreSQL at READ COMMITTED.  A connection sees what is committed  *)
(* and its own writes; a row another transaction has written waits; a      *)
(* failed statement aborts its transaction, and committing an aborted one  *)
(* commits nothing.  A connection may be lost at any moment: PostgreSQL    *)
(* drops what it had not committed, and psycopg2 closes the connection     *)
(* when it next has something to send.                                     *)
(***************************************************************************)
EXTENDS Naturals, Sequences

CONSTANTS
  Threads,   \* the threads that run service code
  Conns,     \* the pool's connections, maxconn of them
  NoConn,    \* None
  Cells,     \* what statements write
  Values,    \* what they write there
  Initial,   \* the first contents of the database
  MaxDepth   \* bound: transaction() blocks a thread opens inside one another

ASSUME ConnectionConstants ==
  /\ NoConn \notin Conns
  /\ Initial \subseteq [Cells -> Values]
  /\ MaxDepth \in Nat

VARIABLES
  idle,        \* connections in the pool
  autocommit,  \* the flag of each connection
  aborted,     \* is the connection's transaction aborted?
  pending,     \* what it has written and not committed
  link,        \* is it up, lost, or closed because that was noticed?
  txnConn,     \* _local.txn_conn of each thread
  blocks,      \* the connections of the transaction() blocks each thread is in
  committed,   \* the contents of the database
  wrote,       \* history: what a thread has written since its outermost block
  flat         \* history: it has opened no block inside that one

vars == <<idle, autocommit, aborted, pending, link, txnConn, blocks, committed, wrote, flat>>

Nothing == [k \in {} |-> NoConn]

\* What one layer of writes makes of the one below it.
Over(top, below) ==
  [k \in DOMAIN top \cup DOMAIN below |-> IF k \in DOMAIN top THEN top[k] ELSE below[k]]

Writes == UNION {[S -> Values] : S \in SUBSET Cells}

Init ==
  /\ idle = Conns
  /\ autocommit = [c \in Conns |-> TRUE]
  /\ aborted = [c \in Conns |-> FALSE]
  /\ pending = [c \in Conns |-> Nothing]
  /\ link = [c \in Conns |-> "up"]
  /\ txnConn = [t \in Threads |-> NoConn]
  /\ blocks = [t \in Threads |-> <<>>]
  /\ committed \in Initial
  /\ wrote = [t \in Threads |-> Nothing]
  /\ flat = [t \in Threads |-> TRUE]

InBlock(t) == blocks[t] # <<>>

\* What a statement of t reads.
View(t) == IF txnConn[t] = NoConn THEN committed ELSE Over(pending[txnConn[t]], committed)

\* The cells a statement of t would wait for.
Locked(t) == UNION {DOMAIN pending[c] : c \in {d \in Conns \ {txnConn[t]} : link[d] = "up"}}

-----------------------------------------------------------------------------
\* A mutant: transaction() does not set _local.txn_conn.
RememberNot(t, c) == UNCHANGED txnConn

\* The statements of the block are to run on c.
Remember(t, c) == txnConn' = [txnConn EXCEPT ![t] = c]

\* transaction(), up to its yield.  An exhausted pool raises instead.  A lost
\* connection goes unnoticed: there is nothing for its rollback() to send.
Begin(t) ==
  /\ \E c \in idle :
       /\ idle' = idle \ {c}
       /\ Remember(t, c)
       /\ autocommit' = [autocommit EXCEPT ![c] = FALSE]
       /\ pending' = [pending EXCEPT ![c] = Nothing]
       /\ aborted' = [aborted EXCEPT ![c] = FALSE]
       /\ blocks' = [blocks EXCEPT ![t] = Append(@, c)]
  /\ wrote' = [wrote EXCEPT ![t] = IF InBlock(t) THEN @ ELSE Nothing]
  /\ flat' = [flat EXCEPT ![t] = ~InBlock(t)]
  /\ link' = link
  /\ UNCHANGED committed

\* A repository call whose statement writes w: get_connection() and execute().
Execute(t, w) ==
  /\ DOMAIN w \cap Locked(t) = {}
  /\ IF txnConn[t] = NoConn
       THEN /\ \E c \in idle : link[c] = "up"
            /\ committed' = Over(w, committed)
            /\ UNCHANGED pending
       ELSE /\ link[txnConn[t]] = "up" /\ ~aborted[txnConn[t]]
            /\ pending' = [pending EXCEPT ![txnConn[t]] = Over(w, @)]
            /\ UNCHANGED committed
  /\ wrote' = [wrote EXCEPT ![t] = IF InBlock(t) THEN Over(w, @) ELSE @]
  /\ link' = link
  /\ UNCHANGED <<idle, autocommit, aborted, txnConn, blocks, flat>>

\* A repository call whose statement raises, which closes a lost connection.
\* Outside a block get_connection rolls the borrowed connection back before it
\* returns it, and putconn discards a closed one: the next borrower gets a new one.
Raise(t) ==
  /\ IF txnConn[t] = NoConn
       THEN /\ UNCHANGED aborted
            /\ \/ link' = link
               \/ \E c \in idle : link[c] = "lost" /\ link' = [link EXCEPT ![c] = "up"]
       ELSE /\ aborted' = [aborted EXCEPT ![txnConn[t]] = TRUE]
            /\ link' = [link EXCEPT ![txnConn[t]] = IF @ = "up" THEN "up" ELSE "closed"]
  /\ UNCHANGED <<idle, autocommit, pending, txnConn, blocks, committed, wrote, flat>>

\* Mutants: the connection is not rolled back, or not returned.
CleanNot(c) ==
  /\ UNCHANGED aborted
  /\ pending' = [pending EXCEPT ![c] = Nothing]
  /\ autocommit' = [autocommit EXCEPT ![c] = TRUE]

PutConnNot(c) == UNCHANGED idle

\* commit() or rollback() ends what c was doing, and autocommit is set again.
Clean(c) ==
  /\ pending' = [pending EXCEPT ![c] = Nothing]
  /\ aborted' = [aborted EXCEPT ![c] = FALSE]
  /\ autocommit' = [autocommit EXCEPT ![c] = TRUE]

PutConn(c) == idle' = idle \cup {c}

\* The connection of t's innermost block, and t's way out of that block.
Innermost(t) == blocks[t][Len(blocks[t])]

Leave(t) ==
  LET n == Len(blocks[t])
  IN  /\ blocks' = [blocks EXCEPT ![t] = SubSeq(@, 1, n - 1)]
      /\ wrote' = [wrote EXCEPT ![t] = IF n = 1 THEN Nothing ELSE @]
      /\ flat' = [flat EXCEPT ![t] = n = 1]

\* The finally of transaction().  A lost connection on which no statement has run
\* is not noticed: neither commit() nor rollback() has anything to send.
Release(t) ==
  LET c == Innermost(t)
  IN  /\ \/ link[c] = "up"
         \/ link[c] = "lost" /\ pending[c] = Nothing /\ ~aborted[c]
      /\ Clean(c)
      /\ PutConn(c)
      /\ txnConn' = [txnConn EXCEPT ![t] = NoConn]
      /\ link' = link
      /\ Leave(t)

\* The finally on a connection that is lost by then: the rollback() before it and
\* its own first assignment raise, so that txn_conn stays and putconn is not called.
\* PostgreSQL has dropped what was pending.
Strand(t) ==
  /\ link' = [link EXCEPT ![Innermost(t)] = "closed"]
  /\ pending' = [pending EXCEPT ![Innermost(t)] = Nothing]
  /\ aborted' = [aborted EXCEPT ![Innermost(t)] = TRUE]
  /\ UNCHANGED <<idle, autocommit, txnConn>>
  /\ Leave(t)

\* Its clean exit.  The connection may be lost after the commit and before its
\* answer, so that what was committed is reported as failed.
Commit(t) ==
  /\ InBlock(t)
  /\ LET c == Innermost(t)
     IN  committed' = IF link[c] = "up" /\ ~aborted[c]
                        THEN Over(pending[c], committed)
                        ELSE committed
  /\ Release(t) \/ Strand(t)

\* Its exit by an exception.
Rollback(t) ==
  /\ InBlock(t)
  /\ UNCHANGED committed
  /\ Release(t) \/ Strand(t)

\* The connection breaks, or the server restarts.
Lose(c) ==
  /\ link[c] = "up"
  /\ link' = [link EXCEPT ![c] = "lost"]
  /\ UNCHANGED <<idle, autocommit, aborted, pending, txnConn, blocks, committed, wrote, flat>>

\* Any thread may open blocks, run statements, catch what they raise, and leave.
Next ==
  \/ \E t \in Threads :
       \/ Len(blocks[t]) < MaxDepth /\ Begin(t)
       \/ \E w \in Writes : Execute(t, w)
       \/ Raise(t)
       \/ Commit(t)
       \/ Rollback(t)
  \/ \E c \in Conns : Lose(c)

Spec == Init /\ [][Next]_vars

-----------------------------------------------------------------------------
(***************************************************************************)
(* Properties.                                                             *)
(***************************************************************************)

TypeOK ==
  /\ idle \subseteq Conns
  /\ autocommit \in [Conns -> BOOLEAN]
  /\ aborted \in [Conns -> BOOLEAN]
  /\ pending \in [Conns -> Writes]
  /\ link \in [Conns -> {"up", "lost", "closed"}]
  /\ txnConn \in [Threads -> Conns \cup {NoConn}]
  /\ blocks \in [Threads -> Seq(Conns)]
  /\ committed \in [Cells -> Values]
  /\ wrote \in [Threads -> Writes]
  /\ flat \in [Threads -> BOOLEAN]

Held(c) == \E t \in Threads : \E i \in 1..Len(blocks[t]) : blocks[t][i] = c

\* However blocks nest and fail, no two share a connection, the pool has none of
\* theirs and none that is closed, and a connection leaks only when it is lost
\* inside a block.  A thread whose statements do not run on its innermost block's
\* connection or on borrowed ones remembers one that is closed, so they raise.
ConnectionsAccounted ==
  /\ \A s, t \in Threads : \A i \in 1..Len(blocks[s]), j \in 1..Len(blocks[t]) :
       blocks[s][i] = blocks[t][j] => s = t /\ i = j
  /\ \A c \in idle : ~Held(c) /\ link[c] # "closed"
  /\ \A c \in Conns : c \in idle \/ Held(c) \/ link[c] = "closed"
  /\ \A t \in Threads :
       \/ txnConn[t] = NoConn
       \/ InBlock(t) /\ txnConn[t] = Innermost(t)
       \/ link[txnConn[t]] = "closed"

\* A connection goes back to the pool with nothing pending, no aborted
\* transaction and autocommit on, so the next borrower does not inherit an
\* InFailedSqlTransaction or commit a stranger's writes.
IdleIsClean ==
  \A c \in idle : pending[c] = Nothing /\ ~aborted[c] /\ autocommit[c]

\* A block that opens no other block is all-or-nothing, whatever its statements
\* raise and whichever of that the code inside it swallows.
BlockAllOrNothing(t) ==
  \/ committed' = Over(wrote[t], committed)
  \/ committed' = committed

FlatAllOrNothing ==
  [][\A t \in Threads :
       InBlock(t) /\ flat[t] =>
         IF blocks'[t] = <<>>
           THEN BlockAllOrNothing(t)
           ELSE wrote'[t] # wrote[t] => committed' = committed]_vars
=============================================================================
