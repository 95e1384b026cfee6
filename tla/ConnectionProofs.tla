--------------------------- MODULE ConnectionProofs ---------------------------
(***************************************************************************)
(* Proofs about Connection, for any number of threads, any pool, any rows  *)
(* and any depth of nesting, with connections lost at any moment: its      *)
(* types, where each connection is, that the pool's are clean, and that a  *)
(* block which opens no other is all-or-nothing.                           *)
(***************************************************************************)
EXTENDS Connection, TLAPS

-----------------------------------------------------------------------------
(***************************************************************************)
(* Layers of writes, and the stack of blocks.                              *)
(***************************************************************************)

\* A layer of writes is a function from some cells to values.
LEMMA WritesAre ==
  ASSUME NEW w
  PROVE  w \in Writes <=> \E S \in SUBSET Cells : w \in [S -> Values]
BY DEF Writes

\* Writes over writes are writes, and over a database they are a database.
LEMMA OverWrites ==
  ASSUME NEW v \in Writes, NEW w \in Writes
  PROVE  Over(v, w) \in Writes
<1>1. PICK S \in SUBSET Cells : v \in [S -> Values]
  BY WritesAre
<1>2. PICK T \in SUBSET Cells : w \in [T -> Values]
  BY WritesAre
<1>3. Over(v, w) \in [S \cup T -> Values] /\ S \cup T \in SUBSET Cells
  BY <1>1, <1>2 DEF Over
<1>. QED
  BY <1>3, WritesAre

LEMMA OverDatabase ==
  ASSUME NEW w \in Writes, NEW db \in [Cells -> Values]
  PROVE  Over(w, db) \in [Cells -> Values]
<1>1. PICK S \in SUBSET Cells : w \in [S -> Values]
  BY WritesAre
<1>. QED
  BY <1>1 DEF Over

LEMMA NothingWritten == Nothing \in Writes
<1>1. Nothing \in [{} -> Values]
  BY DEF Nothing
<1>. QED
  BY <1>1, WritesAre

\* Entering a block pushes its connection.
LEMMA Pushed ==
  ASSUME NEW s \in Seq(Conns), NEW c \in Conns
  PROVE  /\ Append(s, c) \in Seq(Conns) /\ Append(s, c) # <<>>
         /\ Len(Append(s, c)) = Len(s) + 1
         /\ \A i \in 1..Len(s) : Append(s, c)[i] = s[i]
         /\ Append(s, c)[Len(s) + 1] = c
OBVIOUS

\* Leaving one pops it.
LEMMA Popped ==
  ASSUME NEW s \in Seq(Conns), s # <<>>
  PROVE  LET r == SubSeq(s, 1, Len(s) - 1)
         IN  /\ r \in Seq(Conns) /\ Len(r) = Len(s) - 1
             /\ \A i \in 1..Len(r) : r[i] = s[i]
             /\ Len(s) \in Nat \ {0} /\ s[Len(s)] \in Conns
OBVIOUS

\* Both ways out of its n-th and innermost block take thread t from c to the blocks r;
Left(t, n, c, r) ==
  /\ n = Len(blocks[t]) /\ c = blocks[t][n]
  /\ Len(r) = n - 1 /\ \A i \in 1..Len(r) : r[i] = blocks[t][i]
  /\ blocks' = [blocks EXCEPT ![t] = r]
  /\ wrote' = [wrote EXCEPT ![t] = IF n = 1 THEN Nothing ELSE @]
  /\ flat' = [flat EXCEPT ![t] = n = 1]

\* one puts c back in the pool,
Returned(t, c) ==
  /\ link[c] = "up" \/ link[c] = "lost"
  /\ idle' = idle \cup {c}
  /\ autocommit' = [autocommit EXCEPT ![c] = TRUE]
  /\ aborted' = [aborted EXCEPT ![c] = FALSE]
  /\ pending' = [pending EXCEPT ![c] = Nothing]
  /\ txnConn' = [txnConn EXCEPT ![t] = NoConn]
  /\ link' = link

\* and one does not.
Leaked(c) ==
  /\ link' = [link EXCEPT ![c] = "closed"]
  /\ aborted' = [aborted EXCEPT ![c] = TRUE]
  /\ pending' = [pending EXCEPT ![c] = Nothing]
  /\ UNCHANGED <<idle, autocommit, txnConn>>

LEMMA EndEffect ==
  ASSUME TypeOK, NEW t \in Threads, Commit(t) \/ Rollback(t)
  PROVE  \E n \in Nat \ {0}, c \in Conns, r \in Seq(Conns) :
           Left(t, n, c, r) /\ (Returned(t, c) \/ Leaked(c))
<1>1. InBlock(t) /\ (Release(t) \/ Strand(t))
  BY DEF Commit, Rollback
<1>2. blocks[t] \in Seq(Conns) /\ blocks[t] # <<>>
  BY <1>1 DEF TypeOK, InBlock
<1> DEFINE n == Len(blocks[t])
           c == blocks[t][n]
           r == SubSeq(blocks[t], 1, n - 1)
<1>3. /\ r \in Seq(Conns) /\ Len(r) = n - 1
      /\ \A i \in 1..Len(r) : r[i] = blocks[t][i]
      /\ n \in Nat \ {0} /\ c \in Conns
  BY <1>2, Popped
<1>4. /\ blocks' = [blocks EXCEPT ![t] = r]
      /\ wrote' = [wrote EXCEPT ![t] = IF n = 1 THEN Nothing ELSE @]
      /\ flat' = [flat EXCEPT ![t] = n = 1]
  BY <1>1 DEF Release, Strand, Leave
<1>5. Returned(t, c) \/ Leaked(c)
  <2>1. ASSUME Release(t) PROVE Returned(t, c)
    BY <2>1 DEF Release, Clean, PutConn, Innermost, Returned
  <2>2. ASSUME Strand(t) PROVE Leaked(c)
    BY <2>2 DEF Strand, Innermost, Leaked
  <2>. QED
    BY <1>1, <2>1, <2>2
<1> HIDE DEF n, c, r
<1>6. n = Len(blocks[t]) /\ c = blocks[t][n]
  BY DEF n, c
<1>7. Left(t, n, c, r)
  BY <1>3, <1>4, <1>6 DEF Left
<1>. QED
  BY <1>3, <1>5, <1>7

\* The steps of Next, by what they do.
LEMMA Steps ==
  ASSUME [Next]_vars
  PROVE  \/ UNCHANGED vars
         \/ \E t \in Threads : Begin(t)
         \/ \E t \in Threads, w \in Writes : Execute(t, w)
         \/ \E t \in Threads : Raise(t)
         \/ \E t \in Threads : Commit(t) \/ Rollback(t)
         \/ \E c \in Conns : Lose(c)
BY DEF Next

-----------------------------------------------------------------------------
(***************************************************************************)
(* Types.                                                                  *)
(***************************************************************************)

LEMMA TypeInit == Init => TypeOK
<1>. SUFFICES ASSUME Init PROVE TypeOK
  OBVIOUS
<1>1. pending \in [Conns -> Writes] /\ wrote \in [Threads -> Writes]
  BY NothingWritten DEF Init
<1>2. committed \in [Cells -> Values]
  BY ConnectionConstants DEF Init
<1>. QED
  BY <1>1, <1>2 DEF Init, TypeOK

LEMMA TypeStep == TypeOK /\ [Next]_vars => TypeOK'
<1>. SUFFICES ASSUME TypeOK, [Next]_vars PROVE TypeOK'
  OBVIOUS
<1>1. CASE UNCHANGED vars
  BY <1>1 DEF TypeOK, vars
<1>2. ASSUME NEW t \in Threads, Begin(t) PROVE TypeOK'
  <2>1. PICK c \in idle :
          /\ idle' = idle \ {c}
          /\ txnConn' = [txnConn EXCEPT ![t] = c]
          /\ autocommit' = [autocommit EXCEPT ![c] = FALSE]
          /\ pending' = [pending EXCEPT ![c] = Nothing]
          /\ aborted' = [aborted EXCEPT ![c] = FALSE]
          /\ blocks' = [blocks EXCEPT ![t] = Append(@, c)]
    BY <1>2 DEF Begin, Remember
  <2>2. c \in Conns /\ blocks[t] \in Seq(Conns)
    BY DEF TypeOK
  <2>3. Append(blocks[t], c) \in Seq(Conns)
    BY <2>2, Pushed
  <2>4. blocks' \in [Threads -> Seq(Conns)]
    BY <2>1, <2>3 DEF TypeOK
  <2>5. pending' \in [Conns -> Writes]
    BY <2>1, NothingWritten DEF TypeOK
  <2>6. wrote' \in [Threads -> Writes]
    BY <1>2, NothingWritten DEF Begin, TypeOK
  <2>7. flat' \in [Threads -> BOOLEAN] /\ committed' \in [Cells -> Values]
    BY <1>2 DEF Begin, TypeOK, InBlock
  <2>8. /\ autocommit' \in [Conns -> BOOLEAN] /\ aborted' \in [Conns -> BOOLEAN]
        /\ link' \in [Conns -> {"up", "lost", "closed"}]
        /\ txnConn' \in [Threads -> Conns \cup {NoConn}] /\ idle' \subseteq Conns
    BY <1>2, <2>1, <2>2 DEF Begin, TypeOK
  <2>. QED
    BY <2>4, <2>5, <2>6, <2>7, <2>8 DEF TypeOK
<1>3. ASSUME NEW t \in Threads, NEW w \in Writes, Execute(t, w) PROVE TypeOK'
  <2>1. Over(w, committed) \in [Cells -> Values]
    BY OverDatabase DEF TypeOK
  <2>2. Over(w, wrote[t]) \in Writes
    BY OverWrites DEF TypeOK
  <2>3. wrote' \in [Threads -> Writes]
    BY <1>3, <2>2 DEF Execute, TypeOK
  <2>4. committed' \in [Cells -> Values]
    BY <1>3, <2>1 DEF Execute, TypeOK
  <2>5. pending' \in [Conns -> Writes]
    <3>1. CASE txnConn[t] = NoConn
      BY <1>3, <3>1 DEF Execute, TypeOK
    <3>2. CASE txnConn[t] # NoConn
      <4>1. txnConn[t] \in Conns
        BY <3>2 DEF TypeOK
      <4>2. Over(w, pending[txnConn[t]]) \in Writes
        BY <4>1, OverWrites DEF TypeOK
      <4>. QED
        BY <1>3, <3>2, <4>2 DEF Execute, TypeOK
    <3>. QED
      BY <3>1, <3>2
  <2>. QED
    BY <1>3, <2>3, <2>4, <2>5 DEF Execute, TypeOK
<1>4. ASSUME NEW t \in Threads, Raise(t) PROVE TypeOK'
  BY <1>4 DEF Raise, TypeOK
<1>5. ASSUME NEW t \in Threads, Commit(t) \/ Rollback(t) PROVE TypeOK'
  <2>1. PICK n \in Nat \ {0}, c \in Conns, r \in Seq(Conns) :
          Left(t, n, c, r) /\ (Returned(t, c) \/ Leaked(c))
    BY <1>5, EndEffect
  <2>2. committed' \in [Cells -> Values]
    <3>1. Over(pending[c], committed) \in [Cells -> Values]
      BY OverDatabase DEF TypeOK
    <3>. QED
      BY <1>5, <2>1, <3>1 DEF Commit, Rollback, Left, Innermost, TypeOK
  <2>3. pending' \in [Conns -> Writes]
    BY <2>1, NothingWritten DEF Returned, Leaked, TypeOK
  <2>4. wrote' \in [Threads -> Writes] /\ flat' \in [Threads -> BOOLEAN]
    BY <2>1, NothingWritten DEF Left, TypeOK
  <2>5. blocks' \in [Threads -> Seq(Conns)]
    BY <2>1 DEF Left, TypeOK
  <2>6. /\ autocommit' \in [Conns -> BOOLEAN] /\ aborted' \in [Conns -> BOOLEAN]
        /\ link' \in [Conns -> {"up", "lost", "closed"}]
        /\ txnConn' \in [Threads -> Conns \cup {NoConn}] /\ idle' \subseteq Conns
    BY <2>1 DEF Returned, Leaked, TypeOK
  <2>. QED
    BY <2>2, <2>3, <2>4, <2>5, <2>6 DEF TypeOK
<1>6. ASSUME NEW c \in Conns, Lose(c) PROVE TypeOK'
  BY <1>6 DEF Lose, TypeOK
<1>. QED
  BY <1>1, <1>2, <1>3, <1>4, <1>5, <1>6, Steps

\* Whatever threads do, the connections and the database stay what they should be.
THEOREM ConnectionTypes == Spec => []TypeOK
BY TypeInit, TypeStep, PTL DEF Spec

-----------------------------------------------------------------------------
(***************************************************************************)
(* The pool.  Where connections are and that the pool's are clean hold     *)
(* each other up: a statement could soil a connection of the pool if its   *)
(* thread remembered one, and a closed one could be handed out.            *)
(***************************************************************************)

PoolInv == ConnectionsAccounted /\ IdleIsClean

\* A connection a thread remembers is not in the pool, and one that is not closed
\* is that of its innermost block.
LEMMA Remembered ==
  ASSUME TypeOK, PoolInv, NEW t \in Threads, txnConn[t] # NoConn
  PROVE  /\ txnConn[t] \in Conns \ idle
         /\ link[txnConn[t]] # "closed" =>
              InBlock(t) /\ txnConn[t] = Innermost(t) /\ Len(blocks[t]) \in 1..Len(blocks[t])
<1>1. txnConn[t] \in Conns /\ blocks[t] \in Seq(Conns)
  BY DEF TypeOK
<1>2. CASE link[txnConn[t]] = "closed"
  BY <1>1, <1>2 DEF PoolInv, ConnectionsAccounted
<1>3. CASE link[txnConn[t]] # "closed"
  <2>1. InBlock(t) /\ txnConn[t] = Innermost(t)
    BY <1>3 DEF PoolInv, ConnectionsAccounted
  <2>2. Len(blocks[t]) \in 1..Len(blocks[t])
    BY <1>1, <2>1 DEF InBlock
  <2>3. Held(txnConn[t])
    BY <2>1, <2>2 DEF Held, Innermost
  <2>. QED
    BY <1>1, <2>1, <2>2, <2>3 DEF PoolInv, ConnectionsAccounted
<1>. QED
  BY <1>2, <1>3

\* No thread holds a connection before the first step.
LEMMA PoolInit == Init => PoolInv
<1>. SUFFICES ASSUME Init PROVE PoolInv
  OBVIOUS
<1>1. \A t \in Threads : Len(blocks[t]) = 0 /\ txnConn[t] = NoConn
  BY DEF Init
<1>2. \A c \in Conns : ~Held(c)
  BY <1>1 DEF Held
<1>. QED
  BY <1>1, <1>2 DEF Init, PoolInv, ConnectionsAccounted, IdleIsClean

LEMMA PoolBegin ==
  ASSUME TypeOK, PoolInv, NEW t \in Threads, Begin(t)
  PROVE  PoolInv'
<1>0. \A s \in Threads : blocks[s] \in Seq(Conns) /\ Len(blocks[s]) \in Nat
  BY DEF TypeOK
<1>1. PICK c \in idle :
        /\ idle' = idle \ {c}
        /\ txnConn' = [txnConn EXCEPT ![t] = c]
        /\ autocommit' = [autocommit EXCEPT ![c] = FALSE]
        /\ pending' = [pending EXCEPT ![c] = Nothing]
        /\ aborted' = [aborted EXCEPT ![c] = FALSE]
        /\ blocks' = [blocks EXCEPT ![t] = Append(@, c)]
        /\ link' = link
  BY DEF Begin, Remember
<1>2. c \in Conns
  BY DEF TypeOK
<1>3. /\ blocks'[t] = Append(blocks[t], c)
      /\ \A s \in Threads \ {t} : blocks'[s] = blocks[s]
  BY <1>1 DEF TypeOK
<1>4. /\ blocks'[t] # <<>> /\ Len(blocks'[t]) = Len(blocks[t]) + 1
      /\ \A i \in 1..Len(blocks[t]) : blocks'[t][i] = blocks[t][i]
      /\ blocks'[t][Len(blocks[t]) + 1] = c
  BY <1>3, <1>2, <1>0, Pushed
<1>5. \A s \in Threads : \A i \in 1..Len(blocks'[s]) :
        \/ i \in 1..Len(blocks[s]) /\ blocks'[s][i] = blocks[s][i]
        \/ s = t /\ i = Len(blocks[t]) + 1 /\ blocks'[s][i] = c
  BY <1>3, <1>4, <1>0
<1>6. \A s \in Threads : \A i \in 1..Len(blocks[s]) :
        i \in 1..Len(blocks'[s]) /\ blocks'[s][i] = blocks[s][i]
  BY <1>3, <1>4, <1>0
<1>7. ~Held(c)
  BY <1>1 DEF PoolInv, ConnectionsAccounted
<1>8. \A d \in Conns : Held(d)' <=> Held(d) \/ d = c
  <2>1. Held(c)'
    <3>1. Len(blocks[t]) + 1 \in 1..Len(blocks'[t])
      BY <1>4, <1>0
    <3>. QED
      BY <3>1, <1>4 DEF Held
  <2>2. ASSUME NEW d \in Conns, Held(d) PROVE Held(d)'
    BY <2>2, <1>6 DEF Held
  <2>3. ASSUME NEW d \in Conns, Held(d)', d # c PROVE Held(d)
    BY <2>3, <1>5 DEF Held
  <2>. QED
    BY <2>1, <2>2, <2>3
<1>9. ASSUME NEW s \in Threads, NEW u \in Threads,
             NEW i \in 1..Len(blocks'[s]), NEW j \in 1..Len(blocks'[u]),
             blocks'[s][i] = blocks'[u][j]
      PROVE  s = u /\ i = j
  BY <1>5, <1>7, <1>9 DEF PoolInv, ConnectionsAccounted, Held
<1>10. \A s \in Threads :
         \/ txnConn'[s] = NoConn
         \/ InBlock(s)' /\ txnConn'[s] = Innermost(s)'
         \/ link'[txnConn'[s]] = "closed"
  <2>1. ASSUME NEW s \in Threads, s # t
        PROVE  txnConn'[s] = txnConn[s] /\ InBlock(s)' = InBlock(s) /\ Innermost(s)' = Innermost(s)
    BY <1>1, <1>3, <2>1 DEF InBlock, Innermost, TypeOK
  <2>2. InBlock(t)' /\ txnConn'[t] = Innermost(t)'
    BY <1>1, <1>4 DEF InBlock, Innermost, TypeOK
  <2>. QED
    BY <1>1, <2>1, <2>2 DEF PoolInv, ConnectionsAccounted
<1>11. ConnectionsAccounted'
  <2>1. \A d \in idle' : ~Held(d)' /\ link'[d] # "closed"
    BY <1>1, <1>8 DEF PoolInv, ConnectionsAccounted, TypeOK
  <2>2. \A d \in Conns : d \in idle' \/ Held(d)' \/ link'[d] = "closed"
    BY <1>1, <1>8 DEF PoolInv, ConnectionsAccounted
  <2>. QED
    BY <1>9, <1>10, <2>1, <2>2 DEF ConnectionsAccounted
<1>12. IdleIsClean'
  BY <1>1 DEF PoolInv, IdleIsClean, TypeOK
<1>. QED
  BY <1>11, <1>12 DEF PoolInv

LEMMA PoolEnd ==
  ASSUME TypeOK, PoolInv, NEW t \in Threads, Commit(t) \/ Rollback(t)
  PROVE  PoolInv'
<1>0. \A s \in Threads : blocks[s] \in Seq(Conns) /\ Len(blocks[s]) \in Nat
  BY DEF TypeOK
<1>1. PICK n \in Nat \ {0}, c \in Conns, r \in Seq(Conns) :
        Left(t, n, c, r) /\ (Returned(t, c) \/ Leaked(c))
  BY EndEffect
<1>2. blocks'[t] = r /\ \A s \in Threads \ {t} : blocks'[s] = blocks[s]
  BY <1>1 DEF Left, TypeOK
<1>3. n \in 1..Len(blocks[t]) /\ blocks[t][n] = c
  BY <1>1 DEF Left
<1>4. \A s \in Threads : \A i \in 1..Len(blocks'[s]) :
        /\ i \in 1..Len(blocks[s]) /\ blocks'[s][i] = blocks[s][i]
        /\ s = t => i # n
  <2>1. ASSUME NEW i \in 1..Len(r)
        PROVE  i \in 1..Len(blocks[t]) /\ r[i] = blocks[t][i] /\ i # n
    <3>1. n = Len(blocks[t]) /\ Len(r) = n - 1 /\ r[i] = blocks[t][i]
      BY <1>1 DEF Left
    <3>. QED
      BY <3>1
  <2>. QED
    BY <1>2, <2>1
<1>5. \A s \in Threads : \A i \in 1..Len(blocks[s]) :
        \/ i \in 1..Len(blocks'[s]) /\ blocks'[s][i] = blocks[s][i]
        \/ s = t /\ i = n
  BY <1>1, <1>2, <1>0 DEF Left
<1>6. \A d \in Conns : Held(d)' <=> Held(d) /\ d # c
  <2>1. ~Held(c)'
    BY <1>3, <1>4 DEF Held, PoolInv, ConnectionsAccounted
  <2>2. ASSUME NEW d \in Conns, Held(d)' PROVE Held(d)
    BY <2>2, <1>4 DEF Held
  <2>3. ASSUME NEW d \in Conns, Held(d), d # c PROVE Held(d)'
    BY <2>3, <1>3, <1>5 DEF Held
  <2>. QED
    BY <2>1, <2>2, <2>3
<1>7. Held(c)
  BY <1>3 DEF Held
<1>8. ASSUME NEW s \in Threads, NEW u \in Threads,
             NEW i \in 1..Len(blocks'[s]), NEW j \in 1..Len(blocks'[u]),
             blocks'[s][i] = blocks'[u][j]
      PROVE  s = u /\ i = j
  BY <1>4, <1>8 DEF PoolInv, ConnectionsAccounted
<1>9. \A s \in Threads \ {t} : InBlock(s)' = InBlock(s) /\ Innermost(s)' = Innermost(s)
  BY <1>2 DEF InBlock, Innermost
<1>10. CASE Returned(t, c)
  <2>1. /\ idle' = idle \cup {c} /\ link' = link /\ link[c] # "closed"
        /\ txnConn' = [txnConn EXCEPT ![t] = NoConn]
    BY <1>10 DEF Returned
  <2>2. ConnectionsAccounted'
    BY <1>6, <1>8, <1>9, <2>1 DEF PoolInv, ConnectionsAccounted, TypeOK
  <2>3. IdleIsClean'
    BY <1>10 DEF Returned, PoolInv, IdleIsClean, TypeOK
  <2>. QED
    BY <2>2, <2>3 DEF PoolInv
<1>11. CASE Leaked(c)
  <2>1. /\ idle' = idle /\ txnConn' = txnConn
        /\ \A d \in Conns : link'[d] = IF d = c THEN "closed" ELSE link[d]
    BY <1>11 DEF Leaked, TypeOK
  <2>2. c \notin idle
    BY <1>7 DEF PoolInv, ConnectionsAccounted
  <2>3. \A s \in Threads :
          \/ txnConn'[s] = NoConn
          \/ InBlock(s)' /\ txnConn'[s] = Innermost(s)'
          \/ link'[txnConn'[s]] = "closed"
    <3>1. ASSUME NEW s \in Threads, link[txnConn[s]] = "closed", txnConn[s] # NoConn
          PROVE  link'[txnConn'[s]] = "closed"
      BY <3>1, <2>1 DEF TypeOK
    <3>2. ASSUME InBlock(t), txnConn[t] = Innermost(t)
          PROVE  link'[txnConn'[t]] = "closed"
      BY <3>2, <1>1, <2>1 DEF Left, Innermost
    <3>. QED
      BY <3>1, <3>2, <2>1, <1>9 DEF PoolInv, ConnectionsAccounted
  <2>4. \A d \in idle' : ~Held(d)' /\ link'[d] # "closed"
    BY <1>6, <2>1, <2>2 DEF PoolInv, ConnectionsAccounted, TypeOK
  <2>5. \A d \in Conns : d \in idle' \/ Held(d)' \/ link'[d] = "closed"
    BY <1>6, <2>1 DEF PoolInv, ConnectionsAccounted
  <2>6. ConnectionsAccounted'
    BY <1>8, <2>3, <2>4, <2>5 DEF ConnectionsAccounted
  <2>7. IdleIsClean'
    BY <1>11, <2>2 DEF Leaked, PoolInv, IdleIsClean, TypeOK
  <2>. QED
    BY <2>6, <2>7 DEF PoolInv
<1>. QED
  BY <1>1, <1>10, <1>11

\* Every step keeps it.
LEMMA PoolStep == TypeOK /\ PoolInv /\ [Next]_vars => PoolInv'
<1>. SUFFICES ASSUME TypeOK, PoolInv, [Next]_vars PROVE PoolInv'
  OBVIOUS
<1>1. ASSUME UNCHANGED <<idle, txnConn, blocks>>,
             \A c \in Conns : link'[c] # "closed" <=> link[c] # "closed" \/ c \in idle
      PROVE  ConnectionsAccounted'
  <2>1. /\ \A c \in Conns : Held(c)' = Held(c)
        /\ \A t \in Threads : InBlock(t)' = InBlock(t) /\ Innermost(t)' = Innermost(t)
    BY <1>1 DEF Held, InBlock, Innermost
  <2>2. \A c \in Conns : link'[c] # "closed" <=> link[c] # "closed"
    BY <1>1 DEF PoolInv, ConnectionsAccounted
  <2>3. \A t \in Threads : txnConn[t] # NoConn => txnConn[t] \in Conns
    BY DEF TypeOK
  <2>. QED
    BY <1>1, <2>1, <2>2, <2>3 DEF PoolInv, ConnectionsAccounted, TypeOK
<1>2. CASE UNCHANGED vars
  BY <1>2 DEF PoolInv, ConnectionsAccounted, IdleIsClean, InBlock, Innermost, Held, vars
<1>3. ASSUME NEW t \in Threads, NEW w \in Writes, Execute(t, w) PROVE PoolInv'
  <2>1. link' = link /\ UNCHANGED <<idle, txnConn, blocks>>
    BY <1>3 DEF Execute
  <2>2. ConnectionsAccounted'
    BY <2>1 DEF PoolInv, ConnectionsAccounted, InBlock, Innermost, Held
  <2>3. \A c \in idle : pending'[c] = pending[c]
    BY <1>3, Remembered DEF Execute, TypeOK
  <2>4. IdleIsClean'
    BY <1>3, <2>3 DEF Execute, PoolInv, IdleIsClean
  <2>. QED
    BY <2>2, <2>4 DEF PoolInv
<1>4. ASSUME NEW t \in Threads, Raise(t) PROVE PoolInv'
  <2>1. UNCHANGED <<idle, txnConn, blocks, pending, autocommit>>
    BY <1>4 DEF Raise
  <2>2. \A c \in idle : aborted'[c] = aborted[c]
    BY <1>4, Remembered DEF Raise, TypeOK
  <2>3. IdleIsClean'
    BY <2>1, <2>2 DEF PoolInv, IdleIsClean
  <2>4. CASE txnConn[t] = NoConn
    <3>1. \A c \in Conns : link'[c] # "closed" <=> link[c] # "closed" \/ c \in idle
      BY <1>4, <2>4 DEF Raise, PoolInv, ConnectionsAccounted, TypeOK
    <3>. QED
      BY <1>1, <2>1, <2>3, <3>1 DEF PoolInv
  <2>5. CASE txnConn[t] # NoConn
    <3>1. /\ txnConn[t] \in Conns /\ txnConn[t] \notin idle
          /\ \/ link[txnConn[t]] = "closed" \/ Held(txnConn[t])
      BY <2>5, Remembered DEF Held, Innermost
    <3>2. \A c \in Conns : link'[c] = IF c = txnConn[t] THEN (IF link[c] = "up" THEN "up" ELSE "closed")
                                     ELSE link[c]
      BY <1>4, <2>5 DEF Raise, TypeOK
    <3>3. /\ \A c \in Conns : Held(c)' = Held(c)
          /\ \A s \in Threads : InBlock(s)' = InBlock(s) /\ Innermost(s)' = Innermost(s)
      BY <2>1 DEF Held, InBlock, Innermost
    <3>4. \A s \in Threads : txnConn[s] # NoConn => txnConn[s] \in Conns
      BY DEF TypeOK
    <3>5. ConnectionsAccounted'
      <4>1. \A c \in Conns : link[c] = "closed" => link'[c] = "closed"
        BY <3>2
      <4>2. \A c \in idle : link'[c] # "closed"
        BY <3>1, <3>2 DEF PoolInv, ConnectionsAccounted, TypeOK
      <4>3. \A c \in idle' : ~Held(c)' /\ link'[c] # "closed"
        BY <2>1, <3>3, <4>2 DEF PoolInv, ConnectionsAccounted, TypeOK
      <4>4. \A c \in Conns : c \in idle' \/ Held(c)' \/ link'[c] = "closed"
        BY <2>1, <3>3, <4>1 DEF PoolInv, ConnectionsAccounted
      <4>5. \A s \in Threads :
              \/ txnConn'[s] = NoConn
              \/ InBlock(s)' /\ txnConn'[s] = Innermost(s)'
              \/ link'[txnConn'[s]] = "closed"
        BY <2>1, <3>3, <3>4, <4>1 DEF PoolInv, ConnectionsAccounted
      <4>6. \A s, u \in Threads : \A i \in 1..Len(blocks'[s]), j \in 1..Len(blocks'[u]) :
              blocks'[s][i] = blocks'[u][j] => s = u /\ i = j
        BY <2>1 DEF PoolInv, ConnectionsAccounted
      <4>. QED
        BY <4>3, <4>4, <4>5, <4>6 DEF ConnectionsAccounted
    <3>. QED
      BY <2>3, <3>5 DEF PoolInv
  <2>. QED
    BY <2>4, <2>5
<1>5. ASSUME NEW c \in Conns, Lose(c) PROVE PoolInv'
  <2>1. UNCHANGED <<idle, txnConn, blocks, pending, autocommit, aborted>>
    BY <1>5 DEF Lose
  <2>2. \A d \in Conns : link'[d] # "closed" <=> link[d] # "closed" \/ d \in idle
    BY <1>5 DEF Lose, PoolInv, ConnectionsAccounted, TypeOK
  <2>3. IdleIsClean'
    BY <2>1 DEF PoolInv, IdleIsClean
  <2>. QED
    BY <1>1, <2>1, <2>2, <2>3 DEF PoolInv
<1>. QED
  BY <1>2, <1>3, <1>4, <1>5, PoolBegin, PoolEnd, Steps

\* No two blocks share a connection, the pool has none of theirs and none that is
\* closed, and transaction() leaks a connection only if it loses it.
THEOREM Accounted == Spec => []ConnectionsAccounted
<1>1. PoolInv => ConnectionsAccounted
  BY DEF PoolInv
<1>. QED
  BY <1>1, TypeInit, TypeStep, PoolInit, PoolStep, PTL DEF Spec

\* What the pool hands out has nothing pending, is not aborted and autocommits.
THEOREM PoolIsClean == Spec => []IdleIsClean
<1>1. PoolInv => IdleIsClean
  BY DEF PoolInv
<1>. QED
  BY <1>1, TypeInit, TypeStep, PoolInit, PoolStep, PTL DEF Spec

-----------------------------------------------------------------------------
(***************************************************************************)
(* All or nothing.                                                         *)
(***************************************************************************)

\* In a block that has opened no other, what the thread has written is what its
\* connection has pending, lost or not.
FlatInv ==
  \A t \in Threads :
    InBlock(t) /\ flat[t] =>
      /\ Len(blocks[t]) = 1
      /\ txnConn[t] = blocks[t][1]
      /\ wrote[t] = pending[blocks[t][1]]

LEMMA FlatInit == Init => FlatInv
BY DEF Init, FlatInv, InBlock

LEMMA FlatStep == TypeOK /\ PoolInv /\ FlatInv /\ [Next]_vars => FlatInv'
<1>. SUFFICES ASSUME TypeOK, PoolInv, FlatInv, [Next]_vars,
                     NEW s \in Threads, InBlock(s)', flat'[s]
              PROVE  /\ Len(blocks'[s]) = 1
                     /\ txnConn'[s] = blocks'[s][1]
                     /\ wrote'[s] = pending'[blocks'[s][1]]
  BY DEF FlatInv
<1>0. blocks[s] \in Seq(Conns)
  BY DEF TypeOK
<1>1. CASE UNCHANGED vars
  BY <1>1 DEF FlatInv, InBlock, vars
<1>2. ASSUME NEW t \in Threads, Begin(t)
      PROVE  /\ Len(blocks'[s]) = 1
             /\ txnConn'[s] = blocks'[s][1]
             /\ wrote'[s] = pending'[blocks'[s][1]]
  <2>1. PICK c \in idle :
          /\ txnConn' = [txnConn EXCEPT ![t] = c]
          /\ pending' = [pending EXCEPT ![c] = Nothing]
          /\ blocks' = [blocks EXCEPT ![t] = Append(@, c)]
    BY <1>2 DEF Begin, Remember
  <2>2. /\ c \in Conns
        /\ wrote' = [wrote EXCEPT ![t] = IF InBlock(t) THEN @ ELSE Nothing]
        /\ flat' = [flat EXCEPT ![t] = ~InBlock(t)]
    BY <1>2 DEF Begin, TypeOK
  <2>3. CASE s = t
    <3>1. blocks[s] = <<>> /\ wrote'[s] = Nothing
      BY <2>2, <2>3 DEF TypeOK, InBlock
    <3>2. blocks'[s] = Append(<<>>, c) /\ txnConn'[s] = c
      BY <2>1, <2>3, <3>1 DEF TypeOK
    <3>3. Len(blocks'[s]) = 1 /\ blocks'[s][1] = c
      BY <3>2, <2>2
    <3>. QED
      BY <2>1, <2>2, <3>1, <3>2, <3>3 DEF TypeOK
  <2>4. CASE s # t
    <3>1. /\ blocks'[s] = blocks[s] /\ flat[s] /\ txnConn'[s] = txnConn[s]
          /\ wrote'[s] = wrote[s]
      BY <2>1, <2>2, <2>4 DEF TypeOK
    <3>2. Len(blocks[s]) = 1
      BY <3>1 DEF FlatInv, InBlock
    <3>3. 1 \in 1..Len(blocks[s])
      BY <3>2
    <3>4. blocks[s][1] # c
      BY <2>1, <3>3 DEF PoolInv, ConnectionsAccounted, Held
    <3>. QED
      BY <2>1, <3>1, <3>4, <1>0 DEF FlatInv, InBlock, TypeOK
  <2>. QED
    BY <2>3, <2>4
<1>3. ASSUME NEW t \in Threads, NEW w \in Writes, Execute(t, w)
      PROVE  /\ Len(blocks'[s]) = 1
             /\ txnConn'[s] = blocks'[s][1]
             /\ wrote'[s] = pending'[blocks'[s][1]]
  <2>1. /\ blocks' = blocks /\ flat' = flat /\ txnConn' = txnConn
        /\ wrote' = [wrote EXCEPT ![t] = IF InBlock(t) THEN Over(w, @) ELSE @]
        /\ txnConn[t] = NoConn => pending' = pending
        /\ txnConn[t] # NoConn => pending' = [pending EXCEPT ![txnConn[t]] = Over(w, @)]
    BY <1>3 DEF Execute
  <2>2. /\ Len(blocks[s]) = 1 /\ txnConn[s] = blocks[s][1]
        /\ wrote[s] = pending[blocks[s][1]] /\ InBlock(s)
        /\ txnConn[s] \in Conns /\ txnConn[s] # NoConn
    BY <2>1, <1>0, ConnectionConstants DEF FlatInv, InBlock
  <2>3. CASE s = t
    BY <2>1, <2>2, <2>3 DEF TypeOK
  <2>4. CASE s # t
    <3>1. txnConn[t] # txnConn[s]
      <4>1. CASE txnConn[t] = NoConn
        BY <4>1, <2>2
      <4>2. CASE txnConn[t] # NoConn
        <5>1. /\ txnConn[t] = blocks[t][Len(blocks[t])]
              /\ Len(blocks[t]) \in 1..Len(blocks[t])
          BY <1>3, <4>2, Remembered DEF Execute, Innermost
        <5>. QED
          BY <5>1, <2>2, <2>4 DEF PoolInv, ConnectionsAccounted
      <4>. QED
        BY <4>1, <4>2
    <3>. QED
      BY <2>1, <2>2, <2>4, <3>1 DEF TypeOK
  <2>. QED
    BY <2>3, <2>4
<1>4. ASSUME NEW t \in Threads, Raise(t)
      PROVE  /\ Len(blocks'[s]) = 1
             /\ txnConn'[s] = blocks'[s][1]
             /\ wrote'[s] = pending'[blocks'[s][1]]
  BY <1>4 DEF Raise, FlatInv, InBlock
<1>5. ASSUME NEW t \in Threads, Commit(t) \/ Rollback(t)
      PROVE  /\ Len(blocks'[s]) = 1
             /\ txnConn'[s] = blocks'[s][1]
             /\ wrote'[s] = pending'[blocks'[s][1]]
  <2>1. PICK n \in Nat \ {0}, c \in Conns, r \in Seq(Conns) :
          Left(t, n, c, r) /\ (Returned(t, c) \/ Leaked(c))
    BY <1>5, EndEffect
  <2>2. s # t
    <3>1. SUFFICES ASSUME s = t PROVE FALSE
      OBVIOUS
    <3>2. n = 1 /\ blocks'[s] = r
      BY <2>1, <3>1 DEF Left, TypeOK
    <3>3. r = <<>>
      BY <2>1, <3>2 DEF Left
    <3>. QED
      BY <3>2, <3>3 DEF InBlock
  <2>3. blocks'[s] = blocks[s] /\ flat[s] /\ wrote'[s] = wrote[s]
    BY <2>1, <2>2 DEF Left, TypeOK
  <2>4. txnConn'[s] = txnConn[s]
    BY <2>1, <2>2 DEF Returned, Leaked, TypeOK
  <2>5. /\ Len(blocks[s]) = 1 /\ txnConn[s] = blocks[s][1]
        /\ wrote[s] = pending[blocks[s][1]]
    BY <2>3 DEF FlatInv, InBlock
  <2>6. blocks[s][1] # c
    <3>1. n \in 1..Len(blocks[t]) /\ 1 \in 1..Len(blocks[s]) /\ blocks[t][n] = c
      BY <2>1, <2>5 DEF Left
    <3>. QED
      BY <2>2, <3>1 DEF PoolInv, ConnectionsAccounted
  <2>7. blocks[s] \in Seq(Conns) /\ 1 \in 1..Len(blocks[s])
    BY <2>5, <1>0
  <2>8. blocks[s][1] \in Conns /\ pending'[blocks[s][1]] = pending[blocks[s][1]]
    BY <2>1, <2>6, <2>7 DEF Returned, Leaked, TypeOK
  <2>. QED
    BY <2>3, <2>4, <2>5, <2>8
<1>6. ASSUME NEW c \in Conns, Lose(c)
      PROVE  /\ Len(blocks'[s]) = 1
             /\ txnConn'[s] = blocks'[s][1]
             /\ wrote'[s] = pending'[blocks'[s][1]]
  BY <1>6 DEF Lose, FlatInv, InBlock
<1>. QED
  BY <1>1, <1>2, <1>3, <1>4, <1>5, <1>6, Steps

\* Leaving the only block leaves none.
LEMMA LastLeft ==
  ASSUME TypeOK, NEW t \in Threads, Len(blocks[t]) = 1, Commit(t) \/ Rollback(t)
  PROVE  blocks'[t] = <<>>
<1>1. PICK n \in Nat \ {0}, c \in Conns, r \in Seq(Conns) :
        Left(t, n, c, r) /\ (Returned(t, c) \/ Leaked(c))
  BY EndEffect
<1>2. blocks'[t] = r /\ Len(r) = 0
  BY <1>1 DEF Left, TypeOK
<1>. QED
  BY <1>1, <1>2

\* What one step does to the block of one thread.
LEMMA BlockStep ==
  ASSUME TypeOK, PoolInv, FlatInv, Next, NEW s \in Threads, InBlock(s), flat[s]
  PROVE  IF blocks'[s] = <<>>
           THEN BlockAllOrNothing(s)
           ELSE wrote'[s] # wrote[s] => committed' = committed
<1>0. /\ Len(blocks[s]) = 1 /\ txnConn[s] = blocks[s][1]
      /\ wrote[s] = pending[blocks[s][1]]
      /\ txnConn[s] \in Conns /\ txnConn[s] # NoConn
  BY ConnectionConstants DEF FlatInv, InBlock, TypeOK
<1>1. ASSUME NEW t \in Threads, Begin(t) \/ Raise(t) PROVE committed' = committed
  BY <1>1 DEF Begin, Raise
<1>2. ASSUME NEW t \in Threads, NEW w \in Writes, Execute(t, w)
      PROVE  /\ blocks'[s] = blocks[s]
             /\ wrote'[s] # wrote[s] => committed' = committed
  BY <1>2, <1>0 DEF Execute, TypeOK
<1>3. ASSUME NEW t \in Threads, Commit(t) \/ Rollback(t)
      PROVE  IF blocks'[s] = <<>>
               THEN BlockAllOrNothing(s)
               ELSE wrote'[s] # wrote[s] => committed' = committed
  <2>1. CASE s = t
    <3>1. committed' = committed \/ committed' = Over(pending[blocks[s][1]], committed)
      BY <1>3, <1>0, <2>1 DEF Commit, Rollback, Innermost
    <3>2. blocks'[s] = <<>>
      BY <1>3, <2>1, <1>0, LastLeft
    <3>. QED
      BY <3>1, <3>2, <1>0 DEF BlockAllOrNothing
  <2>2. CASE s # t
    <3>1. blocks'[s] = blocks[s] /\ wrote'[s] = wrote[s]
      BY <1>3, <2>2 DEF Commit, Rollback, Release, Strand, Leave, TypeOK
    <3>. QED
      BY <3>1 DEF InBlock
  <2>. QED
    BY <2>1, <2>2
<1>4. ASSUME NEW c \in Conns, Lose(c) PROVE committed' = committed
  BY <1>4 DEF Lose
<1>. QED
  BY <1>1, <1>2, <1>3, <1>4 DEF Next, InBlock, BlockAllOrNothing

\* A transaction() block that opens no other commits all it wrote, at its end, or
\* nothing, whichever of its statements raise, whatever is caught inside it and
\* whenever its connection is lost.
THEOREM FlatBlocks == Spec => FlatAllOrNothing
<1>1. TypeOK /\ PoolInv /\ FlatInv /\ [Next]_vars =>
        [\A t \in Threads :
           InBlock(t) /\ flat[t] =>
             IF blocks'[t] = <<>>
               THEN BlockAllOrNothing(t)
               ELSE wrote'[t] # wrote[t] => committed' = committed]_vars
  BY BlockStep
<1>. QED
  BY <1>1, TypeInit, TypeStep, PoolInit, PoolStep, FlatInit, FlatStep, PTL
  DEF Spec, FlatAllOrNothing
=============================================================================
