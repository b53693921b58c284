------------------------- MODULE AdminWritesProofs -------------------------
(***************************************************************************)
(* That the audit trail tells the tables, that a PATCH keeps what it does  *)
(* not set, and that the interleaved transactions implement atomic audited *)
(* writes (AuditedStore), for any number of administrators, requests and   *)
(* rows.                                                                   *)
(*                                                                         *)
(* All rest on the row locks: who wrote a row is the only one to change it *)
(* until its transaction ends (Locked), so what it wrote and what was      *)
(* committed before stay as they were when the audit row is drawn (Made,   *)
(* Kept), and no audit row about the row comes between (Drawn). The        *)
(* refinement, further down, adds what the unique indexes keep (OneLive,   *)
(* OneName) and what a transaction has done when it commits (Others, Ids). *)
(***************************************************************************)
EXTENDS AdminWrites, TLAPS

\* t has written its row and has not ended.
Holding(t) == tx[t].pc \in {"actor", "audit", "commit"}

\* What a running request was sent with.
Asked == \A t \in Txs : tx[t].pc # "idle" =>
    /\ tx[t].actor \in Admins
    /\ tx[t].on \in Subs \cup Rows
    /\ tx[t].op \in {"create", "patch", "delete"}
    /\ tx[t].op = "create" => tx[t].arg \in CreateArgs
    /\ tx[t].op = "patch" => tx[t].arg \in PatchArgs
    /\ tx[t].on \in Subs => tx[t].op = "create"

Locked ==
    /\ \A x \in Rows : lock[x] # None => Holding(lock[x])
    /\ \A t \in Txs : Holding(t) => tx[t].row \in Rows /\ lock[tx[t].row] = t

Made == \A t \in Txs : Holding(t) =>
    newest[tx[t].row].st = IF tx[t].op = "delete" THEN "gone" ELSE "live"

Kept == \A t \in Txs : Holding(t) /\ tx[t].op = "patch" =>
    /\ tx[t].row = tx[t].on
    /\ \A c \in (1..2) \ DOMAIN tx[t].arg :
         newest[tx[t].row].val[c] = rows[tx[t].row].val[c]

\* The actor's own row is not the one the request wrote.
Apart == \A t \in Txs : tx[t].pc = "actor" => tx[t].row \notin RowsOf(tx[t].actor)

Drawn == \A t \in Txs : tx[t].pc = "commit" =>
    /\ tx[t].id < nextId
    /\ \A e \in log : e.target = tx[t].row => e.id < tx[t].id

IInv == TypeOK /\ Asked /\ Locked /\ Made /\ Kept /\ Apart /\ Drawn /\ AuditTracksRow

-----------------------------------------------------------------------------
\* COALESCE of a PATCH body gives a row's columns again.
LEMMA CoalesceType ==
    ASSUME NEW arg \in CreateArgs \cup PatchArgs, NEW val \in Columns
    PROVE  Coalesce(arg, val) \in Columns
<1>1. PICK S \in SUBSET (1..2) : arg \in [S -> Vals]
  BY AdminAssumption DEF Columns
<1> QED
  BY <1>1, Zenon DEF Coalesce, Columns

\* A live row version is made of its columns.
LEMMA LiveImage ==
    ASSUME NEW im \in Image
    PROVE  /\ im.st = "live" => im = Live(im.val)
           /\ \A v \in Columns : Live(v) \in Image /\ Live(v).st = "live" /\ Live(v).val = v
           /\ im.val \in Columns
  BY Zenon DEF Image, Live

\* A statement that does not wait writes a row that nobody else has locked.
LEMMA Unlocked ==
    ASSUME TypeOK, NEW t \in Txs, ~Blocked(t), NEW x \in Rows, x \in Needed(t)
    PROVE  lock[x] \in {None, t}
  BY Zenon DEF TypeOK, Blocked, WaitsFor

\* The row a request names is one its write needs.
LEMMA TargetNeeded ==
    ASSUME NEW t \in Txs, tx[t].pc = "write", tx[t].on \in Rows
    PROVE  tx[t].on \in Needed(t)
  BY AdminAssumption, Zenon DEF Needed

\* The invariant holds before any request.
LEMMA InitInv == Init => IInv
<1> SUFFICES ASSUME Init PROVE IInv
  BY Zenon
<1>1. Idle \in TxRec
  BY Zenon DEF Idle, TxRec
<1>2. TypeOK
  BY <1>1, Zenon DEF Init, TypeOK
<1>3. \A t \in Txs : tx[t].pc = "idle"
  BY Zenon DEF Init, Idle
<1>4. Asked /\ Locked /\ Made /\ Kept /\ Apart /\ Drawn
  BY <1>3, Zenon DEF Init, Asked, Locked, Made, Kept, Apart, Drawn, Holding
<1>5. AuditTracksRow
  BY Zenon DEF Init, AuditTracksRow
<1> QED
  BY <1>2, <1>4, <1>5, Zenon DEF IInv

\* A request that begins holds nothing.
LEMMA BeginInv ==
    ASSUME IInv, NEW t \in Txs, NEW a \in Admins, NEW op \in {"create", "patch", "delete"},
           NEW on \in Subs \cup Rows, NEW arg \in Args(op), Begin(t, a, op, on, arg)
    PROVE  IInv'
<1> DEFINE new == [Idle EXCEPT !.pc = IF op = "create" /\ on \notin Subs THEN "write" ELSE "read",
                               !.actor = a, !.op = op, !.on = on, !.arg = arg]
<1>1. tx' = [tx EXCEPT ![t] = new]
  BY Zenon DEF Begin
<1>2. UNCHANGED <<rows, newest, lock, log, nextId, touched>>
  BY Zenon DEF Begin
<1>3. /\ op = "create" => arg \in CreateArgs
      /\ op = "patch" => arg \in PatchArgs
      /\ arg \in CreateArgs \cup PatchArgs \cup {<<>>}
  BY DEF Args
<1>4. /\ new \in TxRec
      /\ new.pc \in {"write", "read"} /\ new.actor = a /\ new.op = op /\ new.on = on /\ new.arg = arg
  BY <1>3, Zenon DEF Idle, TxRec
<1>5. on \in Subs => op = "create"
  BY DEF Begin
<1>6. TypeOK /\ tx[t].pc = "idle"
  BY DEF IInv, Begin, Idle
<1> HIDE DEF new
<1>7. tx \in [Txs -> TxRec]
  BY <1>6 DEF TypeOK
<1>8. tx'[t] = new /\ \A o \in Txs \ {t} : tx'[o] = tx[o]
  BY <1>1, <1>7
<1>9. TypeOK'
  BY <1>1, <1>2, <1>4, <1>6 DEF TypeOK
<1>10. Asked'
  BY <1>3, <1>4, <1>5, <1>8, Zenon DEF IInv, Asked
<1>11. \A o \in Txs : Holding(o)' => o # t /\ Holding(o)
  BY <1>4, <1>8, Zenon DEF Holding
<1>12. \A o \in Txs : Holding(o) => o # t
  BY <1>6, Zenon DEF Holding
<1>13. Locked'
  BY <1>2, <1>6, <1>8, <1>11, <1>12 DEF IInv, Locked, Holding, TypeOK
<1>14. Made' /\ Kept'
  BY <1>2, <1>8, <1>11 DEF IInv, Made, Kept
<1>15. Apart' /\ Drawn'
  BY <1>2, <1>4, <1>8 DEF IInv, Apart, Drawn
<1>16. AuditTracksRow'
  BY <1>2, Zenon DEF IInv, AuditTracksRow
<1> QED
  BY <1>9, <1>10, <1>13, <1>14, <1>15, <1>16, Zenon DEF IInv

\* A rollback gives the rows it wrote back as they were committed.
LEMMA RollbackInv ==
    ASSUME IInv, NEW t \in Txs, Rollback(t)
    PROVE  IInv'
<1>1. TypeOK
  BY Zenon DEF IInv
<1>2. UNCHANGED <<rows, log, nextId, touched>>
  BY Zenon DEF Rollback
<1>3. Idle \in TxRec /\ Idle.pc = "idle"
  BY Zenon DEF Idle, TxRec
<1>4. tx'[t] = Idle /\ \A o \in Txs \ {t} : tx'[o] = tx[o]
  BY <1>1, Zenon DEF Rollback, TypeOK
<1>5. TypeOK'
  BY <1>1, <1>2, <1>3, Zenon DEF TypeOK, Rollback
<1>6. Asked'
  BY <1>3, <1>4, Zenon DEF IInv, Asked
<1>7. \A o \in Txs : Holding(o)' => o # t /\ Holding(o)
  BY <1>3, <1>4, Zenon DEF Holding
<1>8. \A o \in Txs : Holding(o)' =>
        /\ tx'[o] = tx[o] /\ tx[o].row \in Rows
        /\ lock[tx[o].row] = o /\ lock'[tx[o].row] = o
        /\ newest'[tx[o].row] = newest[tx[o].row]
  BY <1>4, <1>7, ZenonT(30) DEF IInv, Locked, Rollback
<1>9. \A x \in Rows : lock'[x] # None => lock'[x] = lock[x] /\ lock[x] \in Txs \ {t}
  BY <1>1, Zenon DEF Rollback, TypeOK
<1>10. Locked'
  BY <1>4, <1>8, <1>9 DEF IInv, Locked, Holding
<1>11. Made'
  BY <1>7, <1>8 DEF IInv, Made
<1>12. Kept'
  BY <1>2, <1>7, <1>8 DEF IInv, Kept
<1>13. Apart' /\ Drawn'
  BY <1>2, <1>3, <1>4, Zenon DEF IInv, Apart, Drawn
<1>14. AuditTracksRow'
  BY <1>2, Zenon DEF IInv, AuditTracksRow
<1> QED
  BY <1>5, <1>6, <1>10, <1>11, <1>12, <1>13, <1>14, Zenon DEF IInv

\* A write to a row that nobody else has locked leaves what the others wrote.
LEMMA WroteFrame ==
    ASSUME IInv, NEW t \in Txs, NEW x \in Rows, NEW im \in Image, NEW p \in {"actor", "audit"},
           lock[x] \in {None, t}, tx[t].pc \in {"write", "actor"}, Wrote(t, x, im, p)
    PROVE  /\ TypeOK' /\ Asked' /\ AuditTracksRow'
           /\ UNCHANGED <<rows, log, nextId, touched>>
           /\ \A o \in Txs \ {t} : tx'[o] = tx[o]
           /\ tx'[t].pc = p /\ tx'[t].row = IF tx[t].pc = "write" THEN x ELSE tx[t].row
           /\ tx'[t].op = tx[t].op /\ tx'[t].on = tx[t].on
           /\ tx'[t].arg = tx[t].arg /\ tx'[t].actor = tx[t].actor
           /\ newest'[x] = im /\ lock'[x] = t
           /\ \A y \in Rows \ {x} : newest'[y] = newest[y] /\ lock'[y] = lock[y]
           /\ \A o \in Txs \ {t} : Holding(o) => tx[o].row \in Rows \ {x}
<1>1. TypeOK
  BY Zenon DEF IInv
<1>2. UNCHANGED <<rows, log, nextId, touched>>
  BY Zenon DEF Wrote
<1>3. tx \in [Txs -> TxRec]
  BY <1>1, Zenon DEF TypeOK
<1>4. \A o \in Txs \ {t} : tx'[o] = tx[o]
  BY <1>3, Zenon DEF Wrote
<1>5. tx'[t] = [tx[t] EXCEPT !.pc = p, !.row = IF tx[t].pc = "write" THEN x ELSE @]
  BY <1>3, Zenon DEF Wrote
<1>6. /\ tx'[t].pc = p /\ tx'[t].row = IF tx[t].pc = "write" THEN x ELSE tx[t].row
      /\ tx'[t].op = tx[t].op /\ tx'[t].on = tx[t].on
      /\ tx'[t].arg = tx[t].arg /\ tx'[t].actor = tx[t].actor
      /\ tx'[t] \in TxRec
  BY <1>3, <1>5, ZenonT(30) DEF TxRec
<1>7. tx' \in [Txs -> TxRec]
  BY <1>3, <1>4, <1>6 DEF Wrote
<1>8. /\ newest'[x] = im /\ lock'[x] = t
      /\ \A y \in Rows \ {x} : newest'[y] = newest[y] /\ lock'[y] = lock[y]
      /\ newest' \in [Rows -> Image] /\ lock' \in [Rows -> Txs \cup {None}]
  BY <1>1 DEF Wrote, TypeOK
<1>9. TypeOK'
  BY <1>1, <1>2, <1>7, <1>8 DEF TypeOK
<1>10. Asked'
  BY <1>4, <1>6 DEF IInv, Asked
<1>11. AuditTracksRow'
  BY <1>2, Zenon DEF IInv, AuditTracksRow
<1>12. \A o \in Txs \ {t} : Holding(o) => tx[o].row \in Rows \ {x}
  BY AdminAssumption DEF IInv, Locked
<1> QED
  BY <1>2, <1>4, <1>6, <1>8, <1>9, <1>10, <1>11, <1>12, Zenon

\* The handler's own write of the row the request is about.
LEMMA WriteInv ==
    ASSUME IInv, NEW t \in Txs, NEW x \in Rows, NEW im \in Image, NEW p \in {"actor", "audit"},
           lock[x] \in {None, t}, tx[t].pc = "write", Wrote(t, x, im, p),
           p = "actor" => x \notin RowsOf(tx[t].actor),
           im.st = IF tx[t].op = "delete" THEN "gone" ELSE "live",
           tx[t].op = "patch" =>
               x = tx[t].on /\ \A c \in (1..2) \ DOMAIN tx[t].arg : im.val[c] = rows[x].val[c]
    PROVE  IInv'
<1>1. /\ TypeOK' /\ Asked' /\ AuditTracksRow'
      /\ UNCHANGED <<rows, log, nextId, touched>>
      /\ \A o \in Txs \ {t} : tx'[o] = tx[o]
      /\ tx'[t].pc = p /\ tx'[t].row = x
      /\ tx'[t].op = tx[t].op /\ tx'[t].on = tx[t].on
      /\ tx'[t].arg = tx[t].arg /\ tx'[t].actor = tx[t].actor
      /\ newest'[x] = im /\ lock'[x] = t
      /\ \A y \in Rows \ {x} : newest'[y] = newest[y] /\ lock'[y] = lock[y]
      /\ \A o \in Txs \ {t} : Holding(o) => tx[o].row \in Rows \ {x}
  BY WroteFrame
<1>2. \A o \in Txs \ {t} : Holding(o)' <=> Holding(o)
  BY <1>1, Zenon DEF Holding
<1>3. Holding(t)' /\ ~Holding(t)
  BY <1>1, Zenon DEF Holding
<1>4. Locked'
  <2>1. \A y \in Rows : lock'[y] # None => Holding(lock[y])'
    <3> SUFFICES ASSUME NEW y \in Rows, lock'[y] # None PROVE Holding(lock[y])'
      BY Zenon
    <3>1. CASE y = x
      BY <1>1, <1>3, <3>1, ZenonT(30)
    <3>2. CASE y # x
      <4>1. lock'[y] = lock[y] /\ lock[y] \in Txs /\ Holding(lock[y])
        BY <1>1, <3>2 DEF IInv, Locked, TypeOK
      <4> QED
        BY <4>1, <1>2, <1>3, Zenon
    <3> QED
      BY <3>1, <3>2, Zenon
  <2>2. \A o \in Txs : Holding(o)' => tx'[o].row \in Rows /\ lock'[tx'[o].row] = o
    BY <1>1, <1>2 DEF IInv, Locked
  <2> QED
    BY <2>1, <2>2, Zenon DEF Locked
<1>5. Made'
  BY <1>1, <1>2 DEF IInv, Made
<1>6. Kept'
  BY <1>1, <1>2 DEF IInv, Kept
<1>7. Apart' /\ Drawn'
  BY <1>1 DEF IInv, Apart, Drawn, RowsOf
<1> QED
  BY <1>1, <1>4, <1>5, <1>6, <1>7, Zenon DEF IInv

\* tx_upsert_actor writes another row than the one the request is about.
LEMMA ActorInv ==
    ASSUME IInv, NEW t \in Txs, NEW x \in Rows, NEW im \in Image,
           lock[x] \in {None, t}, tx[t].pc = "actor", x \in RowsOf(tx[t].actor),
           Wrote(t, x, im, "audit")
    PROVE  IInv'
<1>1. /\ TypeOK' /\ Asked' /\ AuditTracksRow'
      /\ UNCHANGED <<rows, log, nextId, touched>>
      /\ \A o \in Txs \ {t} : tx'[o] = tx[o]
      /\ tx'[t].pc = "audit" /\ tx'[t].row = tx[t].row
      /\ tx'[t].op = tx[t].op /\ tx'[t].on = tx[t].on
      /\ tx'[t].arg = tx[t].arg /\ tx'[t].actor = tx[t].actor
      /\ newest'[x] = im /\ lock'[x] = t
      /\ \A y \in Rows \ {x} : newest'[y] = newest[y] /\ lock'[y] = lock[y]
      /\ \A o \in Txs \ {t} : Holding(o) => tx[o].row \in Rows \ {x}
  BY WroteFrame, SMTT(30)
<1>2. \A o \in Txs : Holding(o)' <=> Holding(o)
  BY <1>1 DEF Holding
<1>3. Holding(t)' /\ Holding(t)
  BY <1>1, Zenon DEF Holding
<1>4. \A o \in Txs : Holding(o) => tx[o].row \in Rows \ {x} /\ tx'[o].row = tx[o].row
  BY <1>1 DEF IInv, Locked, Apart
<1>5. Locked'
  <2>1. \A y \in Rows : lock'[y] # None => Holding(lock[y])'
    BY <1>1, <1>2, <1>3 DEF IInv, Locked, TypeOK
  <2>2. \A o \in Txs : Holding(o)' => tx'[o].row \in Rows /\ lock'[tx'[o].row] = o
    BY <1>1, <1>2, <1>4, SMTT(30) DEF IInv, Locked
  <2> QED
    BY <2>1, <2>2, Zenon DEF Locked
<1>6. \A o \in Txs : tx'[o].op = tx[o].op /\ tx'[o].on = tx[o].on /\ tx'[o].arg = tx[o].arg
  BY <1>1, Zenon
<1>7. Made'
  BY <1>1, <1>2, <1>4, <1>6, SMTT(30) DEF IInv, Made
<1>8. Kept'
  BY <1>1, <1>2, <1>4, <1>6, SMTT(30) DEF IInv, Kept
<1>9. Apart' /\ Drawn'
  BY <1>1 DEF IInv, Apart, Drawn, RowsOf
<1> QED
  BY <1>1, <1>5, <1>7, <1>8, <1>9, Zenon DEF IInv

\* The audit row of t has a higher id than any about the row t holds.
LEMMA LogInv ==
    ASSUME IInv, NEW t \in Txs, LogAudit(t)
    PROVE  IInv'
<1>1. TypeOK /\ tx \in [Txs -> TxRec] /\ nextId \in Nat
  BY Zenon DEF IInv, TypeOK
<1>2. UNCHANGED <<rows, newest, lock, log, touched>> /\ nextId' = nextId + 1 /\ tx[t].pc = "audit"
  BY Zenon DEF LogAudit
<1>3. \A o \in Txs \ {t} : tx'[o] = tx[o]
  BY <1>1, Zenon DEF LogAudit
<1>4. tx'[t] = [tx[t] EXCEPT !.pc = "commit", !.id = nextId]
  BY <1>1, Zenon DEF LogAudit
<1>5. /\ tx'[t].pc = "commit" /\ tx'[t].id = nextId /\ tx'[t].row = tx[t].row
      /\ tx'[t].op = tx[t].op /\ tx'[t].on = tx[t].on
      /\ tx'[t].arg = tx[t].arg /\ tx'[t].actor = tx[t].actor
      /\ tx'[t] \in TxRec
  BY <1>1, <1>4, ZenonT(30) DEF TxRec
<1>6. tx' \in [Txs -> TxRec]
  BY <1>1, <1>3, <1>5 DEF LogAudit
<1>7. TypeOK'
  BY <1>1, <1>2, <1>6 DEF TypeOK
<1>8. Asked'
  BY <1>2, <1>3, <1>5 DEF IInv, Asked
<1>9. \A o \in Txs : Holding(o)' <=> Holding(o)
  BY <1>2, <1>3, <1>5 DEF Holding
<1>10. \A o \in Txs : /\ tx'[o].op = tx[o].op /\ tx'[o].on = tx[o].on
                      /\ tx'[o].arg = tx[o].arg /\ tx'[o].row = tx[o].row
  BY <1>3, <1>5, ZenonT(30)
<1>11. Locked'
  BY <1>1, <1>2, <1>9, <1>10 DEF IInv, Locked, TypeOK
<1>12. Made' /\ Kept'
  BY <1>2, <1>9, <1>10 DEF IInv, Made, Kept
<1>13. Apart'
  BY <1>3, <1>5, ZenonT(30) DEF IInv, Apart
<1>14. Drawn'
  <2>1. \A e \in log : e.id < nextId
    BY <1>1, Zenon DEF TypeOK
  <2>2. \A o \in Txs \ {t} : tx[o].id \in Nat
    BY <1>1, Zenon DEF TxRec
  <2> QED
    BY <1>1, <1>2, <1>3, <1>5, <2>1, <2>2 DEF IInv, Drawn
<1>15. AuditTracksRow'
  BY <1>2, ZenonT(30) DEF IInv, AuditTracksRow
<1> QED
  BY <1>7, <1>8, <1>11, <1>12, <1>13, <1>14, <1>15, Zenon DEF IInv

\* What a COMMIT of t changes.
LEMMA CommitFrame ==
    ASSUME IInv, NEW t \in Txs, Commit(t)
    PROVE  /\ tx[t].pc = "commit" /\ tx'[t] = Idle
           /\ \A o \in Txs \ {t} : \/ tx'[o] = tx[o]
                                   \/ tx[o].pc = "write" /\ tx'[o] = [tx[o] EXCEPT !.raced = TRUE]
           /\ \A x \in Rows : lock[x] = t => rows'[x] = newest[x] /\ lock'[x] = None
           /\ \A x \in Rows : lock[x] # t => rows'[x] = rows[x] /\ lock'[x] = lock[x]
           /\ \A x \in Rows \ {tx[t].row} : x \in touched' <=> (x \in touched \/ lock[x] = t)
           /\ log' = log \cup {Entry(t)} /\ newest' = newest /\ nextId' = nextId
           /\ TypeOK'
<1>1. TypeOK /\ tx \in [Txs -> TxRec] /\ tx[t].pc = "commit"
  BY Zenon DEF IInv, TypeOK, Commit
<1> DEFINE mine == {x \in Rows : lock[x] = t}
<1>2. /\ rows' = [x \in Rows |-> IF x \in mine THEN newest[x] ELSE rows[x]]
      /\ lock' = [x \in Rows |-> IF x \in mine THEN None ELSE lock[x]]
      /\ log' = log \cup {Entry(t)}
      /\ touched' = (touched \ {tx[t].row}) \cup (mine \ {tx[t].row})
      /\ newest' = newest /\ nextId' = nextId
  BY Zenon DEF Commit
<1>3. tx'[t] = Idle
  BY Zenon DEF Commit
<1>4. \A o \in Txs \ {t} : \/ tx'[o] = tx[o]
                           \/ tx[o].pc = "write" /\ tx'[o] = [tx[o] EXCEPT !.raced = TRUE]
  BY Zenon DEF Commit
<1>5. Idle \in TxRec
  BY Zenon DEF Idle, TxRec
<1>6. \A o \in Txs : tx[o] \in TxRec /\ [tx[o] EXCEPT !.raced = TRUE] \in TxRec
  BY <1>1, ZenonT(30) DEF TxRec
<1>7. tx' \in [Txs -> TxRec]
  BY <1>3, <1>4, <1>5, <1>6 DEF Commit
<1>8. rows' \in [Rows -> Image] /\ lock' \in [Rows -> Txs \cup {None}] /\ touched' \subseteq Rows
  BY <1>1, <1>2 DEF TypeOK
<1>9. Entry(t).id \in Nat /\ Entry(t).id < nextId /\ Entry(t).target \in Rows
  BY <1>1 DEF IInv, Entry, Drawn, Locked, Holding, TxRec
<1>10. TypeOK'
  BY <1>1, <1>2, <1>7, <1>8, <1>9, Zenon DEF TypeOK
<1> QED
  BY <1>1, <1>2, <1>3, <1>4, <1>10

\* The committed row is the one its audit row describes; the rows of the
\* others, and what their audit rows will say, are not touched.
LEMMA CommitInv ==
    ASSUME IInv, NEW t \in Txs, Commit(t)
    PROVE  IInv'
<1>1. /\ tx[t].pc = "commit" /\ tx'[t] = Idle
      /\ \A o \in Txs \ {t} : \/ tx'[o] = tx[o]
                              \/ tx[o].pc = "write" /\ tx'[o] = [tx[o] EXCEPT !.raced = TRUE]
      /\ log' = log \cup {Entry(t)} /\ newest' = newest /\ nextId' = nextId
      /\ TypeOK'
  BY CommitFrame
<1>2. \A x \in Rows : lock[x] = t => rows'[x] = newest[x] /\ lock'[x] = None
  BY CommitFrame
<1>3. \A x \in Rows : lock[x] # t => rows'[x] = rows[x] /\ lock'[x] = lock[x]
  BY CommitFrame
<1>4. tx \in [Txs -> TxRec] /\ Idle.pc = "idle"
  BY DEF IInv, TypeOK, Idle
<1>5. \A o \in Txs \ {t} :
        /\ tx'[o].pc = tx[o].pc /\ tx'[o].row = tx[o].row /\ tx'[o].id = tx[o].id
        /\ tx'[o].op = tx[o].op /\ tx'[o].on = tx[o].on
        /\ tx'[o].arg = tx[o].arg /\ tx'[o].actor = tx[o].actor
  BY <1>1, <1>4, ZenonT(30) DEF TxRec
<1>6. Asked'
  BY <1>1, <1>4, <1>5 DEF IInv, Asked
<1>7. ~Holding(t)' /\ Holding(t) /\ \A o \in Txs \ {t} : Holding(o)' <=> Holding(o)
  BY <1>1, <1>4, <1>5 DEF Holding
<1>8. \A o \in Txs \ {t} : Holding(o) =>
        /\ tx[o].row \in Rows /\ lock[tx[o].row] = o /\ lock'[tx[o].row] = o
        /\ rows'[tx[o].row] = rows[tx[o].row]
  BY <1>3 DEF IInv, Locked
<1>9. Locked'
  <2>1. \A y \in Rows : lock'[y] # None => Holding(lock[y])'
    BY <1>2, <1>3, <1>7 DEF IInv, Locked, TypeOK
  <2>2. \A o \in Txs : Holding(o)' => tx'[o].row \in Rows /\ lock'[tx'[o].row] = o
    BY <1>5, <1>7, <1>8
  <2> QED
    BY <2>1, <2>2 DEF Locked
<1>10. Made'
  BY <1>1, <1>5, <1>7 DEF IInv, Made
<1>11. Kept'
  BY <1>1, <1>5, <1>7, <1>8 DEF IInv, Kept
<1>12. Apart'
  BY <1>1, <1>4, <1>5 DEF IInv, Apart
<1>13. Drawn'
  <2>1. Entry(t).target = tx[t].row /\ lock[tx[t].row] = t
    BY <1>7, Zenon DEF IInv, Entry, Locked
  <2>2. ASSUME NEW o \in Txs, tx'[o].pc = "commit", NEW e \in log', e.target = tx'[o].row
        PROVE  e.id < tx'[o].id
    <3>1. o # t /\ tx[o].pc = "commit" /\ tx'[o].row = tx[o].row /\ tx'[o].id = tx[o].id
      BY <1>1, <1>4, <1>5, <2>2, Zenon
    <3>2. Entry(t).target # tx[o].row
      BY <1>8, <2>1, <3>1, Zenon DEF Holding
    <3> QED
      BY <1>1, <2>2, <3>1, <3>2, ZenonT(30) DEF IInv, Drawn
  <2> QED
    BY <1>1, <1>4, <1>5, <2>2, Zenon DEF IInv, Drawn
<1>14. AuditTracksRow'
  <2> DEFINE r == tx[t].row
  <2>1. r \in Rows /\ lock[r] = t /\ newest[r] \in Image
    BY <1>7, Zenon DEF IInv, Locked, TypeOK
  <2>2. /\ Entry(t).target = r /\ Entry(t).id = tx[t].id
        /\ Entry(t).action = "delete" <=> tx[t].op = "delete"
        /\ tx[t].op # "delete" => Entry(t).after = newest[r].val
    BY ZenonT(30) DEF Entry
  <2>3. \A e \in log : e.target = r => e.id < tx[t].id
    BY <1>1, Zenon DEF IInv, Drawn
  <2>4. IF tx[t].op = "delete" THEN rows'[r].st = "gone" ELSE rows'[r] = Live(newest[r].val)
    BY <1>2, <1>7, <2>1, LiveImage, Zenon DEF IInv, Made
  <2>5. \A e \in log : e.id \in Nat /\ e.target \in Rows
    BY ZenonT(30) DEF IInv, TypeOK
  <2>6. tx[t].id \in Nat
    BY <1>4 DEF TxRec
  <2> SUFFICES ASSUME NEW e \in log', \A f \in log' : f.target = e.target => f.id <= e.id
               PROVE  \/ e.target \in touched'
                      \/ IF e.action = "delete" THEN rows'[e.target].st = "gone"
                                                ELSE rows'[e.target] = Live(e.after)
    BY ZenonT(30) DEF AuditTracksRow
  <2>7. CASE e = Entry(t)
    BY <2>2, <2>4, <2>7
  <2>8. CASE e # Entry(t)
    <3>1. e \in log /\ Entry(t) \in log' /\ log \subseteq log'
      BY <1>1, <2>8
    <3>2. e.target # r
      BY <2>2, <2>3, <2>5, <2>6, <3>1
    <3>3. \/ e.target \in touched
          \/ IF e.action = "delete" THEN rows[e.target].st = "gone"
                                    ELSE rows[e.target] = Live(e.after)
      BY <3>1, ZenonT(30) DEF IInv, AuditTracksRow
    <3>4. e.target \in touched' <=> (e.target \in touched \/ lock[e.target] = t)
      BY <2>5, <3>1, <3>2, CommitFrame
    <3> QED
      BY <1>3, <2>5, <3>1, <3>3, <3>4
  <2> QED
    BY <2>7, <2>8, Zenon
<1> QED
  BY <1>1, <1>6, <1>9, <1>10, <1>11, <1>12, <1>13, <1>14 DEF IInv

\* The handlers upsert the actor only when the row written is not the actor's.
LEMMA AfterWriteApart ==
    ASSUME NEW t \in Txs, NEW x \in Rows, tx[t].on \in Subs \cup Rows,
           IF tx[t].on \in Subs THEN x \in RowsOf(tx[t].on) ELSE x = tx[t].on
    PROVE  /\ AfterWrite(t) \in {"actor", "audit"}
           /\ AfterWrite(t) = "actor" => x \notin RowsOf(tx[t].actor)
  BY AdminAssumption DEF AfterWrite, UsersRequest, TargetSub, RowsOf, Rows

\* A transaction that has written nothing sees the committed rows.
LEMMA SeenCommitted ==
    ASSUME IInv, NEW t \in Txs, tx[t].pc = "write", NEW x \in Rows
    PROVE  Seen(t, x) = rows[x] /\ rows[x] \in Image
  BY AdminAssumption DEF IInv, Locked, Holding, Seen, TypeOK

\* What a request that writes a row by its id may take for granted.
LEMMA WriteFacts ==
    ASSUME IInv, NEW t \in Txs, tx[t].pc = "write", ~Blocked(t), tx[t].on \notin Subs
    PROVE  /\ tx[t].on \in Rows /\ lock[tx[t].on] \in {None, t}
           /\ AfterWrite(t) \in {"actor", "audit"}
           /\ AfterWrite(t) = "actor" => tx[t].on \notin RowsOf(tx[t].actor)
<1>1. TypeOK /\ tx[t].on \in Rows
  BY ZenonT(30) DEF IInv, Asked
<1> QED
  BY <1>1, TargetNeeded, Unlocked, AfterWriteApart, ZenonT(30)

\* The SELECT of the row as it was takes no lock.
LEMMA ReadInv ==
    ASSUME IInv, NEW t \in Txs, ReadBefore(t)
    PROVE  IInv'
<1> DEFINE found == IF tx[t].on \in Subs THEN LiveRowsOf(t, tx[t].on)
                    ELSE {x \in {tx[t].on} : Seen(t, x).st = "live"}
           before == IF found = {} THEN None ELSE CHOOSE x \in found : TRUE
           was == IF found = {} THEN <<>> ELSE rows[CHOOSE x \in found : TRUE].val
<1>1. CASE Rollback(t)
  BY <1>1, RollbackInv
<1>2. CASE ~Rollback(t)
  <2>1. /\ tx[t].pc = "read"
        /\ tx' = [tx EXCEPT ![t].pc = "write", ![t].before = before, ![t].was = was]
        /\ UNCHANGED <<rows, newest, lock, log, nextId, touched>>
    BY <1>2, ZenonT(30) DEF ReadBefore
  <2>2. TypeOK /\ tx \in [Txs -> TxRec] /\ tx[t].on \in Subs \cup Rows
    BY <2>1, Zenon DEF IInv, TypeOK, Asked
  <2>3. found \subseteq Rows
    BY <2>2, ZenonT(30) DEF LiveRowsOf, RowsOf, Rows
  <2>4. PICK b \in Rows \cup {None} : b = before
    BY <2>3, ZenonT(30)
  <2>5. PICK w \in Columns \cup {<<>>} : w = was
    BY <2>2, <2>3, LiveImage, Zenon DEF TypeOK
  <2> HIDE DEF found, before, was
  <2>6. \A o \in Txs \ {t} : tx'[o] = tx[o]
    BY <2>1, <2>2
  <2>7. tx'[t] = [tx[t] EXCEPT !.pc = "write", !.before = b, !.was = w]
    BY <2>1, <2>2, <2>4, <2>5
  <2>8. /\ tx'[t].pc = "write" /\ tx'[t].op = tx[t].op /\ tx'[t].on = tx[t].on
        /\ tx'[t].arg = tx[t].arg /\ tx'[t].actor = tx[t].actor
        /\ tx'[t] \in TxRec
    <3>1. tx[t] \in TxRec
      BY <2>2
    <3> QED
      BY <2>7, <3>1, ZenonT(30) DEF TxRec
  <2>9. tx' \in [Txs -> TxRec]
    BY <2>1, <2>2, <2>6, <2>8
  <2>10. TypeOK'
    BY <2>1, <2>2, <2>9, Zenon DEF TypeOK
  <2>11. Asked'
    BY <2>1, <2>6, <2>8, ZenonT(30) DEF IInv, Asked
  <2>12. ~Holding(t)' /\ ~Holding(t) /\ \A o \in Txs \ {t} : Holding(o)' <=> Holding(o)
    BY <2>1, <2>6, <2>8, Zenon DEF Holding
  <2>13. Locked'
    BY <2>1, <2>2, <2>6, <2>12 DEF IInv, Locked, TypeOK
  <2>14. Made' /\ Kept'
    <3>1. \A o \in Txs : Holding(o)' => Holding(o) /\ tx'[o] = tx[o]
      BY <2>6, <2>12, Zenon
    <3>2. newest' = newest /\ rows' = rows
      BY <2>1, ZenonT(30)
    <3>3. Made'
      BY <3>1, <3>2, SMTT(30) DEF IInv, Made
    <3>4. Kept'
      BY <3>1, <3>2 DEF IInv, Kept
    <3> QED
      BY <3>3, <3>4, Zenon
  <2>15. Apart' /\ Drawn'
    BY <2>1, <2>6, <2>8, ZenonT(30) DEF IInv, Apart, Drawn
  <2>16. AuditTracksRow'
    BY <2>1 DEF IInv, AuditTracksRow
  <2> QED
    BY <2>10, <2>11, <2>13, <2>14, <2>15, <2>16, SMTT(30) DEF IInv
<1> QED
  BY <1>1, <1>2, ZenonT(30)

\* Every statement of the handlers preserves the invariant.
LEMMA StepInv ==
    ASSUME IInv, NEW t \in Txs, Step(t)
    PROVE  IInv'
<1>1. CASE ReadBefore(t)
  BY <1>1, ReadInv
<1>2. CASE UpsertUser(t)
  <2>1. tx[t].pc = "write" /\ tx[t].on \in Subs /\ ~Blocked(t)
    BY <1>2, Zenon DEF UpsertUser
  <2>2. PICK x \in RowsOf(tx[t].on) : Wrote(t, x, Live(tx[t].arg), AfterWrite(t))
    BY <1>2, Zenon DEF UpsertUser, Upsert
  <2>3. x \in Rows /\ x \in Needed(t)
    BY <2>1, <2>2, ZenonT(30) DEF RowsOf, Rows, Needed
  <2>4. lock[x] \in {None, t}
    BY <2>1, <2>3, Unlocked, Zenon DEF IInv
  <2>5. tx[t].op = "create" /\ tx[t].arg \in Columns
    BY <2>1, AdminAssumption, Zenon DEF IInv, Asked
  <2>6. Live(tx[t].arg) \in Image /\ Live(tx[t].arg).st = "live"
    BY <2>5, Zenon DEF Image, Live
  <2>7. /\ AfterWrite(t) \in {"actor", "audit"}
        /\ AfterWrite(t) = "actor" => x \notin RowsOf(tx[t].actor)
    BY <2>1, <2>2, <2>3, AfterWriteApart, Zenon
  <2> QED
    BY <2>1, <2>2, <2>3, <2>4, <2>5, <2>6, <2>7, WriteInv, Zenon
<1>3. CASE InsertGrant(t) \/ InsertDatabase(t)
  <2>1. tx[t].pc = "write" /\ ~Blocked(t) /\ tx[t].op = "create" /\ tx[t].on \notin Subs
    BY <1>3, AdminAssumption, Zenon DEF InsertGrant, InsertDatabase, Rows
  <2>2. CASE Rollback(t)
    BY <2>2, RollbackInv
  <2>3. CASE Wrote(t, tx[t].on, Live(tx[t].arg), AfterWrite(t))
    <3>1. tx[t].arg \in Columns
      BY <2>1, AdminAssumption, Zenon DEF IInv, Asked
    <3>2. Live(tx[t].arg) \in Image /\ Live(tx[t].arg).st = "live"
      BY <3>1, Zenon DEF Image, Live
    <3> QED
      BY <2>1, <2>3, <3>2, WriteFacts, WriteInv, SMTT(30)
  <2> QED
    BY <1>3, <2>2, <2>3, Zenon DEF InsertGrant, InsertDatabase
<1>4. CASE UpdateRow(t)
  <2>1. tx[t].pc = "write" /\ ~Blocked(t) /\ tx[t].op = "patch" /\ tx[t].on \notin Subs
    BY <1>4, Zenon DEF UpdateRow, IInv, Asked
  <2>2. CASE Rollback(t)
    BY <2>2, RollbackInv
  <2> DEFINE v == Coalesce(tx[t].arg, Seen(t, tx[t].on).val)
  <2>3. CASE Wrote(t, tx[t].on, Live(v), AfterWrite(t))
    <3>1. tx[t].on \in Rows /\ tx[t].arg \in PatchArgs
      BY <2>1, Zenon DEF IInv, Asked
    <3>2. Seen(t, tx[t].on) = rows[tx[t].on] /\ rows[tx[t].on].val \in Columns
      BY <2>1, <3>1, SeenCommitted, LiveImage, ZenonT(30)
    <3>3. v \in Columns
      BY <3>1, <3>2, CoalesceType, Zenon
    <3>4. Live(v) \in Image /\ Live(v).st = "live" /\ Live(v).val = v
      BY <3>3, Zenon DEF Image, Live
    <3>5. \A c \in (1..2) \ DOMAIN tx[t].arg : v[c] = rows[tx[t].on].val[c]
      BY <3>2, Zenon DEF Coalesce
    <3> HIDE DEF v
    <3> QED
      BY <2>1, <2>3, <3>1, <3>4, <3>5, WriteFacts, WriteInv, ZenonT(30)
  <2> QED
    BY <1>4, <2>2, <2>3, Zenon DEF UpdateRow
<1>5. CASE SoftDelete(t)
  <2>1. tx[t].pc = "write" /\ ~Blocked(t) /\ tx[t].op = "delete" /\ tx[t].on \notin Subs
    BY <1>5, Zenon DEF SoftDelete, IInv, Asked
  <2>2. CASE Rollback(t)
    BY <2>2, RollbackInv
  <2> DEFINE im == [st |-> "gone", val |-> Seen(t, tx[t].on).val]
  <2>3. CASE Wrote(t, tx[t].on, im, AfterWrite(t))
    <3>1. tx[t].on \in Rows
      BY <2>1, Zenon DEF IInv, Asked
    <3>2. im \in Image /\ im.st = "gone"
      BY <2>1, <3>1, SeenCommitted, Zenon DEF Image
    <3> HIDE DEF im
    <3> QED
      BY <2>1, <2>3, <3>1, <3>2, WriteFacts, WriteInv
  <2> QED
    BY <1>5, <2>2, <2>3, Zenon DEF SoftDelete
<1>6. CASE UpsertActor(t)
  <2>1. tx[t].pc = "actor" /\ ~Blocked(t)
    BY <1>6, Zenon DEF UpsertActor
  <2>2. PICK x \in RowsOf(tx[t].actor) : Wrote(t, x, Live(Snapshot[tx[t].actor]), "audit")
    BY <1>6, Zenon DEF UpsertActor, Upsert
  <2>3. x \in Rows /\ x \in Needed(t)
    BY <2>1, <2>2, Zenon DEF RowsOf, Rows, Needed
  <2>4. lock[x] \in {None, t}
    BY <2>1, <2>3, Unlocked, Zenon DEF IInv
  <2>5. Snapshot[tx[t].actor] \in Columns
    BY <2>1, AdminAssumption, Zenon DEF IInv, Asked
  <2>6. Live(Snapshot[tx[t].actor]) \in Image
    BY <2>5, Zenon DEF Image, Live
  <2> QED
    BY <2>1, <2>2, <2>3, <2>4, <2>6, ActorInv, Zenon
<1>7. CASE LogAudit(t)
  BY <1>7, LogInv
<1>8. CASE Commit(t)
  BY <1>8, CommitInv
<1> QED
  BY <1>1, <1>2, <1>3, <1>4, <1>5, <1>6, <1>7, <1>8 DEF Step

\* So does every step.
LEMMA NextInv == IInv /\ [Next]_vars => IInv'
<1> SUFFICES ASSUME IInv, [Next]_vars PROVE IInv'
  BY Zenon
<1>1. CASE UNCHANGED vars
  BY <1>1, ZenonT(60)
     DEF vars, IInv, TypeOK, Asked, Locked, Made, Kept, Apart, Drawn, AuditTracksRow,
         Holding, RowsOf
<1>2. CASE Next
  <2>1. PICK t \in Txs :
          \/ \E a \in Admins, op \in {"create", "patch", "delete"}, on \in Subs \cup Rows :
               \E arg \in Args(op) : Begin(t, a, op, on, arg)
          \/ Step(t)
          \/ Rollback(t)
    BY <1>2 DEF Next, Fail, DeadlockVictim
  <2> QED
    BY <2>1, BeginInv, StepInv, RollbackInv
<1> QED
  BY <1>1, <1>2, ZenonT(30)

\* The audit row with the highest id about a row records the row as it
\* stands, for any administrators, rows and interleaving of their
\* transactions, rollbacks and deadlocks included (the handlers of
\* admin/users, admin/grants and admin/databases).
THEOREM AuditTellsTables == Spec => []AuditTracksRow
<1>1. Spec => []IInv
  BY InitInv, NextInv, PTL DEF Spec
<1>2. IInv => AuditTracksRow
  BY DEF IInv
<1> QED
  BY <1>1, <1>2, PTL

\* A PATCH keeps the columns its body leaves out as they were committed just
\* before it, whatever the handler had read (tx_update_user and its siblings).
THEOREM PatchIsPartial == Spec => PatchKeepsOthers
<1> DEFINE Keeps == \A t \in Txs : (Committing(t) /\ tx[t].op = "patch") =>
        \A c \in (1..2) \ DOMAIN tx[t].arg : rows'[tx[t].on].val[c] = rows[tx[t].on].val[c]
<1>1. Spec => []IInv
  BY InitInv, NextInv, PTL DEF Spec
<1>2. IInv /\ [Next]_vars => [Keeps]_vars
  <2> SUFFICES ASSUME IInv, Next, NEW t \in Txs, Committing(t), tx[t].op = "patch"
               PROVE  \A c \in (1..2) \ DOMAIN tx[t].arg :
                        rows'[tx[t].on].val[c] = rows[tx[t].on].val[c]
    BY Zenon
  <2>1. PICK o \in Txs : Commit(o)
    <3>1. log' # log
      BY DEF Committing
    <3>2. PICK o \in Txs :
            \/ \E a \in Admins, op \in {"create", "patch", "delete"}, on \in Subs \cup Rows :
                 \E arg \in Args(op) : Begin(o, a, op, on, arg)
            \/ Step(o)
            \/ Rollback(o)
      BY Zenon DEF Next, Fail, DeadlockVictim
    <3>3. ~Rollback(o)
      BY <3>1, Zenon DEF Rollback
    <3>4. \A a, op, on, arg : ~Begin(o, a, op, on, arg)
      BY <3>1, ZenonT(30) DEF Begin
    <3>5. \A x, im, p : ~Wrote(o, x, im, p)
      BY <3>1, Zenon DEF Wrote
    <3>6. ~ReadBefore(o) /\ ~LogAudit(o)
      BY <3>1, <3>3, Zenon DEF ReadBefore, LogAudit
    <3>7. ~UpsertUser(o) /\ ~UpsertActor(o)
      BY <3>5, Zenon DEF UpsertUser, UpsertActor, Upsert
    <3>8. ~InsertGrant(o) /\ ~InsertDatabase(o) /\ ~UpdateRow(o) /\ ~SoftDelete(o)
      BY <3>3, <3>5, Zenon DEF InsertGrant, InsertDatabase, UpdateRow, SoftDelete
    <3> QED
      BY <3>2, <3>3, <3>4, <3>6, <3>7, <3>8, Zenon DEF Step
  <2>2. o = t
    <3>1. tx[t].pc = "commit" /\ tx'[t].pc = "idle"
      BY DEF Committing, Idle
    <3> QED
      BY <2>1, <3>1, CommitFrame, Zenon
  <2>3. Holding(t) /\ tx[t].pc = "commit"
    BY Zenon DEF Committing, Holding
  <2>4. tx[t].on = tx[t].row /\ tx[t].row \in Rows /\ lock[tx[t].row] = t
    BY <2>3, Zenon DEF IInv, Kept, Locked
  <2>5. rows'[tx[t].row] = newest[tx[t].row]
    BY <2>1, <2>2, <2>4, CommitFrame
  <2> QED
    BY <2>3, <2>4, <2>5 DEF IInv, Kept
<1>3. Spec => [][Keeps]_vars
  BY <1>1, <1>2, PTL DEF Spec
<1> QED
  BY <1>3, SMTT(30) DEF PatchKeepsOthers

-----------------------------------------------------------------------------
(***************************************************************************)
(* That the interleaved transactions of the admin handlers implement       *)
(* AuditedStore, the permission tables with atomic audited writes, and     *)
(* that an audit row which no other commit raced is exact. Both add to the *)
(* locks above what a transaction holds at its COMMIT: its row and at      *)
(* most the actor's (Target, Others, Acted), and that the two unique       *)
(* indexes hold of the committed and of the newest versions together       *)
(* (OneLive, OneName), since an upsert or a new name waits for every row   *)
(* that may come into conflict with it.                                    *)
(***************************************************************************)

\* A row nobody wrote is as committed; a written one exists.
Clean == \A x \in Rows : IF lock[x] = None THEN newest[x] = rows[x] ELSE newest[x].st # "absent"

\* permissions_users_user_sub_live_idx.
EverLive(x) == rows[x].st = "live" \/ newest[x].st = "live"
OneLive == \A x, y \in UserRows :
    (x # y /\ RowSub[x] = RowSub[y]) => ~(EverLive(x) /\ EverLive(y))

\* permissions_databases_server_db_name_live_idx.
Bears(d, n) == \/ rows[d].st = "live" /\ rows[d].val[1] = n
               \/ newest[d].st = "live" /\ newest[d].val[1] = n
OneName == \A c, d \in Databases : c # d => \A n \in Vals : ~(Bears(c, n) /\ Bears(d, n))

\* What t wrote, and the committed version it replaces.
TargetOf(t) ==
    /\ tx[t].pc # "idle" /\ tx[t].op = "create" => tx[t].on \notin UserRows
    /\ tx[t].pc = "read" /\ tx[t].op = "create" => tx[t].on \in Subs
    /\ Holding(t) /\ tx[t].on \in Subs =>
         tx[t].row \in RowsOf(tx[t].on) /\ rows[tx[t].row].st \in {"live", "absent"}
    /\ Holding(t) /\ tx[t].on \notin Subs =>
         tx[t].row = tx[t].on /\ rows[tx[t].row].st = IF tx[t].op = "create" THEN "absent" ELSE "live"
Target == \A t \in Txs : TargetOf(t)

\* A grant being inserted names rows that exist.
RefsOf(t) == Holding(t) /\ tx[t].op = "create" /\ tx[t].row \in Grants =>
    /\ rows[GrantRow[tx[t].row]].st # "absent"
    /\ GrantDb[tx[t].row] # Wildcard => rows[GrantDb[tx[t].row]].st # "absent"
Refs == \A t \in Txs : RefsOf(t)

\* The other row t may hold is the actor's, written by tx_upsert_actor.
Others == \A t \in Txs : \A x \in Rows : lock[x] = t /\ x # tx[t].row =>
    /\ tx[t].pc # "actor" /\ AfterWrite(t) = "actor" /\ x \in RowsOf(tx[t].actor)
    /\ newest[x].st = "live" /\ rows[x].st \in {"live", "absent"}
Acted == \A t \in Txs :
    /\ tx[t].pc = "actor" => AfterWrite(t) = "actor"
    /\ tx[t].pc \in {"audit", "commit"} /\ AfterWrite(t) = "actor" =>
         \E x \in RowsOf(tx[t].actor) : lock[x] = t

Ids == \A t \in Txs : tx[t].pc = "commit" =>
    /\ \A e \in log : e.id # tx[t].id
    /\ \A o \in Txs \ {t} : tx[o].pc = "commit" => tx[o].id # tx[t].id

\* What the handler read is still so, unless another commit raced it.
FreshOf(t) == ~tx[t].raced =>
    /\ tx[t].pc = "write" /\ tx[t].on \in Subs =>
         IF tx[t].before = None THEN \A x \in RowsOf(tx[t].on) : rows[x].st # "live"
         ELSE /\ tx[t].before \in RowsOf(tx[t].on) /\ rows[tx[t].before].st = "live"
              /\ tx[t].was = rows[tx[t].before].val
    /\ tx[t].pc = "write" /\ tx[t].on \notin Subs =>
         IF tx[t].op = "create" THEN tx[t].before = None
         ELSE tx[t].before = tx[t].on /\ tx[t].was = rows[tx[t].on].val
    /\ Holding(t) =>
         IF rows[tx[t].row].st = "absent" THEN tx[t].before = None /\ tx[t].op # "delete"
         ELSE tx[t].before = tx[t].row /\ tx[t].was = rows[tx[t].row].val
Fresh == \A t \in Txs : FreshOf(t)

JInv == Clean /\ OneLive /\ OneName /\ Target /\ Refs /\ Others /\ Acted /\ Ids /\ Fresh

\* AfterWrite is settled when the request begins.
LEMMA AfterWriteSame ==
    ASSUME NEW t \in Txs, tx'[t].on = tx[t].on, tx'[t].actor = tx[t].actor
    PROVE  AfterWrite(t)' = AfterWrite(t) /\ RowsOf(tx[t].actor)' = RowsOf(tx[t].actor)
  BY Zenon DEF AfterWrite, UsersRequest, TargetSub, RowsOf

\* What is said of one request holds on while the committed rows and what it
\* knows stay, wherever it is after its write.
SameRequest(t) ==
    /\ tx'[t].row = tx[t].row /\ tx'[t].op = tx[t].op /\ tx'[t].on = tx[t].on
    /\ tx'[t].before = tx[t].before /\ tx'[t].was = tx[t].was /\ tx'[t].raced = tx[t].raced
    /\ Holding(t)' <=> Holding(t)
    /\ tx[t].pc = "idle" => tx'[t].pc = "idle"
    /\ tx'[t].pc \in {"read", "write"} => tx'[t].pc = tx[t].pc

LEMMA SameTarget ==
    ASSUME NEW t \in Txs, rows' = rows, SameRequest(t), TargetOf(t)
    PROVE  TargetOf(t)'
<1>1. RowsOf(tx[t].on)' = RowsOf(tx[t].on)
  BY Zenon DEF RowsOf, SameRequest
<1> QED
  BY <1>1, ZenonT(30) DEF TargetOf, SameRequest

LEMMA SameRefs ==
    ASSUME NEW t \in Txs, rows' = rows, SameRequest(t), RefsOf(t)
    PROVE  RefsOf(t)'
  BY ZenonT(30) DEF RefsOf, SameRequest

LEMMA SameFresh ==
    ASSUME NEW t \in Txs, rows' = rows, SameRequest(t), FreshOf(t)
    PROVE  FreshOf(t)'
<1>1. RowsOf(tx[t].on)' = RowsOf(tx[t].on)
  BY Zenon DEF RowsOf, SameRequest
<1>2. Holding(t)' <=> Holding(t)
  BY Zenon DEF SameRequest
<1>3. /\ tx'[t].row = tx[t].row /\ tx'[t].op = tx[t].op /\ tx'[t].on = tx[t].on
      /\ tx'[t].before = tx[t].before /\ tx'[t].was = tx[t].was /\ tx'[t].raced = tx[t].raced
  BY Zenon DEF SameRequest
<1>4. tx'[t].pc = "write" => tx[t].pc = "write"
  BY Zenon DEF SameRequest
<1> QED
  BY <1>1, <1>2, <1>3, <1>4, ZenonT(30) DEF FreshOf

\* Neither changes while the tables and the requests stay as they are.
LEMMA StutterOthers ==
    ASSUME Others, Acted, UNCHANGED <<rows, newest, lock, tx>>
    PROVE  Others' /\ Acted'
<1>1. \A t \in Txs : AfterWrite(t)' = AfterWrite(t)
  BY Zenon DEF AfterWrite, UsersRequest, TargetSub
<1>2. Others'
  BY <1>1, ZenonT(30) DEF Others, RowsOf
<1>3. Acted'
  BY <1>1, ZenonT(30) DEF Acted, RowsOf
<1> QED
  BY <1>2, <1>3, Zenon

\* A transaction that holds nothing sees the committed rows.
LEMMA SeesCommitted ==
    ASSUME IInv, NEW t \in Txs, ~Holding(t), NEW x \in Rows
    PROVE  Seen(t, x) = rows[x] /\ lock[x] # t
  BY AdminAssumption DEF IInv, Locked, Seen

\* A write that conflicts with no version of another row keeps the tables.
LEMMA WroteTables ==
    ASSUME IInv, JInv, NEW t \in Txs, NEW x \in Rows, NEW im \in Image,
           rows' = rows, newest'[x] = im, lock'[x] = t, im.st # "absent",
           \A y \in Rows \ {x} : newest'[y] = newest[y] /\ lock'[y] = lock[y],
           x \in UserRows /\ im.st = "live" =>
               \A y \in UserRows \ {x} : RowSub[y] = RowSub[x] => ~EverLive(y),
           x \in Databases /\ im.st = "live" =>
               \A d \in Databases \ {x} : ~Bears(d, im.val[1])
    PROVE  Clean' /\ OneLive' /\ OneName'
<1>1. UserRows \subseteq Rows /\ Databases \subseteq Rows
  BY Zenon DEF Rows
<1>2. Clean'
  BY AdminAssumption, Zenon DEF JInv, Clean
<1>3. OneLive'
  <2>1. \A y \in UserRows \ {x} : EverLive(y)' <=> EverLive(y)
    BY <1>1, Zenon DEF EverLive
  <2>2. EverLive(x)' => EverLive(x) \/ im.st = "live"
    BY ZenonT(30) DEF EverLive
  <2> QED
    BY <2>1, <2>2, Zenon DEF JInv, OneLive
<1>4. OneName'
  <2>1. \A d \in Databases \ {x}, n \in Vals : Bears(d, n)' <=> Bears(d, n)
    BY <1>1, Zenon DEF Bears
  <2>2. \A n \in Vals : Bears(x, n)' => Bears(x, n) \/ (im.st = "live" /\ im.val[1] = n)
    BY Zenon DEF Bears
  <2> QED
    BY <2>1, <2>2 DEF JInv, OneName
<1> QED
  BY <1>2, <1>3, <1>4, Zenon

\* What the handler's own write of version im of row x must meet.
WriteOK(t, x, im) ==
    /\ im.st # "absent"
    /\ IF tx[t].on \in Subs THEN x \in RowsOf(tx[t].on) /\ rows[x].st \in {"live", "absent"}
       ELSE x = tx[t].on /\ rows[x].st = IF tx[t].op = "create" THEN "absent" ELSE "live"
    /\ x \in UserRows /\ im.st = "live" =>
         \A y \in UserRows \ {x} : RowSub[y] = RowSub[x] => ~EverLive(y)
    /\ x \in Databases /\ im.st = "live" =>
         \A d \in Databases \ {x} : ~Bears(d, im.val[1])
    /\ tx[t].op = "create" /\ x \in Grants =>
         /\ rows[GrantRow[x]].st # "absent"
         /\ GrantDb[x] # Wildcard => rows[GrantDb[x]].st # "absent"
    /\ ~tx[t].raced => IF rows[x].st = "absent" THEN tx[t].before = None /\ tx[t].op # "delete"
                       ELSE tx[t].before = x /\ tx[t].was = rows[x].val

\* A write changes of its request only the statement it is at and the row.
LEMMA WroteRequest ==
    ASSUME IInv, NEW t \in Txs, NEW x, NEW im, NEW p, Wrote(t, x, im, p)
    PROVE  /\ tx'[t].pc = p /\ tx'[t].row = IF tx[t].pc = "write" THEN x ELSE tx[t].row
           /\ tx'[t].op = tx[t].op /\ tx'[t].on = tx[t].on /\ tx'[t].actor = tx[t].actor
           /\ tx'[t].before = tx[t].before /\ tx'[t].was = tx[t].was /\ tx'[t].raced = tx[t].raced
<1>1. tx \in [Txs -> TxRec] /\ tx[t] \in TxRec
  BY Zenon DEF IInv, TypeOK
<1>2. tx'[t] = [tx[t] EXCEPT !.pc = p, !.row = IF tx[t].pc = "write" THEN x ELSE @]
  BY <1>1, Zenon DEF Wrote
<1> QED
  BY <1>1, <1>2, Zenon DEF TxRec

\* A write of t leaves what JInv says of the other requests.
LEMMA WroteOthers ==
    ASSUME IInv, JInv, NEW t \in Txs, NEW x \in Rows, NEW o \in Txs \ {t},
           lock[x] \in {None, t}, rows' = rows, log' = log, tx'[o] = tx[o], lock'[x] = t,
           \A y \in Rows \ {x} : newest'[y] = newest[y] /\ lock'[y] = lock[y]
    PROVE  /\ AfterWrite(o)' = AfterWrite(o) /\ RowsOf(tx[o].actor)' = RowsOf(tx[o].actor)
           /\ \A y \in Rows : lock'[y] = o => lock[y] = o /\ newest'[y] = newest[y]
           /\ \A y \in RowsOf(tx[o].actor) : lock[y] = o => lock'[y] = o
           /\ SameRequest(o)
<1>1. AfterWrite(o)' = AfterWrite(o) /\ RowsOf(tx[o].actor)' = RowsOf(tx[o].actor)
  BY AfterWriteSame, Zenon
<1>2. \A y \in Rows : lock'[y] = o => lock[y] = o /\ newest'[y] = newest[y]
  BY Zenon
<1>3. \A y \in RowsOf(tx[o].actor) : lock[y] = o => lock'[y] = o
  BY AdminAssumption, ZenonT(30) DEF RowsOf, Rows
<1>4. SameRequest(o)
  BY Zenon DEF Holding, SameRequest
<1> QED
  BY <1>1, <1>2, <1>3, <1>4, Zenon

\* The handler's own write.
LEMMA WriteJ ==
    ASSUME IInv, IInv', JInv, NEW t \in Txs, NEW x \in Rows, NEW im \in Image,
           lock[x] \in {None, t}, tx[t].pc = "write", Wrote(t, x, im, AfterWrite(t)),
           WriteOK(t, x, im)
    PROVE  JInv'
<1>1. /\ AfterWrite(t) \in {"actor", "audit"}
      /\ AfterWrite(t) = "actor" => x \notin RowsOf(tx[t].actor)
  <2>1. tx[t].on \in Subs \cup Rows
    BY Zenon  DEF IInv, Asked
  <2>2. IF tx[t].on \in Subs THEN x \in RowsOf(tx[t].on) ELSE x = tx[t].on
    BY Zenon DEF WriteOK
  <2> QED
    BY <2>1, <2>2, AfterWriteApart, Zenon
<1>2. rows' = rows /\ log' = log
  BY Zenon  DEF Wrote
<1>3. /\ \A o \in Txs \ {t} : tx'[o] = tx[o]
      /\ newest'[x] = im /\ lock'[x] = t
      /\ \A y \in Rows \ {x} : newest'[y] = newest[y] /\ lock'[y] = lock[y]
  BY <1>1, WroteFrame, SMTT(30)
<1>4. /\ tx'[t].pc = AfterWrite(t) /\ tx'[t].row = x
      /\ tx'[t].op = tx[t].op /\ tx'[t].on = tx[t].on /\ tx'[t].actor = tx[t].actor
      /\ tx'[t].before = tx[t].before /\ tx'[t].was = tx[t].was /\ tx'[t].raced = tx[t].raced
  BY WroteRequest
<1>5. ~Holding(t) /\ Holding(t)'
  BY <1>1, <1>4, Zenon DEF Holding
<1>6. \A o \in Txs \ {t} :
        /\ AfterWrite(o)' = AfterWrite(o) /\ RowsOf(tx[o].actor)' = RowsOf(tx[o].actor)
        /\ \A y \in Rows : lock'[y] = o => lock[y] = o /\ newest'[y] = newest[y]
        /\ \A y \in RowsOf(tx[o].actor) : lock[y] = o => lock'[y] = o
        /\ SameRequest(o)
  BY <1>2, <1>3, WroteOthers, Zenon
<1>7. AfterWrite(t)' = AfterWrite(t) /\ RowsOf(tx[t].actor)' = RowsOf(tx[t].actor)
  BY <1>4, AfterWriteSame, Zenon
<1>8. Clean' /\ OneLive' /\ OneName'
  BY <1>2, <1>3, WroteTables, Zenon DEF WriteOK
<1>9. Target'
  <2>1. \A o \in Txs \ {t} : TargetOf(o)'
    BY <1>2, <1>6, SameTarget, Zenon DEF JInv, Target
  <2>2. TargetOf(t) /\ RowsOf(tx[t].on)' = RowsOf(tx[t].on)
    BY <1>4, Zenon DEF JInv, Target, RowsOf
  <2>3. tx[t].op = "create" => tx[t].on \notin UserRows
    BY <2>2, Zenon DEF TargetOf
  <2>4. tx'[t].pc \notin {"idle", "read"}
    BY <1>1, <1>4, Zenon
  <2>5. TargetOf(t)'
    BY <1>2, <1>4, <2>2, <2>3, <2>4, ZenonT(30) DEF TargetOf, WriteOK
  <2> QED
    BY <2>1, <2>5, Zenon DEF Target
<1>10. Refs'
  <2>1. \A o \in Txs \ {t} : RefsOf(o)'
    BY <1>2, <1>6, SameRefs, Zenon DEF JInv, Refs
  <2>2. RefsOf(t)'
    BY <1>2, <1>4, Zenon DEF RefsOf, WriteOK
  <2> QED
    BY <2>1, <2>2, Zenon DEF Refs
<1>11. \A y \in Rows : lock'[y] = t => y = x
  BY <1>3, <1>5, SeesCommitted, ZenonT(30)
<1>12. Others'
  <2> SUFFICES ASSUME NEW o \in Txs, NEW y \in Rows, lock'[y] = o, y # tx'[o].row
               PROVE  /\ tx'[o].pc # "actor" /\ AfterWrite(o)' = "actor"
                      /\ y \in RowsOf(tx[o].actor)'
                      /\ newest'[y].st = "live" /\ rows'[y].st \in {"live", "absent"}
    BY Zenon DEF Others
  <2>1. o # t
    BY <1>4, <1>11, Zenon
  <2>2. tx'[o] = tx[o] /\ lock[y] = o /\ newest'[y] = newest[y]
    BY <1>3, <1>6, <2>1, Zenon
  <2>3. /\ tx[o].pc # "actor" /\ AfterWrite(o) = "actor" /\ y \in RowsOf(tx[o].actor)
        /\ newest[y].st = "live" /\ rows[y].st \in {"live", "absent"}
    BY <2>2, Zenon DEF JInv, Others
  <2> QED
    BY <1>2, <1>6, <2>1, <2>2, <2>3, Zenon
<1>13. Acted'
  BY <1>1, <1>3, <1>4, <1>6, <1>7, SMTT(30) DEF JInv, Acted
<1>14. Ids'
  <2>1. \A o \in Txs : tx'[o].pc = "commit" => o # t /\ tx'[o] = tx[o]
    BY <1>1, <1>3, <1>4, Zenon
  <2> QED
    BY <1>2, <2>1, ZenonT(30) DEF JInv, Ids
<1>15. Fresh'
  <2>1. \A o \in Txs \ {t} : FreshOf(o)'
    BY <1>2, <1>6, SameFresh, Zenon DEF JInv, Fresh
  <2>2. tx'[t].pc # "write"
    BY <1>1, <1>4, Zenon
  <2>3. FreshOf(t)'
    BY <1>2, <1>4, <2>2, ZenonT(30) DEF FreshOf, WriteOK
  <2> QED
    BY <2>1, <2>3, Zenon DEF Fresh
<1> QED
  BY <1>8, <1>9, <1>10, <1>12, <1>13, <1>14, <1>15, ZenonT(30) DEF JInv

\* tx_upsert_actor.
LEMMA ActorJ ==
    ASSUME IInv, IInv', JInv, NEW t \in Txs, NEW x \in RowsOf(tx[t].actor), NEW im \in Image,
           lock[x] \in {None, t}, tx[t].pc = "actor", Wrote(t, x, im, "audit"),
           im.st = "live", rows[x].st \in {"live", "absent"},
           \A y \in UserRows \ {x} : RowSub[y] = RowSub[x] => ~EverLive(y)
    PROVE  JInv'
<1>1. x \in UserRows /\ x \in Rows /\ x \notin Databases
  BY AdminAssumption, Zenon DEF RowsOf, Rows
<1>2. rows' = rows /\ log' = log
  BY Zenon  DEF Wrote
<1>3. /\ \A o \in Txs \ {t} : tx'[o] = tx[o]
      /\ newest'[x] = im /\ lock'[x] = t
      /\ \A y \in Rows \ {x} : newest'[y] = newest[y] /\ lock'[y] = lock[y]
  BY <1>1, WroteFrame, SMTT(30)
<1>4. /\ tx'[t].pc = "audit" /\ tx'[t].row = tx[t].row
      /\ tx'[t].op = tx[t].op /\ tx'[t].on = tx[t].on /\ tx'[t].actor = tx[t].actor
      /\ tx'[t].before = tx[t].before /\ tx'[t].was = tx[t].was /\ tx'[t].raced = tx[t].raced
  BY WroteRequest
<1>5. Holding(t) /\ Holding(t)'
  BY <1>4, Zenon DEF Holding
<1>6. \A o \in Txs \ {t} :
        /\ AfterWrite(o)' = AfterWrite(o) /\ RowsOf(tx[o].actor)' = RowsOf(tx[o].actor)
        /\ \A y \in Rows : lock'[y] = o => lock[y] = o /\ newest'[y] = newest[y]
        /\ \A y \in RowsOf(tx[o].actor) : lock[y] = o => lock'[y] = o
        /\ SameRequest(o)
  BY <1>1, <1>2, <1>3, WroteOthers, Zenon
<1>7. AfterWrite(t)' = AfterWrite(t) /\ RowsOf(tx[t].actor)' = RowsOf(tx[t].actor)
  BY <1>4, AfterWriteSame, Zenon
<1>8. Clean' /\ OneLive' /\ OneName'
  BY <1>1, <1>2, <1>3, WroteTables, ZenonT(30)
<1>9. \A o \in Txs : SameRequest(o)
  <2>1. SameRequest(t)
    BY <1>4, <1>5, Zenon DEF SameRequest
  <2> QED
    BY <1>6, <2>1, Zenon
<1>10. Target' /\ Refs' /\ Fresh'
  <2>1. Target'
    BY <1>2, <1>9, SameTarget, Zenon DEF JInv, Target
  <2>2. Refs'
    BY <1>2, <1>9, SameRefs, Zenon DEF JInv, Refs
  <2>3. Fresh'
    BY <1>2, <1>9, SameFresh, Zenon DEF JInv, Fresh
  <2> QED
    BY <2>1, <2>2, <2>3, Zenon
<1>11. AfterWrite(t) = "actor"
  BY Zenon  DEF JInv, Acted
<1>12. \A y \in Rows : lock'[y] = t /\ y # tx[t].row => y = x
  BY <1>3, Zenon DEF JInv, Others
<1>13. Others'
  <2> SUFFICES ASSUME NEW o \in Txs, NEW y \in Rows, lock'[y] = o, y # tx'[o].row
               PROVE  /\ tx'[o].pc # "actor" /\ AfterWrite(o)' = "actor"
                      /\ y \in RowsOf(tx[o].actor)'
                      /\ newest'[y].st = "live" /\ rows'[y].st \in {"live", "absent"}
    BY Zenon DEF Others
  <2>1. CASE o = t
    <3>1. y = x
      BY <1>4, <1>12, <2>1, Zenon
    <3> QED
      BY <1>2, <1>3, <1>4, <1>7, <1>11, <2>1, <3>1, Zenon
  <2>2. CASE o # t
    <3>1. tx'[o] = tx[o] /\ lock[y] = o /\ newest'[y] = newest[y]
      BY <1>3, <1>6, <2>2, Zenon
    <3>2. /\ tx[o].pc # "actor" /\ AfterWrite(o) = "actor" /\ y \in RowsOf(tx[o].actor)
          /\ newest[y].st = "live" /\ rows[y].st \in {"live", "absent"}
      BY <3>1, Zenon DEF JInv, Others
    <3> QED
      BY <1>2, <1>6, <2>2, <3>1, <3>2, Zenon
  <2> QED
    BY <2>1, <2>2, Zenon
<1>14. Acted'
  BY <1>3, <1>4, <1>6, <1>7 DEF JInv, Acted
<1>15. Ids'
  <2>1. \A o \in Txs : tx'[o].pc = "commit" => o # t /\ tx'[o] = tx[o]
    BY <1>3, <1>4, Zenon
  <2> QED
    BY <1>2, <2>1, ZenonT(30) DEF JInv, Ids
<1> QED
  BY <1>8, <1>10, <1>13, <1>14, <1>15, ZenonT(30) DEF JInv

-----------------------------------------------------------------------------
\* Before the first request every row is as committed and no request is in flight.
LEMMA InitJ == Init => JInv
<1> SUFFICES ASSUME Init PROVE JInv
  BY Zenon
<1>1. \A t \in Txs : tx[t].pc = "idle"
  BY Zenon DEF Init, Idle
<1>2. \A x \in Rows : lock[x] = None /\ newest[x] = rows[x]
  BY Zenon DEF Init
<1>3. Clean
  BY <1>2, Zenon DEF Clean
<1>4. UserRows \subseteq Rows /\ Databases \subseteq Rows
  BY Zenon DEF Rows
<1>5. OneLive
  BY <1>2, <1>4, Zenon DEF Init, OneLive, EverLive
<1>6. OneName
  BY <1>2, <1>4, ZenonT(30) DEF Init, OneName, Bears
<1>7. Target /\ Refs /\ Ids /\ Fresh
  BY <1>1, Zenon DEF Target, TargetOf, Refs, RefsOf, Ids, Fresh, FreshOf, Holding
<1>8. Others /\ Acted
  BY <1>1, <1>2, AdminAssumption, Zenon DEF Others, Acted
<1> QED
  BY <1>3, <1>5, <1>6, <1>7, <1>8, Zenon DEF JInv

\* The part of JInv that speaks of the tables is unchanged with them.
LEMMA TablesSame ==
    ASSUME JInv, UNCHANGED <<rows, newest, lock>>
    PROVE  Clean' /\ OneLive' /\ OneName'
  BY DEF JInv, Clean, OneLive, OneName, EverLive, Bears

\* A step that changes only tx[t], while t holds nothing before or after.
LEMMA QuietStep ==
    ASSUME IInv, IInv', JInv, NEW t \in Txs, UNCHANGED <<rows, newest, lock, log>>,
           \A o \in Txs \ {t} : tx'[o] = tx[o],
           ~Holding(t), ~Holding(t)'
    PROVE  Clean' /\ OneLive' /\ OneName' /\ Refs' /\ Others' /\ Acted' /\ Ids'
<1>1. Clean' /\ OneLive' /\ OneName'
  BY TablesSame, Zenon
<1>2. \A o \in Txs : Holding(o)' => o # t /\ Holding(o) /\ tx'[o] = tx[o]
  BY Zenon DEF Holding
<1>3. Refs'
  BY <1>2, Zenon DEF JInv, Refs, RefsOf
<1>4. \A x \in Rows : lock[x] # t
  BY AdminAssumption DEF IInv, Locked
<1>5. \A o \in Txs \ {t} : AfterWrite(o)' = AfterWrite(o) /\ RowsOf(tx[o].actor)' = RowsOf(tx[o].actor)
  BY AfterWriteSame, Zenon
<1>6. Others'
  BY <1>4, <1>5 DEF JInv, Others
<1>7. Acted'
  BY <1>2, <1>5, ZenonT(40) DEF JInv, Acted, Holding
<1>8. Ids'
  BY <1>2 DEF JInv, Ids, Holding
<1> QED
  BY <1>1, <1>3, <1>6, <1>7, <1>8, Zenon

\* A request arrives: it holds nothing yet.
LEMMA BeginJ ==
    ASSUME IInv, IInv', JInv, NEW t \in Txs, NEW a \in Admins,
           NEW op \in {"create", "patch", "delete"}, NEW on \in Subs \cup Rows,
           NEW arg \in Args(op), Begin(t, a, op, on, arg)
    PROVE  JInv'
<1> DEFINE new == [Idle EXCEPT !.pc = IF op = "create" /\ on \notin Subs THEN "write" ELSE "read",
                               !.actor = a, !.op = op, !.on = on, !.arg = arg]
<1>1. tx \in [Txs -> TxRec]
  BY Zenon DEF IInv, TypeOK
<1>2. tx'[t] = new /\ \A o \in Txs \ {t} : tx'[o] = tx[o]
  BY <1>1, Zenon DEF Begin
<1>3. /\ new.pc = IF op = "create" /\ on \notin Subs THEN "write" ELSE "read"
      /\ new.op = op /\ new.on = on /\ new.before = None
  BY Zenon DEF Idle
<1>4. UNCHANGED <<rows, newest, lock, log>> /\ tx[t].pc = "idle"
  BY DEF Begin, Idle
<1>5. op = "create" => on \notin UserRows
  BY Zenon DEF Begin
<1>6. on \in Subs => op = "create"
  BY Zenon DEF Begin
<1> HIDE DEF new
<1>7. ~Holding(t) /\ ~Holding(t)'
  BY <1>2, <1>3, <1>4, Zenon DEF Holding
<1>8. Clean' /\ OneLive' /\ OneName' /\ Refs' /\ Others' /\ Acted' /\ Ids'
  BY <1>2, <1>4, <1>7, QuietStep, Zenon
<1>9. \A o \in Txs \ {t} : Holding(o)' <=> Holding(o)
  BY <1>2, ZenonT(30) DEF Holding
<1>10. Target'
  BY <1>2, <1>3, <1>4, <1>5, <1>7, <1>9, ZenonT(30) DEF JInv, Target, TargetOf, RowsOf
<1>11. Fresh'
  <2>1. \A o \in Txs \ {t} : SameRequest(o)
    BY <1>2, <1>9, Zenon DEF SameRequest
  <2>2. \A o \in Txs \ {t} : FreshOf(o)'
    BY <1>4, <2>1, SameFresh, Zenon DEF JInv, Fresh
  <2>3. tx'[t].pc = "write" => tx'[t].on \notin Subs /\ tx'[t].op = "create" /\ tx'[t].before = None
    BY <1>2, <1>3, ZenonT(30)
  <2>4. FreshOf(t)'
    BY <1>7, <2>3, Zenon DEF FreshOf
  <2> QED
    BY <2>2, <2>4, Zenon DEF Fresh
<1> QED
  BY <1>8, <1>10, <1>11, ZenonT(30) DEF JInv

\* A refused request drops its versions; the committed ones keep every index.
LEMMA RollbackJ ==
    ASSUME IInv, IInv', JInv, NEW t \in Txs, Rollback(t)
    PROVE  JInv'
<1>1. TypeOK /\ tx \in [Txs -> TxRec] /\ Idle.pc = "idle"
  BY Zenon DEF IInv, TypeOK, Idle
<1>2. rows' = rows /\ log' = log
  BY Zenon DEF Rollback
<1>3. tx'[t] = Idle /\ \A o \in Txs \ {t} : tx'[o] = tx[o]
  BY <1>1, Zenon DEF Rollback
<1>4. \A x \in Rows : IF lock[x] = t THEN lock'[x] = None /\ newest'[x] = rows[x]
                                     ELSE lock'[x] = lock[x] /\ newest'[x] = newest[x]
  BY Zenon DEF Rollback
<1>5. UserRows \subseteq Rows /\ Databases \subseteq Rows
  BY Zenon DEF Rows
<1>6. Clean'
  BY <1>2, <1>4, Zenon DEF JInv, Clean
<1>7. OneLive'
  <2>1. \A x \in UserRows : EverLive(x)' => EverLive(x)
    BY <1>2, <1>4, <1>5, Zenon DEF EverLive
  <2> QED
    BY <2>1, Zenon DEF JInv, OneLive
<1>8. OneName'
  <2>1. \A d \in Databases, n \in Vals : Bears(d, n)' => Bears(d, n)
    BY <1>2, <1>4, <1>5, Zenon DEF Bears
  <2> QED
    BY <2>1, Zenon DEF JInv, OneName
<1>9. \A o \in Txs : tx'[o].pc # "idle" => o # t /\ tx'[o] = tx[o]
  BY <1>1, <1>3, Zenon
<1>10. \A o \in Txs : Holding(o)' => o # t /\ tx'[o] = tx[o] /\ Holding(o)
  BY <1>9, Zenon DEF Holding
<1>11. Target'
  BY <1>2, <1>9, <1>10, ZenonT(30) DEF JInv, Target, TargetOf, RowsOf
<1>12. Refs'
  BY <1>2, <1>10, Zenon DEF JInv, Refs, RefsOf
<1>13. \A o \in Txs \ {t} : AfterWrite(o)' = AfterWrite(o) /\ RowsOf(tx[o].actor)' = RowsOf(tx[o].actor)
  BY <1>3, AfterWriteSame, Zenon
<1>14. Others'
  <2> SUFFICES ASSUME NEW o \in Txs, NEW x \in Rows, lock'[x] = o, x # tx'[o].row
               PROVE  /\ tx'[o].pc # "actor" /\ AfterWrite(o)' = "actor"
                      /\ x \in RowsOf(tx[o].actor)'
                      /\ newest'[x].st = "live" /\ rows'[x].st \in {"live", "absent"}
    BY Zenon DEF Others
  <2>1. o # t /\ lock[x] = o /\ newest'[x] = newest[x]
    BY <1>4, AdminAssumption, Zenon
  <2>2. tx'[o] = tx[o] /\ rows' = rows
        /\ AfterWrite(o)' = AfterWrite(o) /\ RowsOf(tx[o].actor)' = RowsOf(tx[o].actor)
    BY <1>2, <1>3, <1>13, <2>1, Zenon
  <2>3. /\ tx[o].pc # "actor" /\ AfterWrite(o) = "actor" /\ x \in RowsOf(tx[o].actor)
        /\ newest[x].st = "live" /\ rows[x].st \in {"live", "absent"}
    BY <2>1, <2>2, Zenon DEF JInv, Others
  <2> QED
    BY <2>1, <2>2, <2>3, Zenon
<1>15. Acted'
  <2> SUFFICES ASSUME NEW o \in Txs
               PROVE  /\ tx'[o].pc = "actor" => AfterWrite(o)' = "actor"
                      /\ tx'[o].pc \in {"audit", "commit"} /\ AfterWrite(o)' = "actor" =>
                           \E x \in RowsOf(tx[o].actor)' : lock'[x] = o
    BY Zenon DEF Acted
  <2>1. CASE o = t
    BY <1>1, <1>3, <2>1, Zenon
  <2>2. CASE o # t
    <3>1. \A x \in RowsOf(tx[o].actor) : lock[x] = o => lock'[x] = o
      BY <1>4, <1>5, <2>2, Zenon DEF RowsOf
    <3> QED
      BY <1>3, <1>13, <2>2, <3>1, Zenon DEF JInv, Acted
  <2> QED
    BY <2>1, <2>2, Zenon
<1>16. Ids'
  BY <1>2, <1>9, ZenonT(30) DEF JInv, Ids
<1>17. Fresh'
  <2> SUFFICES ASSUME NEW o \in Txs PROVE FreshOf(o)'
    BY Zenon DEF Fresh
  <2>1. CASE tx'[o].pc # "idle"
    <3>1. SameRequest(o)
      BY <1>9, <2>1, Zenon DEF SameRequest, Holding
    <3> QED
      BY <1>2, <3>1, SameFresh, Zenon DEF JInv, Fresh
  <2>2. CASE tx'[o].pc = "idle"
    BY <2>2, Zenon DEF FreshOf, Holding
  <2> QED
    BY <2>1, <2>2, Zenon
<1> QED
  BY <1>6, <1>7, <1>8, <1>11, <1>12, <1>14, <1>15, <1>16, <1>17, ZenonT(30) DEF JInv

\* get_live and the other reads: what was found is what is committed.
LEMMA ReadJ ==
    ASSUME IInv, IInv', JInv, NEW t \in Txs, ReadBefore(t)
    PROVE  JInv'
<1> DEFINE found == IF tx[t].on \in Subs THEN LiveRowsOf(t, tx[t].on)
                    ELSE {x \in {tx[t].on} : Seen(t, x).st = "live"}
           first == CHOOSE x \in found : TRUE
<1>1. CASE Rollback(t)
  BY <1>1, RollbackJ, Zenon
<1>2. CASE ~Rollback(t)
  <2>1. /\ tx[t].pc = "read" /\ tx \in [Txs -> TxRec] /\ tx[t].on \in Subs \cup Rows
        /\ UNCHANGED <<rows, newest, lock, log>>
    BY <1>2, Zenon DEF ReadBefore, IInv, TypeOK, Asked
  <2>2. /\ tx' = [tx EXCEPT ![t].pc = "write",
                            ![t].before = IF found = {} THEN None ELSE first,
                            ![t].was = IF found = {} THEN <<>> ELSE rows[first].val]
        /\ ~(found = {} /\ tx[t].op # "create")
    BY <1>2, Zenon DEF ReadBefore
  <2>3. ~Holding(t)
    BY <2>1, Zenon DEF Holding
  <2>4. \A x \in RowsOf(tx[t].on) : x \in Rows /\ Seen(t, x) = rows[x]
    BY <2>3, SeesCommitted, Zenon DEF RowsOf, Rows
  <2>5. tx[t].on \in Subs => \A x : x \in found <=> x \in RowsOf(tx[t].on) /\ rows[x].st = "live"
    BY <2>4, Zenon DEF LiveRowsOf
  <2>6. tx[t].on \notin Subs => found \subseteq {tx[t].on} /\ tx[t].op # "create"
    BY <2>1, Zenon DEF JInv, Target, TargetOf
  <2>7. found # {} => first \in found
    BY Zenon
  <2> HIDE DEF found, first
  <2>8. \A o \in Txs \ {t} : tx'[o] = tx[o]
    BY <2>1, <2>2, Zenon
  <2>9. tx[t] \in TxRec
    BY <2>1, Zenon
  <2>10. tx'[t] = [tx[t] EXCEPT !.pc = "write",
                                !.before = IF found = {} THEN None ELSE first,
                                !.was = IF found = {} THEN <<>> ELSE rows[first].val]
    BY <2>1, <2>2, Zenon
  <2>11. /\ tx'[t].pc = "write" /\ tx'[t].op = tx[t].op /\ tx'[t].on = tx[t].on
         /\ tx'[t].before = IF found = {} THEN None ELSE first
         /\ tx'[t].was = IF found = {} THEN <<>> ELSE rows[first].val
    BY <2>9, <2>10, Zenon DEF TxRec
  <2>12. ~Holding(t)' /\ \A o \in Txs \ {t} : Holding(o)' <=> Holding(o)
    BY <2>8, <2>11, Zenon DEF Holding
  <2>13. Clean' /\ OneLive' /\ OneName' /\ Refs' /\ Others' /\ Acted' /\ Ids'
    BY <2>1, <2>3, <2>8, <2>12, QuietStep, ZenonT(30)
  <2>14. Target'
    BY <2>1, <2>8, <2>11, <2>12 DEF JInv, Target, TargetOf, RowsOf
  <2>15. Fresh'
    <3> SUFFICES ASSUME NEW o \in Txs, ~tx'[o].raced
                 PROVE  /\ tx'[o].pc = "write" /\ tx'[o].on \in Subs =>
                             IF tx'[o].before = None
                             THEN \A x \in RowsOf(tx[o].on)' : rows'[x].st # "live"
                             ELSE /\ tx'[o].before \in RowsOf(tx[o].on)'
                                  /\ rows'[tx'[o].before].st = "live"
                                  /\ tx'[o].was = rows'[tx'[o].before].val
                        /\ tx'[o].pc = "write" /\ tx'[o].on \notin Subs =>
                             IF tx'[o].op = "create" THEN tx'[o].before = None
                             ELSE tx'[o].before = tx'[o].on /\ tx'[o].was = rows'[tx'[o].on].val
                        /\ Holding(o)' =>
                             IF rows'[tx'[o].row].st = "absent"
                             THEN tx'[o].before = None /\ tx'[o].op # "delete"
                             ELSE tx'[o].before = tx'[o].row /\ tx'[o].was = rows'[tx'[o].row].val
      BY ZenonT(30) DEF Fresh, FreshOf
    <3>1. CASE o # t
      <4>1. FreshOf(o) /\ tx'[o] = tx[o] /\ rows' = rows /\ (Holding(o)' <=> Holding(o))
        BY <2>1, <2>8, <2>12, <3>1, Zenon DEF JInv, Fresh
      <4>2. RowsOf(tx[o].on)' = RowsOf(tx[o].on)
        BY <4>1, ZenonT(30) DEF RowsOf
      <4> QED
        BY <4>1, <4>2, ZenonT(30) DEF FreshOf
    <3>2. CASE o = t /\ tx[t].on \in Subs
      <4>1. CASE found = {}
        BY <2>1, <2>5, <2>11, <2>12, <3>2, <4>1, Zenon DEF RowsOf
      <4>2. CASE found # {}
        <5>1. first \in RowsOf(tx[t].on) /\ rows[first].st = "live" /\ first # None
          <6>1. first \in RowsOf(tx[t].on) /\ rows[first].st = "live"
            BY <2>5, <2>7, <3>2, <4>2, Zenon
          <6>2. first \in Rows
            BY <6>1, ZenonT(30) DEF RowsOf, Rows
          <6> QED
            BY <6>1, <6>2, AdminAssumption, Zenon
        <5> QED
          BY <2>1, <2>11, <2>12, <3>2, <4>2, <5>1, ZenonT(30) DEF RowsOf
      <4> QED
        BY <4>1, <4>2, Zenon
    <3>3. CASE o = t /\ tx[t].on \notin Subs
      <4>1. found # {} /\ first = tx[t].on
        BY <2>2, <2>6, <2>7, <3>3, Zenon
      <4> QED
        BY <2>1, <2>6, <2>11, <2>12, <3>3, <4>1, Zenon
    <3> QED
      BY <3>1, <3>2, <3>3, Zenon
  <2> QED
    BY <2>13, <2>14, <2>15, Zenon DEF JInv
<1> QED
  BY <1>1, <1>2, Zenon

\* log_tx draws an id that no committed entry and no pending one has.
LEMMA LogJ ==
    ASSUME IInv, IInv', JInv, NEW t \in Txs, LogAudit(t)
    PROVE  JInv'
<1>1. tx \in [Txs -> TxRec] /\ nextId \in Nat /\ \A e \in log : e.id \in Nat /\ e.id < nextId
  BY Zenon DEF IInv, TypeOK
<1>2. UNCHANGED <<rows, newest, lock, log>> /\ tx[t].pc = "audit"
  BY Zenon DEF LogAudit
<1>3. \A o \in Txs \ {t} : tx'[o] = tx[o]
  BY <1>1, Zenon DEF LogAudit
<1>4. tx'[t] = [tx[t] EXCEPT !.pc = "commit", !.id = nextId] /\ tx[t] \in TxRec
  BY <1>1, Zenon DEF LogAudit
<1>5. /\ tx'[t].pc = "commit" /\ tx'[t].id = nextId /\ tx'[t].row = tx[t].row
      /\ tx'[t].op = tx[t].op /\ tx'[t].on = tx[t].on
      /\ tx'[t].actor = tx[t].actor /\ tx'[t].raced = tx[t].raced
      /\ tx'[t].before = tx[t].before /\ tx'[t].was = tx[t].was
  BY <1>4, Zenon DEF TxRec
<1>6. \A o \in Txs : /\ tx'[o].row = tx[o].row /\ tx'[o].op = tx[o].op /\ tx'[o].on = tx[o].on
                     /\ tx'[o].actor = tx[o].actor /\ tx'[o].raced = tx[o].raced
                     /\ tx'[o].before = tx[o].before /\ tx'[o].was = tx[o].was
                     /\ Holding(o)' <=> Holding(o)
                     /\ tx'[o].pc \in {"idle", "read", "write", "actor"} => tx'[o].pc = tx[o].pc
                     /\ tx[o].pc = "idle" => tx'[o].pc = "idle"
                     /\ tx'[o].pc \in {"audit", "commit"} => tx[o].pc \in {"audit", "commit"}
  BY <1>2, <1>3, <1>5, ZenonT(30) DEF Holding
<1>7. \A o \in Txs : AfterWrite(o)' = AfterWrite(o) /\ RowsOf(tx[o].actor)' = RowsOf(tx[o].actor)
  BY <1>6, AfterWriteSame, Zenon
<1>8. Clean' /\ OneLive' /\ OneName'
  BY <1>2, TablesSame, ZenonT(30)
<1>9. \A o \in Txs : SameRequest(o)
  BY <1>6, Zenon DEF SameRequest
<1>10. Target' /\ Refs'
  <2>1. Target'
    BY <1>2, <1>9, SameTarget, Zenon DEF JInv, Target
  <2>2. Refs'
    BY <1>2, <1>9, SameRefs, Zenon DEF JInv, Refs
  <2> QED
    BY <2>1, <2>2, Zenon
<1>11. Others'
  <2>1. \A o \in Txs, x \in Rows : lock[x] = o => Holding(o)
    <3>1. \A x \in Rows : lock[x] # None => Holding(lock[x])
      BY Zenon DEF IInv, Locked
    <3> QED
      BY <3>1, AdminAssumption, Zenon
  <2>2. \A o \in Txs : Holding(o) /\ tx'[o].pc = "actor" => tx[o].pc = "actor"
    BY <1>6, Zenon
  <2> SUFFICES ASSUME NEW o \in Txs, NEW x \in Rows, lock'[x] = o, x # tx'[o].row
               PROVE  /\ tx'[o].pc # "actor" /\ AfterWrite(o)' = "actor"
                      /\ x \in RowsOf(tx[o].actor)'
                      /\ newest'[x].st = "live" /\ rows'[x].st \in {"live", "absent"}
    BY Zenon DEF Others
  <2>3. lock[x] = o /\ x # tx[o].row
    BY <1>2, <1>6, Zenon
  <2>4. /\ tx[o].pc # "actor" /\ AfterWrite(o) = "actor" /\ x \in RowsOf(tx[o].actor)
        /\ newest[x].st = "live" /\ rows[x].st \in {"live", "absent"}
    BY <2>3, ZenonT(30) DEF JInv, Others
  <2> QED
    BY <1>2, <1>7, <2>1, <2>2, <2>3, <2>4, ZenonT(30)
<1>12. Acted'
  BY <1>2, <1>6, <1>7 DEF JInv, Acted
<1>13. Ids'
  <2>1. \A o \in Txs : tx[o].pc = "commit" => tx[o].id < nextId /\ tx[o].id \in Nat
    BY <1>1, ZenonT(30) DEF IInv, Drawn, TxRec
  <2>2. \A e \in log : e.id # nextId
    BY <1>1
  <2>3. \A o \in Txs : tx[o].pc = "commit" => tx[o].id # nextId
    BY <1>1, <2>1
  <2> SUFFICES ASSUME NEW o \in Txs, tx'[o].pc = "commit"
               PROVE  /\ \A e \in log : e.id # tx'[o].id
                      /\ \A q \in Txs \ {o} : tx'[q].pc = "commit" => tx'[q].id # tx'[o].id
    BY <1>2, Zenon DEF Ids
  <2>4. CASE o = t
    BY <1>3, <1>5, <2>2, <2>3, <2>4, Zenon
  <2>5. CASE o # t
    <3>1. tx'[o] = tx[o]
      BY <1>3, <2>5, Zenon
    <3>2. /\ \A e \in log : e.id # tx[o].id
          /\ \A q \in Txs \ {o} : tx[q].pc = "commit" => tx[q].id # tx[o].id
      BY <3>1, Zenon DEF JInv, Ids
    <3>3. tx[o].id # nextId
      BY <2>3, <3>1, ZenonT(30)
    <3> QED
      BY <1>3, <1>5, <3>1, <3>2, <3>3, Zenon
  <2> QED
    BY <2>4, <2>5, Zenon
<1>14. Fresh'
  BY <1>2, <1>9, SameFresh, Zenon DEF JInv, Fresh
<1> QED
  BY <1>8, <1>10, <1>11, <1>12, <1>13, <1>14, ZenonT(30) DEF JInv

\* COMMIT publishes the versions of t and marks as raced whoever read them.
LEMMA CommitJ ==
    ASSUME IInv, IInv', JInv, NEW t \in Txs, Commit(t)
    PROVE  JInv'
<1>1. /\ tx[t].pc = "commit" /\ tx'[t] = Idle
      /\ \A o \in Txs \ {t} : \/ tx'[o] = tx[o]
                              \/ tx[o].pc = "write" /\ tx'[o] = [tx[o] EXCEPT !.raced = TRUE]
      /\ log' = log \cup {Entry(t)} /\ newest' = newest
  BY CommitFrame, Zenon
<1>2. \A x \in Rows : lock[x] = t => rows'[x] = newest[x] /\ lock'[x] = None
  BY CommitFrame, Zenon
<1>3. \A x \in Rows : lock[x] # t => rows'[x] = rows[x] /\ lock'[x] = lock[x]
  BY CommitFrame, Zenon
<1>4. tx \in [Txs -> TxRec] /\ Idle.pc = "idle"
  BY Zenon DEF IInv, TypeOK, Idle
<1>5. \A o \in Txs \ {t} :
        /\ tx'[o].pc = tx[o].pc /\ tx'[o].row = tx[o].row /\ tx'[o].id = tx[o].id
        /\ tx'[o].op = tx[o].op /\ tx'[o].on = tx[o].on /\ tx'[o].actor = tx[o].actor
        /\ tx'[o].before = tx[o].before /\ tx'[o].was = tx[o].was
  <2> TAKE o \in Txs \ {t}
  <2>1. CASE tx'[o] = tx[o]
    BY <2>1, Zenon
  <2>2. CASE tx'[o] = [tx[o] EXCEPT !.raced = TRUE]
    <3>1. tx[o] \in TxRec
      BY <1>4, Zenon
    <3> QED
      BY <2>2, <3>1, Zenon DEF TxRec
  <2> QED
    BY <1>1, <2>1, <2>2, Zenon
<1>6. \A o \in Txs \ {t} : ~tx'[o].raced => ~tx[o].raced
  <2>1. \A o \in Txs : [tx[o] EXCEPT !.raced = TRUE].raced = TRUE
    BY <1>4, ZenonT(30) DEF TxRec
  <2> QED
    BY <1>1, <2>1, Zenon
<1>7. ~Holding(t)' /\ Holding(t) /\ \A o \in Txs \ {t} : Holding(o)' <=> Holding(o)
  BY <1>1, <1>4, <1>5, Zenon DEF Holding
<1>8. UserRows \subseteq Rows /\ Databases \subseteq Rows
  BY Zenon DEF Rows
<1>9. Clean'
  BY <1>1, <1>2, <1>3 DEF JInv, Clean
<1>10. OneLive'
  <2>1. \A x \in UserRows : EverLive(x)' => EverLive(x)
    BY <1>1, <1>2, <1>3, <1>8, Zenon DEF EverLive
  <2> QED
    BY <2>1, Zenon DEF JInv, OneLive
<1>11. OneName'
  <2>1. \A d \in Databases, n \in Vals : Bears(d, n)' => Bears(d, n)
    BY <1>1, <1>2, <1>3, <1>8, Zenon DEF Bears
  <2> QED
    BY <2>1, Zenon DEF JInv, OneName
<1>12. \A o \in Txs \ {t} : Holding(o) => tx[o].row \in Rows /\ rows'[tx[o].row] = rows[tx[o].row]
  BY <1>3, Zenon DEF IInv, Locked
<1>13. Target'
  BY <1>1, <1>4, <1>5, <1>7, <1>12 DEF JInv, Target, TargetOf, RowsOf
<1>14. Refs'
  <2>1. \A x \in Rows : rows[x].st # "absent" => rows'[x].st # "absent"
    BY <1>2, <1>3, AdminAssumption, ZenonT(30) DEF JInv, Clean
  <2> SUFFICES ASSUME NEW o \in Txs, Holding(o)', tx'[o].op = "create", tx'[o].row \in Grants
               PROVE  /\ rows'[GrantRow[tx'[o].row]].st # "absent"
                      /\ GrantDb[tx'[o].row] # Wildcard => rows'[GrantDb[tx'[o].row]].st # "absent"
    BY Zenon DEF Refs, RefsOf
  <2>2. o # t /\ Holding(o) /\ tx[o].op = "create" /\ tx'[o].row = tx[o].row
    BY <1>5, <1>7, Zenon
  <2>3. /\ rows[GrantRow[tx[o].row]].st # "absent"
        /\ GrantDb[tx[o].row] # Wildcard => rows[GrantDb[tx[o].row]].st # "absent"
    BY <2>2, Zenon DEF JInv, Refs, RefsOf
  <2>4. GrantRow[tx[o].row] \in Rows /\ (GrantDb[tx[o].row] # Wildcard => GrantDb[tx[o].row] \in Rows)
    BY <1>8, <2>2, AdminAssumption, ZenonT(30)
  <2> QED
    BY <2>1, <2>2, <2>3, <2>4, Zenon
<1>15. \A o \in Txs \ {t} : AfterWrite(o)' = AfterWrite(o) /\ RowsOf(tx[o].actor)' = RowsOf(tx[o].actor)
  BY <1>5, AfterWriteSame, Zenon
<1>16. Others'
  <2> SUFFICES ASSUME NEW o \in Txs, NEW x \in Rows, lock'[x] = o, x # tx'[o].row
               PROVE  /\ tx'[o].pc # "actor" /\ AfterWrite(o)' = "actor"
                      /\ x \in RowsOf(tx[o].actor)'
                      /\ newest'[x].st = "live" /\ rows'[x].st \in {"live", "absent"}
    BY Zenon DEF Others
  <2>1. lock[x] # t /\ lock[x] = o /\ o # t /\ rows'[x] = rows[x]
    BY <1>2, <1>3, AdminAssumption, ZenonT(30)
  <2> QED
    BY <1>1, <1>5, <1>15, <2>1 DEF JInv, Others
<1>17. Acted'
  <2> SUFFICES ASSUME NEW o \in Txs
               PROVE  /\ tx'[o].pc = "actor" => AfterWrite(o)' = "actor"
                      /\ tx'[o].pc \in {"audit", "commit"} /\ AfterWrite(o)' = "actor" =>
                           \E x \in RowsOf(tx[o].actor)' : lock'[x] = o
    BY Zenon DEF Acted
  <2>1. CASE o = t
    BY <1>1, <1>4, <2>1, ZenonT(30)
  <2>2. CASE o # t
    <3>1. \A x \in RowsOf(tx[o].actor) : lock[x] = o => lock'[x] = o
      BY <1>3, <1>8, <2>2, Zenon DEF RowsOf
    <3> QED
      BY <1>5, <1>15, <2>2, <3>1 DEF JInv, Acted
  <2> QED
    BY <2>1, <2>2, Zenon
<1>18. Ids'
  <2>1. Entry(t).id = tx[t].id
    BY ZenonT(30) DEF Entry
  <2> QED
    BY <1>1, <1>4, <1>5, <2>1 DEF JInv, Ids
<1>19. Fresh'
  <2> SUFFICES ASSUME NEW o \in Txs, ~tx'[o].raced
               PROVE  /\ tx'[o].pc = "write" /\ tx'[o].on \in Subs =>
                           IF tx'[o].before = None
                           THEN \A x \in RowsOf(tx[o].on)' : rows'[x].st # "live"
                           ELSE /\ tx'[o].before \in RowsOf(tx[o].on)'
                                /\ rows'[tx'[o].before].st = "live"
                                /\ tx'[o].was = rows'[tx'[o].before].val
                      /\ tx'[o].pc = "write" /\ tx'[o].on \notin Subs =>
                           IF tx'[o].op = "create" THEN tx'[o].before = None
                           ELSE tx'[o].before = tx'[o].on /\ tx'[o].was = rows'[tx'[o].on].val
                      /\ Holding(o)' =>
                           IF rows'[tx'[o].row].st = "absent"
                           THEN tx'[o].before = None /\ tx'[o].op # "delete"
                           ELSE tx'[o].before = tx'[o].row /\ tx'[o].was = rows'[tx'[o].row].val
    BY ZenonT(30) DEF Fresh, FreshOf
  <2>1. CASE o = t
    BY <1>1, <1>4, <1>7, <2>1, ZenonT(30)
  <2>2. CASE o # t /\ tx[o].pc = "write"
    <3>1. tx[o].on \in Subs \cup Rows /\ ~Holding(o)' /\ ~tx[o].raced
      BY <1>5, <1>7, <1>6, <2>2, Zenon DEF IInv, Asked, Holding
    <3>2. /\ ~(tx[o].on \in {x \in Rows : lock[x] = t})
          /\ tx[o].on \in Subs => RowsOf(tx[o].on) \cap {x \in Rows : lock[x] = t} = {}
      <4>1. [tx[o] EXCEPT !.raced = TRUE].raced = TRUE
        BY <1>4, ZenonT(30) DEF TxRec
      <4> QED
        BY <2>2, <4>1, Zenon DEF Commit
    <3>3. tx[o].on \in Rows => rows'[tx[o].on] = rows[tx[o].on]
      BY <1>3, <3>2, Zenon
    <3>4. tx[o].on \in Subs => \A x \in RowsOf(tx[o].on) : rows'[x] = rows[x]
      BY <1>3, <1>8, <3>2, ZenonT(30) DEF RowsOf
    <3>5. /\ tx[o].on \in Subs =>
               IF tx[o].before = None THEN \A x \in RowsOf(tx[o].on) : rows[x].st # "live"
               ELSE /\ tx[o].before \in RowsOf(tx[o].on) /\ rows[tx[o].before].st = "live"
                    /\ tx[o].was = rows[tx[o].before].val
          /\ tx[o].on \notin Subs =>
               IF tx[o].op = "create" THEN tx[o].before = None
               ELSE tx[o].before = tx[o].on /\ tx[o].was = rows[tx[o].on].val
      BY <2>2, <3>1, Zenon DEF JInv, Fresh, FreshOf
    <3>6. CASE tx[o].on \in Subs
      <4>1. RowsOf(tx[o].on)' = RowsOf(tx[o].on)
        BY <1>5, <2>2, Zenon DEF RowsOf
      <4>2. /\ tx'[o].on = tx[o].on /\ tx'[o].before = tx[o].before /\ tx'[o].was = tx[o].was
        BY <1>5, <2>2, Zenon
      <4>3. IF tx'[o].before = None THEN \A x \in RowsOf(tx[o].on)' : rows'[x].st # "live"
            ELSE /\ tx'[o].before \in RowsOf(tx[o].on)' /\ rows'[tx'[o].before].st = "live"
                 /\ tx'[o].was = rows'[tx'[o].before].val
        BY <3>4, <3>5, <3>6, <4>1, <4>2, Zenon
      <4> QED
        BY <3>1, <3>6, <4>2, <4>3, Zenon
    <3>7. CASE tx[o].on \notin Subs
      BY <1>5, <2>2, <3>1, <3>3, <3>5, <3>7, Zenon
    <3> QED
      BY <3>6, <3>7, Zenon
  <2>3. CASE o # t /\ tx[o].pc # "write"
    <3>1. tx'[o].pc # "write" /\ ~tx[o].raced
      BY <1>5, <1>6, <2>3, Zenon
    <3>2. /\ tx'[o].row = tx[o].row /\ tx'[o].before = tx[o].before
          /\ tx'[o].was = tx[o].was /\ tx'[o].op = tx[o].op
      BY <1>5, <2>3, Zenon
    <3>3. Holding(o)' => Holding(o) /\ rows'[tx[o].row] = rows[tx[o].row]
      BY <1>7, <1>12, <2>3, Zenon
    <3>4. Holding(o) =>
            IF rows[tx[o].row].st = "absent" THEN tx[o].before = None /\ tx[o].op # "delete"
            ELSE tx[o].before = tx[o].row /\ tx[o].was = rows[tx[o].row].val
      BY <3>1, Zenon DEF JInv, Fresh, FreshOf
    <3> QED
      BY <3>1, <3>2, <3>3, <3>4, Zenon
  <2> QED
    BY <2>1, <2>2, <2>3, ZenonT(30)
<1> QED
  BY <1>9, <1>10, <1>11, <1>13, <1>14, <1>16, <1>17, <1>18, <1>19, ZenonT(30) DEF JInv

\* An upsert that does not wait finds the subject's rows as committed, so the
\* row it takes conflicts with no other.
LEMMA UpsertAlone ==
    ASSUME IInv, JInv, NEW t \in Txs, NEW u, ~Blocked(t), RowsOf(u) \subseteq Needed(t),
           \A y \in RowsOf(u) : lock[y] # t, NEW x \in RowsOf(u),
           IF LiveRowsOf(t, u) # {} THEN x \in LiveRowsOf(t, u) ELSE Seen(t, x).st = "absent"
    PROVE  /\ lock[x] = None /\ rows[x].st \in {"live", "absent"}
           /\ rows[x].st = "absent" => \A y \in RowsOf(u) : rows[y].st # "live"
           /\ \A y \in UserRows \ {x} : RowSub[y] = RowSub[x] => ~EverLive(y)
<1>1. \A y \in RowsOf(u) : y \in Rows /\ y \in UserRows /\ RowSub[y] = u
  BY Zenon DEF RowsOf, Rows
<1>2. \A y \in RowsOf(u) : lock[y] = None
  BY <1>1, Unlocked, Zenon DEF IInv
<1>3. \A y \in RowsOf(u) : Seen(t, y) = rows[y] /\ newest[y] = rows[y]
  BY <1>1, <1>2, Zenon DEF Seen, JInv, Clean
<1>4. CASE LiveRowsOf(t, u) # {}
  <2>1. x \in LiveRowsOf(t, u)
    BY <1>4, Zenon
  <2>2. rows[x].st = "live"
    BY <1>3, <2>1, Zenon DEF LiveRowsOf
  <2> QED
    BY <1>1, <1>2, <2>2, Zenon DEF JInv, OneLive, EverLive
<1>5. CASE LiveRowsOf(t, u) = {}
  <2>1. Seen(t, x).st = "absent" /\ \A y \in RowsOf(u) : Seen(t, y).st # "live"
    BY <1>5, Zenon DEF LiveRowsOf
  <2>2. \A y \in UserRows : RowSub[y] = RowSub[x] => y \in RowsOf(u)
    BY <1>1, Zenon DEF RowsOf
  <2> QED
    BY <1>2, <1>3, <2>1, <2>2, ZenonT(30) DEF EverLive
<1> QED
  BY <1>4, <1>5, ZenonT(30)

\* A new name that does not wait and is not taken is nobody else's.
LEMMA NameAlone ==
    ASSUME IInv, JInv, NEW t \in Txs, tx[t].pc = "write", tx[t].on \in Databases,
           tx[t].op # "delete", ~Blocked(t), ~NameTaken(t), NewName(t) \in Vals
    PROVE  \A d \in Databases \ {tx[t].on} : ~Bears(d, NewName(t))
<1> SUFFICES ASSUME NEW d \in Databases \ {tx[t].on}, Bears(d, NewName(t)) PROVE FALSE
  BY Zenon
<1>1. d \in Rows /\ tx[t].on \notin Subs
  BY AdminAssumption, Zenon DEF Rows
<1>2. d \in Named(NewName(t))
  BY Zenon DEF Named, Bears
<1>3. d \in Needed(t)
  BY <1>1, <1>2, Zenon DEF Needed
<1>4. lock[d] \in {None, t}
  BY <1>1, <1>3, Unlocked, Zenon DEF IInv
<1>5. Seen(t, d) = rows[d] /\ lock[d] # t
  BY <1>1, SeesCommitted, Zenon DEF Holding
<1>6. newest[d] = rows[d]
  BY <1>1, <1>4, <1>5, Zenon DEF JInv, Clean
<1> QED
  BY <1>5, <1>6, Zenon DEF Bears, NameTaken

\* Each statement of a request's transaction keeps JInv.
LEMMA StepJ ==
    ASSUME IInv, IInv', JInv, NEW t \in Txs, Step(t)
    PROVE  JInv'
<1>1. CASE ReadBefore(t)
  BY <1>1, ReadJ, Zenon
<1>2. CASE UpsertUser(t)
  <2>1. tx[t].pc = "write" /\ tx[t].on \in Subs /\ ~Blocked(t) /\ ~Holding(t)
    BY <1>2, Zenon DEF UpsertUser, Holding
  <2>2. PICK x \in RowsOf(tx[t].on) :
          /\ IF LiveRowsOf(t, tx[t].on) # {} THEN x \in LiveRowsOf(t, tx[t].on)
             ELSE Seen(t, x).st = "absent"
          /\ Wrote(t, x, Live(tx[t].arg), AfterWrite(t))
    BY <1>2, Zenon DEF UpsertUser, Upsert
  <2>3. x \in Rows /\ x \in UserRows /\ RowSub[x] = tx[t].on /\ x \notin Databases \cup Grants
    BY AdminAssumption, Zenon DEF RowsOf, Rows
  <2>4. RowsOf(tx[t].on) = Needed(t)
    BY <2>1, Zenon DEF Needed
  <2>5. \A y \in RowsOf(tx[t].on) : lock[y] # t
    BY <2>1, SeesCommitted, Zenon DEF RowsOf, Rows
  <2>6. /\ lock[x] = None /\ rows[x].st \in {"live", "absent"}
        /\ rows[x].st = "absent" => \A y \in RowsOf(tx[t].on) : rows[y].st # "live"
        /\ \A y \in UserRows \ {x} : RowSub[y] = RowSub[x] => ~EverLive(y)
    BY <2>1, <2>2, <2>4, <2>5, UpsertAlone, Zenon
  <2>7. tx[t].op = "create" /\ tx[t].arg \in Columns
    BY <2>1, AdminAssumption, Zenon DEF IInv, Asked
  <2>8. Live(tx[t].arg) \in Image /\ Live(tx[t].arg).st = "live"
    BY <2>7, ZenonT(30) DEF Image, Live
  <2>9. ~tx[t].raced => IF rows[x].st = "absent" THEN tx[t].before = None /\ tx[t].op # "delete"
                        ELSE tx[t].before = x /\ tx[t].was = rows[x].val
    <3> SUFFICES ASSUME ~tx[t].raced
                 PROVE  IF rows[x].st = "absent" THEN tx[t].before = None /\ tx[t].op # "delete"
                        ELSE tx[t].before = x /\ tx[t].was = rows[x].val
      BY Zenon
    <3>1. IF tx[t].before = None THEN \A y \in RowsOf(tx[t].on) : rows[y].st # "live"
          ELSE /\ tx[t].before \in RowsOf(tx[t].on) /\ rows[tx[t].before].st = "live"
               /\ tx[t].was = rows[tx[t].before].val
      BY <2>1, Zenon DEF JInv, Fresh, FreshOf
    <3>2. CASE rows[x].st = "absent"
      BY <2>6, <2>7, <3>1, <3>2, Zenon
    <3>3. CASE rows[x].st = "live"
      <4>1. tx[t].before # None /\ tx[t].before \in UserRows /\ RowSub[tx[t].before] = RowSub[x]
        BY <2>3, <3>1, <3>3, Zenon DEF RowsOf
      <4>2. tx[t].before = x
        BY <2>6, <3>1, <4>1, Zenon DEF EverLive
      <4> QED
        BY <3>1, <3>3, <4>1, <4>2, Zenon
    <3> QED
      BY <2>6, <3>2, <3>3, Zenon
  <2> QED
    <3>1. WriteOK(t, x, Live(tx[t].arg))
      BY <2>1, <2>3, <2>6, <2>8, <2>9, ZenonT(30) DEF WriteOK
    <3> QED
      BY <2>1, <2>2, <2>3, <2>6, <2>8, <3>1, WriteJ, Zenon
<1>3. CASE InsertGrant(t) \/ InsertDatabase(t)
  <2>1. /\ tx[t].pc = "write" /\ ~Blocked(t) /\ tx[t].op = "create" /\ tx[t].on \notin Subs
        /\ tx[t].on \notin UserRows /\ rows[tx[t].on].st = "absent"
    BY <1>3, AdminAssumption, ZenonT(30) DEF InsertGrant, InsertDatabase, Rows
  <2>2. CASE Rollback(t)
    BY <2>2, RollbackJ, Zenon
  <2>3. CASE ~Rollback(t)
    <3>1. tx[t].arg \in Columns
      BY <2>1, AdminAssumption, Zenon DEF IInv, Asked
    <3>2. Live(tx[t].arg) \in Image /\ Live(tx[t].arg).st = "live" /\ Live(tx[t].arg).val = tx[t].arg
      BY <3>1, ZenonT(30) DEF Image, Live
    <3>3. Wrote(t, tx[t].on, Live(tx[t].arg), AfterWrite(t))
      BY <1>3, <2>3, Zenon DEF InsertGrant, InsertDatabase
    <3>4. tx[t].on \in Grants => /\ rows[GrantRow[tx[t].on]].st # "absent"
                                 /\ GrantDb[tx[t].on] # Wildcard => rows[GrantDb[tx[t].on]].st # "absent"
      BY <1>3, <2>3, AdminAssumption, Zenon DEF InsertGrant, InsertDatabase
    <3>5. tx[t].on \in Databases => \A d \in Databases \ {tx[t].on} : ~Bears(d, tx[t].arg[1])
      <4> SUFFICES ASSUME tx[t].on \in Databases
                   PROVE  \A d \in Databases \ {tx[t].on} : ~Bears(d, tx[t].arg[1])
        BY ZenonT(30)
      <4>1. NewName(t) = tx[t].arg[1] /\ tx[t].arg[1] \in Vals
        BY <3>1 DEF NewName, Coalesce, Columns
      <4>2. ~NameTaken(t)
        BY <1>3, <2>3, AdminAssumption, Zenon DEF InsertGrant, InsertDatabase
      <4> QED
        BY <2>1, <4>1, <4>2, NameAlone, Zenon
    <3>6. ~tx[t].raced => tx[t].before = None
      BY <2>1, Zenon DEF JInv, Fresh, FreshOf
    <3>7. tx[t].on \in Rows /\ lock[tx[t].on] \in {None, t}
      BY <2>1, WriteFacts, Zenon
    <3> QED
      BY <2>1, <3>2, <3>3, <3>4, <3>5, <3>6, <3>7, WriteJ, Zenon DEF WriteOK
  <2> QED
    BY <2>2, <2>3, Zenon
<1>4. CASE UpdateRow(t)
  <2>1. tx[t].pc = "write" /\ ~Blocked(t) /\ tx[t].op = "patch" /\ tx[t].on \notin Subs
    BY <1>4, ZenonT(30) DEF UpdateRow, IInv, Asked
  <2>2. CASE Rollback(t)
    BY <2>2, RollbackJ, Zenon
  <2> DEFINE v == Coalesce(tx[t].arg, Seen(t, tx[t].on).val)
  <2>3. CASE ~Rollback(t)
    <3>1. tx[t].on \in Rows /\ tx[t].arg \in PatchArgs /\ lock[tx[t].on] \in {None, t}
      BY <2>1, WriteFacts, Zenon DEF IInv, Asked
    <3>2. /\ Wrote(t, tx[t].on, Live(v), AfterWrite(t))
          /\ Seen(t, tx[t].on).st = "live" /\ (tx[t].on \in Databases => ~NameTaken(t))
      BY <1>4, <2>3, Zenon DEF UpdateRow
    <3>3. Seen(t, tx[t].on) = rows[tx[t].on] /\ rows[tx[t].on].val \in Columns
      BY <2>1, <3>1, SeenCommitted, LiveImage, Zenon
    <3>4. v \in Columns
      BY <3>1, <3>3, CoalesceType, Zenon
    <3>5. Live(v) \in Image /\ Live(v).st = "live" /\ Live(v).val = v
      BY <3>4, Zenon DEF Image, Live
    <3>6. NewName(t) = v[1] /\ v[1] \in Vals
      BY <3>4 DEF NewName, Columns
    <3> HIDE DEF v
    <3>7. tx[t].on \in Databases => \A d \in Databases \ {tx[t].on} : ~Bears(d, v[1])
      BY <2>1, <3>2, <3>6, NameAlone, Zenon
    <3>8. tx[t].on \in UserRows =>
            \A y \in UserRows \ {tx[t].on} : RowSub[y] = RowSub[tx[t].on] => ~EverLive(y)
      BY <3>2, <3>3, ZenonT(30) DEF JInv, OneLive, EverLive
    <3>9. ~tx[t].raced => tx[t].before = tx[t].on /\ tx[t].was = rows[tx[t].on].val
      BY <2>1, Zenon DEF JInv, Fresh, FreshOf
    <3> QED
      BY <2>1, <3>1, <3>2, <3>3, <3>5, <3>7, <3>8, <3>9, WriteJ, ZenonT(30) DEF WriteOK
  <2> QED
    BY <2>2, <2>3, Zenon
<1>5. CASE SoftDelete(t)
  <2>1. tx[t].pc = "write" /\ ~Blocked(t) /\ tx[t].op = "delete" /\ tx[t].on \notin Subs
    BY <1>5, ZenonT(30) DEF SoftDelete, IInv, Asked
  <2>2. CASE Rollback(t)
    BY <2>2, RollbackJ, Zenon
  <2> DEFINE im == [st |-> "gone", val |-> Seen(t, tx[t].on).val]
  <2>3. CASE ~Rollback(t)
    <3>1. tx[t].on \in Rows /\ lock[tx[t].on] \in {None, t}
      BY <2>1, WriteFacts, Zenon
    <3>2. Wrote(t, tx[t].on, im, AfterWrite(t)) /\ Seen(t, tx[t].on).st = "live"
      BY <1>5, <2>3, Zenon DEF SoftDelete
    <3>3. Seen(t, tx[t].on) = rows[tx[t].on] /\ im \in Image /\ im.st = "gone"
      BY <2>1, <3>1, SeenCommitted, ZenonT(30) DEF Image
    <3> HIDE DEF im
    <3>4. ~tx[t].raced => tx[t].before = tx[t].on /\ tx[t].was = rows[tx[t].on].val
      BY <2>1, Zenon DEF JInv, Fresh, FreshOf
    <3> QED
      BY <2>1, <3>1, <3>2, <3>3, <3>4, WriteJ, Zenon DEF WriteOK
  <2> QED
    BY <2>2, <2>3, Zenon
<1>6. CASE UpsertActor(t)
  <2>1. tx[t].pc = "actor" /\ ~Blocked(t)
    BY <1>6, Zenon DEF UpsertActor
  <2>2. PICK x \in RowsOf(tx[t].actor) :
          /\ IF LiveRowsOf(t, tx[t].actor) # {} THEN x \in LiveRowsOf(t, tx[t].actor)
             ELSE Seen(t, x).st = "absent"
          /\ Wrote(t, x, Live(Snapshot[tx[t].actor]), "audit")
    BY <1>6, Zenon DEF UpsertActor, Upsert
  <2>3. RowsOf(tx[t].actor) = Needed(t)
    BY <2>1, Zenon DEF Needed
  <2>4. \A y \in RowsOf(tx[t].actor) : lock[y] # t
    <3>1. \A y \in RowsOf(tx[t].actor) : y \in Rows /\ y # tx[t].row
      BY <2>1, Zenon DEF RowsOf, Rows, IInv, Apart
    <3> QED
      BY <2>1, <3>1, Zenon DEF JInv, Others
  <2>5. /\ lock[x] = None /\ rows[x].st \in {"live", "absent"}
        /\ \A y \in UserRows \ {x} : RowSub[y] = RowSub[x] => ~EverLive(y)
    BY <2>1, <2>2, <2>3, <2>4, UpsertAlone, Zenon
  <2>6. Snapshot[tx[t].actor] \in Columns
    BY <2>1, AdminAssumption, Zenon DEF IInv, Asked
  <2>7. Live(Snapshot[tx[t].actor]) \in Image /\ Live(Snapshot[tx[t].actor]).st = "live"
    BY <2>6, Zenon DEF Image, Live
  <2> QED
    BY <2>1, <2>2, <2>5, <2>7, ActorJ, Zenon
<1>7. CASE LogAudit(t)
  BY <1>7, LogJ, Zenon
<1>8. CASE Commit(t)
  BY <1>8, CommitJ, Zenon
<1> QED
  BY <1>1, <1>2, <1>3, <1>4, <1>5, <1>6, <1>7, <1>8, ZenonT(30) DEF Step

\* Every step keeps JInv.
LEMMA NextJ == IInv /\ JInv /\ [Next]_vars => JInv'
<1> SUFFICES ASSUME IInv, JInv, [Next]_vars PROVE JInv'
  BY Zenon
<1>1. IInv'
  BY NextInv, Zenon
<1>2. CASE UNCHANGED vars
  <2>1. Clean' /\ OneLive' /\ OneName'
    BY <1>2, TablesSame, Zenon DEF vars
  <2>2. Target' /\ Refs' /\ Ids' /\ Fresh'
    BY <1>2, ZenonT(30) DEF vars, JInv, Target, TargetOf, Refs, RefsOf, Ids, Fresh, FreshOf, Holding, RowsOf
  <2>3. Others' /\ Acted'
    BY <1>2, StutterOthers, Zenon DEF vars, JInv
  <2> QED
    BY <2>1, <2>2, <2>3, Zenon DEF JInv
<1>3. CASE Next
  <2>1. PICK t \in Txs :
          \/ \E a \in Admins, op \in {"create", "patch", "delete"}, on \in Subs \cup Rows :
               \E arg \in Args(op) : Begin(t, a, op, on, arg)
          \/ Step(t)
          \/ Rollback(t)
    BY <1>3, Zenon DEF Next, Fail, DeadlockVictim
  <2> QED
    BY <1>1, <2>1, BeginJ, StepJ, RollbackJ, Zenon
<1> QED
  BY <1>2, <1>3, Zenon

\* Both invariants hold throughout.
LEMMA Invariants == Spec => [](IInv /\ JInv)
<1>1. Init => IInv /\ JInv
  BY InitInv, InitJ, Zenon
<1>2. IInv /\ JInv /\ [Next]_vars => (IInv /\ JInv)'
  BY NextInv, NextJ, Zenon
<1> QED
  BY <1>1, <1>2, PTL DEF Spec

\* The audit row of a change no other commit raced holds the row exactly as
\* the change found it, and says `create` only of a row that was not there
\* (the handlers' reads of `before`, admin/users/handlers.rs and siblings).
THEOREM AuditRowExact == Spec => AuditExact
<1> DEFINE Exact == \A t \in Txs : (Committing(t) /\ ~tx[t].raced) =>
        LET e == Entry(t) IN
            IF rows[e.target].st = "absent" THEN e.action = "create"
            ELSE e.before = e.target /\ e.was = rows[e.target].val
<1>1. IInv /\ JInv /\ [Next]_vars => [Exact]_vars
  <2> SUFFICES ASSUME JInv, NEW t \in Txs, Committing(t), ~tx[t].raced
               PROVE  IF rows[Entry(t).target].st = "absent" THEN Entry(t).action = "create"
                      ELSE Entry(t).before = Entry(t).target /\ Entry(t).was = rows[Entry(t).target].val
    BY Zenon
  <2>1. Holding(t)
    BY ZenonT(30) DEF Committing, Holding
  <2>2. IF rows[tx[t].row].st = "absent" THEN tx[t].before = None /\ tx[t].op # "delete"
        ELSE tx[t].before = tx[t].row /\ tx[t].was = rows[tx[t].row].val
    BY <2>1, Zenon DEF JInv, Fresh, FreshOf
  <2> QED
    BY <2>2, Zenon DEF Entry
<1>2. Spec => [][Exact]_vars
  BY <1>1, Invariants, PTL DEF Spec
<1> QED
  BY <1>2, Zenon DEF AuditExact

-----------------------------------------------------------------------------
\* The variables of AuditedStore under the refinement mapping.
Users == [x \in UserRows |-> AsSeen(rows[x], "live", "deleted")]
GrantsSeen == [g \in Grants |-> AsSeen(rows[g], PolicyOf[rows[g].val], "revoked")]
DatabasesSeen == [d \in Databases |-> AsSeen(rows[d], rows[d].val[1], "deleted")]
AuditSeen == {[id |-> e.id, actor |-> e.actor, target |-> e.target] : e \in log}

\* Making row x live is an upsert of its subject when no other row of the
\* subject is live.
LEMMA UpsertedIn ==
    ASSUME NEW us \in [UserRows -> {"absent", "live", "deleted"}], NEW x \in UserRows, NEW u,
           RowSub[x] = u, us[x] \in {"live", "absent"},
           \A y \in UserRows : RowSub[y] = u /\ us[y] = "live" => y = x
    PROVE  [z \in UserRows |-> IF z = x THEN "live" ELSE us[z]] \in Store!Upserted(us, u)
<1>1. CASE us[x] = "live"
  <2>1. [z \in UserRows |-> IF z = x THEN "live" ELSE us[z]] = us
    BY <1>1, Zenon
  <2>2. x \in Store!LiveRows(us, u)
    BY <1>1, Zenon DEF Store!LiveRows
  <2> QED
    BY <2>1, <2>2, Zenon DEF Store!Upserted
<1>2. CASE us[x] = "absent"
  <2>1. Store!LiveRows(us, u) = {}
    BY <1>2, Zenon DEF Store!LiveRows
  <2> QED
    BY <1>2, <2>1 DEF Store!Upserted
<1> QED
  BY <1>1, <1>2, ZenonT(30)

\* The user rows after a COMMIT: the handler's row as written, then the
\* actor's upsert if the handler does one.
LEMMA CommitUsers ==
    ASSUME IInv, JInv, NEW t \in Txs, Commit(t), NEW us,
           us = [z \in UserRows |-> IF z = tx[t].row THEN AsSeen(newest[z], "live", "deleted")
                                    ELSE Users[z]]
    PROVE  /\ AfterWrite(t) = "audit" => Users' = us
           /\ AfterWrite(t) = "actor" => Users' \in Store!Upserted(us, tx[t].actor)
<1> DEFINE r == tx[t].row
           a == tx[t].actor
<1>1. \A x \in Rows : rows'[x] = IF lock[x] = t THEN newest[x] ELSE rows[x]
  BY CommitFrame, ZenonT(30)
<1>2. tx[t].pc = "commit" /\ Holding(t)
  BY Zenon DEF Commit, Holding
<1>3. r \in Rows /\ lock[r] = t
  BY <1>2, Zenon DEF IInv, Locked
<1>4. \A z \in UserRows : z \in Rows /\ rows[z] \in Image /\ newest[z] \in Image
  BY Zenon DEF Rows, IInv, TypeOK
<1>5. us \in [UserRows -> {"absent", "live", "deleted"}]
  BY Zenon DEF Users, AsSeen
<1>6. ASSUME AfterWrite(t) = "audit" PROVE Users' = us
  <2>1. \A z \in UserRows : rows'[z] = IF z = r THEN newest[z] ELSE rows[z]
    BY <1>1, <1>3, <1>4, <1>6, Zenon DEF JInv, Others
  <2> QED
    BY <2>1, Zenon DEF Users
<1>7. ASSUME AfterWrite(t) = "actor" PROVE Users' \in Store!Upserted(us, a)
  <2>1. PICK y \in RowsOf(a) : lock[y] = t
    BY <1>2, <1>7, Zenon DEF JInv, Acted
  <2>2. y \in UserRows /\ y \in Rows /\ RowSub[y] = a
    BY Zenon DEF RowsOf, Rows
  <2>3. r \notin RowsOf(a)
    <3>1. tx[t].on \in Subs \cup Rows
      BY <1>2, Zenon DEF IInv, Asked
    <3>2. IF tx[t].on \in Subs THEN r \in RowsOf(tx[t].on) ELSE r = tx[t].on
      BY <1>2, Zenon DEF JInv, Target, TargetOf
    <3> QED
      BY <1>3, <1>7, <3>1, <3>2, AfterWriteApart, Zenon
  <2>4. y # r /\ newest[y].st = "live" /\ rows[y].st \in {"live", "absent"}
    BY <2>1, <2>2, <2>3, Zenon DEF JInv, Others
  <2>5. \A z \in UserRows : RowSub[z] = a /\ EverLive(z) => z = y
    BY <2>2, <2>4, Zenon DEF JInv, OneLive, EverLive
  <2>6. \A z \in UserRows : lock[z] = t /\ z # r => z = y
    <3> SUFFICES ASSUME NEW z \in UserRows, lock[z] = t, z # r PROVE z = y
      BY Zenon
    <3>1. z \in RowsOf(a) /\ newest[z].st = "live"
      BY <1>4, Zenon DEF JInv, Others
    <3> QED
      BY <2>5, <3>1, Zenon DEF RowsOf, EverLive
  <2>7. \A z \in UserRows : rows'[z] = IF z = r \/ z = y THEN newest[z] ELSE rows[z]
    BY <1>1, <1>3, <1>4, <2>1, <2>6, Zenon
  <2>8. Users' = [z \in UserRows |-> IF z = y THEN "live" ELSE us[z]]
    BY <2>4, <2>7, ZenonT(30) DEF Users, AsSeen
  <2>9. us[y] \in {"live", "absent"}
    BY <2>2, <2>4, Zenon DEF Users, AsSeen
  <2>10. \A z \in UserRows : RowSub[z] = a /\ us[z] = "live" => z = y
    <3> SUFFICES ASSUME NEW z \in UserRows, RowSub[z] = a, us[z] = "live" PROVE z = y
      BY Zenon
    <3>1. z # r
      BY <2>3, Zenon DEF RowsOf
    <3>2. rows[z].st = "live"
      BY <3>1, ZenonT(30) DEF Users, AsSeen
    <3> QED
      BY <2>5, <3>2, Zenon DEF EverLive
  <2> HIDE DEF a, r
  <2>11. [z \in UserRows |-> IF z = y THEN "live" ELSE us[z]] \in Store!Upserted(us, a)
    BY <1>5, <2>2, <2>9, <2>10, UpsertedIn, ZenonT(40)
  <2> QED
    BY <2>8, <2>11, Zenon
<1> QED
  BY <1>6, <1>7, Zenon

\* A COMMIT adds exactly one audit row, of its author about its row.
LEMMA CommitAudit ==
    ASSUME IInv, JInv, NEW t \in Txs, Commit(t)
    PROVE  \E e \in AuditSeen' :
             /\ AuditSeen' = AuditSeen \cup {e}
             /\ e.actor = tx[t].actor /\ e.target = tx[t].row
             /\ \A f \in AuditSeen : f.id # e.id
<1> DEFINE e == [id |-> tx[t].id, actor |-> tx[t].actor, target |-> tx[t].row]
<1>1. log' = log \cup {Entry(t)} /\ tx[t].pc = "commit"
  BY CommitFrame, Zenon
<1>2. Entry(t).id = tx[t].id /\ Entry(t).actor = tx[t].actor /\ Entry(t).target = tx[t].row
  BY Zenon DEF Entry
<1>3. AuditSeen' = AuditSeen \cup {e}
  BY <1>1, <1>2, ZenonT(30) DEF AuditSeen
<1>4. \A f \in AuditSeen : f.id # e.id
  <2>1. \A l \in log : l.id # tx[t].id
    BY <1>1, Zenon DEF JInv, Ids
  <2> SUFFICES ASSUME NEW l \in log
               PROVE  [id |-> l.id, actor |-> l.actor, target |-> l.target].id # e.id
    BY Zenon DEF AuditSeen
  <2> QED
    BY <2>1, Zenon
<1> QED
  BY <1>3, <1>4, Zenon

\* A COMMIT is one of the atomic audited writes.
LEMMA CommitIsWrite ==
    ASSUME IInv, JInv, NEW t \in Txs, Commit(t),
           NEW r, r = tx[t].row, NEW a, a = tx[t].actor
    PROVE  Store!AuditedNext
<1> DEFINE us == [z \in UserRows |-> IF z = r THEN AsSeen(newest[z], "live", "deleted") ELSE Users[z]]
<1>1. tx[t].pc = "commit" /\ Holding(t)
  BY ZenonT(30) DEF Commit, Holding
<1>2. /\ r \in Rows /\ lock[r] = t /\ a \in Admins /\ tx[t].on \in Subs \cup Rows
      /\ tx[t].op \in {"create", "patch", "delete"} /\ (tx[t].on \in Subs => tx[t].op = "create")
  BY <1>1, Zenon DEF IInv, Locked, Asked
<1>3. \A x \in Rows : rows'[x] = IF lock[x] = t THEN newest[x] ELSE rows[x]
  BY CommitFrame, ZenonT(30)
<1>4. \A x \in Grants \cup Databases : x \in Rows /\ rows'[x] = IF x = r THEN newest[x] ELSE rows[x]
  <2>1. \A x \in Grants \cup Databases : x \in Rows /\ x \notin UserRows
    BY AdminAssumption, Zenon DEF Rows
  <2> QED
    BY <1>2, <1>3, <2>1, Zenon DEF JInv, Others, RowsOf
<1>5. newest[r].st = IF tx[t].op = "delete" THEN "gone" ELSE "live"
  BY <1>1, Zenon DEF IInv, Made
<1>6. /\ tx[t].on \in Subs => r \in RowsOf(tx[t].on) /\ rows[r].st \in {"live", "absent"}
      /\ tx[t].on \notin Subs => r = tx[t].on /\ rows[r].st = IF tx[t].op = "create" THEN "absent" ELSE "live"
      /\ tx[t].op = "create" => tx[t].on \notin UserRows
  BY <1>1, Zenon DEF JInv, Target, TargetOf
<1>7. /\ AfterWrite(t) = "audit" => Users' = us
      /\ AfterWrite(t) = "actor" => Users' \in Store!Upserted(us, a)
  BY CommitUsers, Zenon
<1>8. PICK e \in AuditSeen' : /\ AuditSeen' = AuditSeen \cup {e} /\ e.actor = a /\ e.target = r
                              /\ \A f \in AuditSeen : f.id # e.id
  BY CommitAudit, Zenon
<1>9. r \notin Grants => GrantsSeen' = GrantsSeen
  BY <1>4, Zenon DEF GrantsSeen
<1>10. r \notin Databases => DatabasesSeen' = DatabasesSeen
  BY <1>4, Zenon DEF DatabasesSeen
<1>11. r \notin UserRows => us = Users
  BY Zenon DEF Users
<1>12. rows \in [Rows -> Image] /\ newest \in [Rows -> Image]
  BY Zenon DEF IInv, TypeOK
<1>13. CASE r \in UserRows
  <2>1. GrantsSeen' = GrantsSeen /\ DatabasesSeen' = DatabasesSeen
    BY <1>9, <1>10, <1>13, AdminAssumption, Zenon
  <2>2. /\ a = RowSub[r] => AfterWrite(t) = "audit"
        /\ a # RowSub[r] => AfterWrite(t) = "actor"
    BY <1>2, <1>6, <1>13, AdminAssumption, Zenon DEF AfterWrite, UsersRequest, TargetSub, RowsOf
  <2>3. Users' \in Store!WithActor(us, a, RowSub[r])
    BY <1>7, <2>2, Zenon DEF Store!WithActor
  <2>4. CASE tx[t].on \in Subs
    <3>1. RowSub[r] = tx[t].on /\ tx[t].op = "create" /\ rows[r].st \in {"live", "absent"}
      BY <1>2, <1>6, <2>4, Zenon DEF RowsOf
    <3>2. us = [z \in UserRows |-> IF z = r THEN "live" ELSE Users[z]]
      BY <1>5, <3>1, Zenon DEF AsSeen
    <3>3. Users \in [UserRows -> {"absent", "live", "deleted"}] /\ Users[r] \in {"live", "absent"}
      BY <1>13, <3>1, Zenon DEF Users, AsSeen
    <3>4. \A y \in UserRows : RowSub[y] = RowSub[r] /\ Users[y] = "live" => y = r
      <4>1. EverLive(r)
        BY <1>5, <3>1, Zenon DEF EverLive
      <4>2. \A y \in UserRows : Users[y] = "live" => EverLive(y)
        BY Zenon DEF Users, AsSeen, EverLive
      <4> QED
        BY <1>13, <4>1, <4>2, Zenon DEF JInv, OneLive
    <3>5. us \in Store!Upserted(Users, RowSub[r])
      BY <1>13, <3>2, <3>3, <3>4, UpsertedIn, Zenon
    <3>6. Users'[r] = "live"
      BY <1>2, <1>3, <1>5, <1>13, <3>1, Zenon DEF Users, AsSeen
    <3> HIDE DEF us
    <3>7. Store!UserCreate(a, RowSub[r])
      BY <2>1, <2>3, <3>5, Zenon DEF Store!UserCreate, Users, GrantsSeen, DatabasesSeen
    <3>8. Store!AuditedUserWrite(a, r)
      BY <1>8, <3>6, <3>7, ZenonT(30) DEF Store!AuditedUserWrite, Store!Audited, Users, AuditSeen
    <3> QED
      BY <1>2, <1>13, <3>8, Zenon DEF Store!AuditedNext
  <2>5. CASE tx[t].on \notin Subs /\ tx[t].op = "patch"
    <3>1. us = Users /\ Users[r] = "live"
      BY <1>5, <1>6, <1>13, <2>5, Zenon DEF Users, AsSeen
    <3> HIDE DEF us
    <3>2. Store!UserPatch(a, r)
      BY <2>1, <2>3, <3>1, Zenon DEF Store!UserPatch, Users, GrantsSeen, DatabasesSeen
    <3>3. Store!AuditedUserWrite(a, r)
      BY <1>8, <3>2, Zenon DEF Store!AuditedUserWrite, Store!Audited, AuditSeen
    <3> QED
      BY <1>2, <1>13, <3>3, Zenon DEF Store!AuditedNext
  <2>6. CASE tx[t].on \notin Subs /\ tx[t].op = "delete"
    <3>1. us = [Users EXCEPT ![r] = "deleted"] /\ Users[r] = "live"
      BY <1>5, <1>6, <1>13, <2>6, Zenon DEF Users, AsSeen
    <3> HIDE DEF us
    <3>2. Store!UserDelete(a, r)
      BY <2>1, <2>3, <3>1, Zenon DEF Store!UserDelete, Users, GrantsSeen, DatabasesSeen
    <3>3. Store!AuditedUserWrite(a, r)
      BY <1>8, <3>2, Zenon DEF Store!AuditedUserWrite, Store!Audited, AuditSeen
    <3> QED
      BY <1>2, <1>13, <3>3, Zenon DEF Store!AuditedNext
  <2> QED
    BY <1>2, <1>6, <1>13, <2>4, <2>5, <2>6, ZenonT(30)
<1>14. ASSUME r \notin UserRows
       PROVE  Users' \in Store!Upserted(Users, a) /\ r = tx[t].on /\ tx[t].on \notin Subs
  <2>1. tx[t].on \notin Subs /\ r = tx[t].on
    BY <1>6, <1>14, Zenon DEF RowsOf
  <2>2. AfterWrite(t) = "actor"
    BY <1>14, <2>1, Zenon DEF AfterWrite, UsersRequest
  <2> QED
    BY <1>7, <1>11, <1>14, <2>1, <2>2, Zenon
<1>15. CASE r \in Grants
  <2>1. r \notin UserRows /\ r \notin Databases
    BY <1>15, AdminAssumption, Zenon
  <2>2. DatabasesSeen' = DatabasesSeen /\ Users' \in Store!Upserted(Users, a)
    BY <1>10, <1>14, <2>1, Zenon
  <2>3. rows[r].st = IF tx[t].op = "create" THEN "absent" ELSE "live"
    BY <1>6, <1>14, <2>1, Zenon
  <2>4. /\ PolicyOf[newest[r].val] \in Policies /\ PolicyOf[rows[r].val] \in Policies
    BY <1>2, <1>12, LiveImage, AdminAssumption, Zenon
  <2>5. GrantsSeen' = [GrantsSeen EXCEPT ![r] = IF tx[t].op = "delete" THEN "revoked"
                                                ELSE PolicyOf[newest[r].val]]
    <3>1. rows'[r] = newest[r] /\ \A g \in Grants \ {r} : rows'[g] = rows[g]
      BY <1>4, <1>15, Zenon
    <3>2. AsSeen(newest[r], PolicyOf[newest[r].val], "revoked")
             = IF tx[t].op = "delete" THEN "revoked" ELSE PolicyOf[newest[r].val]
      BY <1>5, Zenon DEF AsSeen
    <3> QED
      BY <1>15, <3>1, <3>2, ZenonT(30) DEF GrantsSeen
  <2>6. CASE tx[t].op = "create"
    <3>1. GrantsSeen[r] = "absent"
      BY <1>15, <2>3, <2>6, Zenon DEF GrantsSeen, AsSeen
    <3>2. Users[GrantRow[r]] # "absent" /\ (GrantDb[r] # Wildcard => DatabasesSeen[GrantDb[r]] # "absent")
      <4>1. /\ rows[GrantRow[r]].st # "absent"
            /\ GrantDb[r] # Wildcard => rows[GrantDb[r]].st # "absent"
        BY <1>1, <1>15, <2>6, Zenon DEF JInv, Refs, RefsOf
      <4>2. GrantRow[r] \in UserRows /\ (GrantDb[r] # Wildcard => GrantDb[r] \in Databases)
        BY <1>15, AdminAssumption, Zenon
      <4>3. \A d \in Databases : rows[d].val[1] \in Vals
        BY <1>12, SMTT(30) DEF Image, Columns, Rows
      <4>4. Users[GrantRow[r]] # "absent"
        BY <1>12, <4>1, <4>2, Zenon DEF Users, AsSeen, Image, Rows
      <4>5. GrantDb[r] # Wildcard => DatabasesSeen[GrantDb[r]] # "absent"
        BY <1>12, <4>1, <4>2, <4>3, AdminAssumption, ZenonT(30) DEF DatabasesSeen, AsSeen, Image, Rows
      <4> QED
        BY <4>4, <4>5, Zenon
    <3>3. Store!GrantCreate(a, r, PolicyOf[newest[r].val])
      BY <2>2, <2>5, <2>6, <3>1, <3>2, Zenon DEF Store!GrantCreate, Users, GrantsSeen, DatabasesSeen
    <3>4. Store!AuditedGrantWrite(a, r)
      BY <1>8, <2>4, <3>3, ZenonT(30) DEF Store!AuditedGrantWrite, Store!Audited, AuditSeen
    <3> QED
      BY <1>2, <1>15, <3>4, Zenon DEF Store!AuditedNext
  <2>7. CASE tx[t].op = "patch"
    <3>1. GrantsSeen[r] \in Policies
      BY <1>15, <2>3, <2>4, <2>7, Zenon DEF GrantsSeen, AsSeen
    <3>2. Store!GrantPatch(a, r, PolicyOf[newest[r].val])
      BY <2>2, <2>5, <2>7, <3>1, Zenon DEF Store!GrantPatch, Users, GrantsSeen, DatabasesSeen
    <3>3. Store!AuditedGrantWrite(a, r)
      BY <1>8, <2>4, <3>2, ZenonT(30) DEF Store!AuditedGrantWrite, Store!Audited, AuditSeen
    <3> QED
      BY <1>2, <1>15, <3>3, Zenon DEF Store!AuditedNext
  <2>8. CASE tx[t].op = "delete"
    <3>1. GrantsSeen[r] \in Policies
      BY <1>15, <2>3, <2>4, <2>8, ZenonT(30) DEF GrantsSeen, AsSeen
    <3>2. Store!GrantDelete(a, r)
      BY <2>2, <2>5, <2>8, <3>1, Zenon DEF Store!GrantDelete, Users, GrantsSeen, DatabasesSeen
    <3>3. Store!AuditedGrantWrite(a, r)
      BY <1>8, <3>2, ZenonT(30) DEF Store!AuditedGrantWrite, Store!Audited, AuditSeen
    <3> QED
      BY <1>2, <1>15, <3>3, Zenon DEF Store!AuditedNext
  <2> QED
    BY <1>2, <2>6, <2>7, <2>8, Zenon
<1>16. CASE r \in Databases
  <2>1. r \notin UserRows /\ r \notin Grants
    BY <1>16, AdminAssumption, ZenonT(30)
  <2>2. GrantsSeen' = GrantsSeen /\ Users' \in Store!Upserted(Users, a)
    BY <1>9, <1>14, <2>1, Zenon
  <2>3. rows[r].st = IF tx[t].op = "create" THEN "absent" ELSE "live"
    BY <1>6, <1>14, <2>1, Zenon
  <2> DEFINE n == newest[r].val[1]
  <2>4. n \in Vals /\ rows[r].val[1] \in Vals /\ n \notin {"absent", "deleted"}
    BY <1>2, <1>12, AdminAssumption DEF Image, Columns
  <2>5. DatabasesSeen' = [DatabasesSeen EXCEPT ![r] = IF tx[t].op = "delete" THEN "deleted" ELSE n]
    <3>1. rows'[r] = newest[r] /\ \A d \in Databases \ {r} : rows'[d] = rows[d]
      BY <1>4, <1>16, Zenon
    <3>2. AsSeen(newest[r], n, "deleted") = IF tx[t].op = "delete" THEN "deleted" ELSE n
      BY <1>5, Zenon DEF AsSeen
    <3> QED
      BY <1>16, <3>1, <3>2, ZenonT(30) DEF DatabasesSeen
  <2>6. ASSUME tx[t].op # "delete" PROVE \A c \in Databases \ {r} : DatabasesSeen[c] # n
    <3> SUFFICES ASSUME NEW c \in Databases \ {r}, DatabasesSeen[c] = n PROVE FALSE
      BY Zenon
    <3>1. rows[c].st = "live" /\ rows[c].val[1] = n
      BY <2>4, Zenon DEF DatabasesSeen, AsSeen
    <3>2. newest[r].st = "live"
      BY <1>5, <2>6, Zenon
    <3> QED
      BY <1>16, <2>4, <3>1, <3>2, Zenon DEF JInv, OneName, Bears
  <2>7. CASE tx[t].op = "create"
    <3>1. DatabasesSeen[r] = "absent"
      BY <1>16, <2>3, <2>7, ZenonT(30) DEF DatabasesSeen, AsSeen
    <3>2. \A c \in Databases : DatabasesSeen[c] # n
      BY <2>4, <2>6, <2>7, <3>1, Zenon
    <3> HIDE DEF n
    <3>3. Store!DatabaseCreate(a, r, n)
      BY <2>2, <2>5, <2>7, <3>1, <3>2, Zenon DEF Store!DatabaseCreate, Users, GrantsSeen, DatabasesSeen
    <3>4. Store!AuditedDatabaseWrite(a, r)
      BY <1>8, <2>4, <3>3, ZenonT(30) DEF Store!AuditedDatabaseWrite, Store!Audited, AuditSeen
    <3> QED
      BY <1>2, <1>16, <3>4, ZenonT(30) DEF Store!AuditedNext
  <2>8. CASE tx[t].op = "patch"
    <3>1. DatabasesSeen[r] \in Vals
      BY <1>16, <2>3, <2>4, <2>8, ZenonT(30) DEF DatabasesSeen, AsSeen
    <3>2. \A c \in Databases \ {r} : DatabasesSeen[c] # n
      BY <2>6, <2>8, Zenon
    <3> HIDE DEF n
    <3>3. Store!DatabasePatch(a, r, n)
      BY <2>2, <2>5, <2>8, <3>1, <3>2, Zenon DEF Store!DatabasePatch, Users, GrantsSeen, DatabasesSeen
    <3>4. Store!AuditedDatabaseWrite(a, r)
      BY <1>8, <2>4, <3>3, ZenonT(30) DEF Store!AuditedDatabaseWrite, Store!Audited, AuditSeen
    <3> QED
      BY <1>2, <1>16, <3>4, ZenonT(30) DEF Store!AuditedNext
  <2>9. CASE tx[t].op = "delete"
    <3>1. DatabasesSeen[r] \in Vals
      BY <1>16, <2>3, <2>4, <2>9, Zenon DEF DatabasesSeen, AsSeen
    <3> HIDE DEF n
    <3>2. Store!DatabaseDelete(a, r)
      BY <2>2, <2>5, <2>9, <3>1, Zenon DEF Store!DatabaseDelete, Users, GrantsSeen, DatabasesSeen
    <3>3. Store!AuditedDatabaseWrite(a, r)
      BY <1>8, <3>2, Zenon DEF Store!AuditedDatabaseWrite, Store!Audited, AuditSeen
    <3> QED
      BY <1>2, <1>16, <3>3, ZenonT(30) DEF Store!AuditedNext
  <2> QED
    BY <1>2, <2>7, <2>8, <2>9, Zenon
<1> QED
  BY <1>2, <1>13, <1>15, <1>16, Zenon DEF Rows

\* Only a COMMIT changes the committed tables or the audit trail.
LEMMA OnlyCommits ==
    ASSUME Next, ~UNCHANGED <<rows, log>>
    PROVE  \E t \in Txs : Commit(t)
<1>1. PICK o \in Txs :
        \/ \E a \in Admins, op \in {"create", "patch", "delete"}, on \in Subs \cup Rows :
             \E arg \in Args(op) : Begin(o, a, op, on, arg)
        \/ Step(o)
        \/ Rollback(o)
  BY Zenon DEF Next, Fail, DeadlockVictim
<1>2. ~Rollback(o)
  BY Zenon DEF Rollback
<1>3. \A a, op, on, arg : ~Begin(o, a, op, on, arg)
  BY Zenon DEF Begin
<1>4. \A x, im, p : ~Wrote(o, x, im, p)
  BY Zenon DEF Wrote
<1>5. ~ReadBefore(o) /\ ~LogAudit(o)
  BY <1>2, Zenon DEF ReadBefore, LogAudit
<1>6. ~UpsertUser(o) /\ ~UpsertActor(o)
  BY <1>4, Zenon DEF UpsertUser, UpsertActor, Upsert
<1>7. ~InsertGrant(o) /\ ~InsertDatabase(o) /\ ~UpdateRow(o) /\ ~SoftDelete(o)
  BY <1>2, <1>4, Zenon DEF InsertGrant, InsertDatabase, UpdateRow, SoftDelete
<1> QED
  BY <1>1, <1>2, <1>3, <1>5, <1>6, <1>7, Zenon DEF Step

\* The schema's constraints hold of the tables the gateway starts over.
LEMMA InitRefines == Init => Store!AuditedInit
<1> SUFFICES ASSUME Init PROVE Store!AuditedInit
  BY Zenon
<1>1. rows \in [Rows -> Image] /\ UserRows \subseteq Rows /\ Grants \subseteq Rows /\ Databases \subseteq Rows
  BY Zenon DEF Init, Rows
<1>2. \A g \in Grants : PolicyOf[rows[g].val] \in Policies
  BY <1>1, LiveImage, AdminAssumption, Zenon
<1>3. \A d \in Databases : rows[d].val[1] \in Vals
  BY <1>1 DEF Image, Columns
<1>4. Users \in [UserRows -> {"absent", "live", "deleted"}]
  BY Zenon DEF Users, AsSeen
<1>5. GrantsSeen \in [Grants -> {"absent", "revoked"} \cup Policies]
  BY <1>2, Zenon DEF GrantsSeen, AsSeen
<1>6. DatabasesSeen \in [Databases -> {"absent", "deleted"} \cup Vals]
  BY <1>3, Zenon DEF DatabasesSeen, AsSeen
<1>7. Store!StoreTypeOK
  BY <1>4, <1>5, <1>6, Zenon DEF Store!StoreTypeOK, Users, GrantsSeen, DatabasesSeen
<1>8. \A x \in UserRows : /\ Users[x] = "live" => rows[x].st = "live"
                          /\ Users[x] = "absent" => rows[x].st = "absent"
  BY <1>1, Zenon DEF Users, AsSeen, Image
<1>9. Store!OneLiveRow
  <2>1. \A x, y \in UserRows : (Users[x] = "live" /\ Users[y] = "live" /\ RowSub[x] = RowSub[y]) => x = y
    BY <1>8, Zenon DEF Init
  <2> QED
    BY <2>1, Zenon DEF Store!OneLiveRow, Users
<1>10. \A d \in Databases : /\ DatabasesSeen[d] \in Vals => rows[d].st = "live" /\ rows[d].val[1] = DatabasesSeen[d]
                            /\ DatabasesSeen[d] = "absent" => rows[d].st = "absent"
  BY <1>1, <1>3, AdminAssumption, Zenon DEF DatabasesSeen, AsSeen, Image
<1>11. \A g \in Grants : GrantsSeen[g] # "absent" => rows[g].st # "absent"
  BY Zenon DEF GrantsSeen, AsSeen
<1>12. Store!ForeignKeys
  <2>1. \A g \in Grants : GrantsSeen[g] # "absent" =>
          /\ Users[GrantRow[g]] # "absent"
          /\ GrantDb[g] # Wildcard => DatabasesSeen[GrantDb[g]] # "absent"
    <3> TAKE g \in Grants
    <3>1. GrantRow[g] \in UserRows /\ (GrantDb[g] # Wildcard => GrantDb[g] \in Databases)
      BY AdminAssumption, Zenon
    <3> QED
      BY <1>8, <1>10, <1>11, <3>1, Zenon DEF Init
  <2> QED
    BY <2>1, Zenon DEF Store!ForeignKeys, Users, GrantsSeen, DatabasesSeen
<1>13. Store!NamesUnique
  <2>1. \A c, d \in Databases : (DatabasesSeen[c] \in Vals /\ DatabasesSeen[c] = DatabasesSeen[d]) => c = d
    BY <1>10 DEF Init
  <2> QED
    BY <2>1, ZenonT(30) DEF Store!NamesUnique, DatabasesSeen
<1>14. AuditSeen = {}
  BY Zenon DEF Init, AuditSeen
<1> QED
  BY <1>7, <1>9, <1>12, <1>13, <1>14, Zenon DEF Store!AuditedInit, Store!StoreInit, AuditSeen

\* However the transactions of the admin handlers interleave, fail or
\* deadlock, the committed tables and the audit trail change only by whole
\* admin writes with one audit row each (admin/mod.rs: "Every write commits a
\* permissions_audit row in the same transaction as the data write").
THEOREM AdminRefines == Spec => ImplementsAuditedStore
<1>1. IInv /\ JInv /\ [Next]_vars => [Store!AuditedNext]_(Store!auditedVars)
  <2> SUFFICES ASSUME IInv, JInv, [Next]_vars
               PROVE  Store!AuditedNext \/ UNCHANGED Store!auditedVars
    BY Zenon
  <2>1. CASE UNCHANGED <<rows, log>>
    BY <2>1, Zenon DEF Store!auditedVars, Store!storeVars
  <2>2. CASE ~UNCHANGED <<rows, log>>
    <3>1. Next
      BY <2>2, Zenon DEF vars
    <3>2. PICK t \in Txs : Commit(t)
      BY <2>2, <3>1, OnlyCommits, Zenon
    <3>3. \E r, a : r = tx[t].row /\ a = tx[t].actor
      BY Zenon
    <3> QED
      BY <3>2, <3>3, CommitIsWrite, Zenon
  <2> QED
    BY <2>1, <2>2, Zenon
<1> QED
  BY <1>1, Invariants, InitRefines, PTL DEF Spec, ImplementsAuditedStore, Store!AuditedSpec

=============================================================================
