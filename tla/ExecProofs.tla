----------------------------- MODULE ExecProofs -----------------------------
(***************************************************************************)
(* Proofs about a call on its target (AdapterRegistry, PgExec, MongoExec), *)
(* for any number of calls, databases, statements, row limits and          *)
(* connections.                                                            *)
(*                                                                         *)
(* The invariant says of every call how far it has read at its stage       *)
(* (RowsRead), that the connection it holds is its own and runs nothing    *)
(* but its statement, so that whatever other calls, their late cancels and *)
(* the pool do, a statement that was done before COMMIT is still done at   *)
(* COMMIT (OwnConn), and that every cancel was left by a call that ended   *)
(* as dropped or with a cut result, or is about to (CancelInv). One lemma  *)
(* says what a step cannot do to the calls that take no part in it         *)
(* (OthersKeep).                                                           *)
(***************************************************************************)
EXTENDS MongoExec, SequenceTheorems, TLAPS

Connected == {"pid", "set", "run", "describe", "commit", "cancel", "rollback"}
Running == {"run", "describe", "commit", "cancel", "rollback"}
Reading == {"run", "describe", "commit", "cancel", "rollback", "command", "drain"}
Using == {"begin", "command", "drain"} \cup Connected
Stages == {"idle", "read", "create", "init", "opening", "ended"} \cup Using

CallRecord ==
    [pc : Stages, db : Databases \cup {None}, stmt : Stmts \cup {None}, limit : Nat,
     cell : Nat, adapter : Nat, conn : Conns \cup {None}, got : Nat]

ConnRecord ==
    [user : Calls \cup {None}, st : {"free", "open", "busy", "done", "failed"},
     of : Calls \cup {None}, limited : BOOLEAN]

Outcome ==
    [kind : {"success", "failed", "timeout", "gone", "unavailable", "forbidden_sql"},
     rows : Nat, truncated : BOOLEAN]

Cancel == [by : Calls, conn : Conns \cup {None}, inline : BOOLEAN]

Cells == [holder : Calls \cup {None}, adapter : Nat]

RegistryTypeOK ==
    slot \in [Databases -> Nat] /\ cells \in Seq(Cells) /\ opened \in Seq(Databases)

ExecTypeOK ==
    /\ RegistryTypeOK
    /\ call \in [Calls -> CallRecord]
    /\ conn \in [Conns -> ConnRecord]
    /\ cancels \subseteq Cancel
    /\ out \in [Calls -> Outcome \cup {None}]

\* A call in get_or_open has the cell of its database, and beyond it an adapter of its
\* database.
OwnCell(q) ==
    /\ call[q].pc \in {"init", "opening"} =>
         call[q].cell = slot[call[q].db] /\ call[q].cell # 0
    /\ call[q].pc = "opening" => cells[call[q].cell] = [holder |-> q, adapter |-> 0]
    /\ call[q].pc \in Using =>
         call[q].adapter \in 1..Len(opened) /\ opened[call[q].adapter] = call[q].db

\* A database has one cell, and the cell at most one adapter, the only one of its database.
TableInv ==
    /\ \A d \in Databases : slot[d] <= Len(cells)
    /\ \A d, e \in Databases : slot[d] # 0 /\ slot[d] = slot[e] => d = e
    /\ \A d \in Databases : slot[d] # 0 /\ cells[slot[d]].adapter # 0 =>
         /\ cells[slot[d]].adapter \in 1..Len(opened)
         /\ opened[cells[slot[d]].adapter] = d
    /\ \A i \in 1..Len(opened) :
         slot[opened[i]] # 0 /\ cells[slot[opened[i]]].adapter = i

RegistryInv == TableInv /\ \A q \in Calls : OwnCell(q)

\* How far a call has read, at each point of execute.
RowsRead(x) ==
    /\ x.pc \notin {"idle", "ended"} => x.db \in Databases
    /\ x.pc # "idle" => x.stmt \in Stmts /\ x.limit \in Limits
    /\ x.pc \in Reading => x.got <= x.limit /\ x.got <= x.stmt.rows
    /\ x.pc \notin Reading => x.got = 0
    /\ x.pc \in {"cancel", "rollback"} => x.got = x.limit /\ x.got < x.stmt.rows
    /\ x.pc = "describe" => x.got = x.stmt.rows \/ x.got = x.limit
    /\ x.pc = "commit" => x.got = x.stmt.rows
    /\ x.pc \in {"command", "drain"} => ~x.stmt.write

\* A call has a connection to itself, which runs its statement, and before COMMIT that is
\* done, unless the describe broke the transaction.
OwnConn(q) ==
    /\ call[q].pc \in Connected => call[q].conn \in Conns /\ conn[call[q].conn].user = q
    /\ call[q].pc \notin Connected => call[q].conn = None
    /\ call[q].pc \in Running => conn[call[q].conn].of = q
    /\ call[q].pc = "describe" /\ call[q].got = call[q].stmt.rows => conn[call[q].conn].st = "done"
    /\ call[q].pc = "commit" =>
         \/ conn[call[q].conn].st = "done"
         \/ conn[call[q].conn].st = "failed" /\ q \in aborted

\* What a call has answered. A success is exact, and a whole one of a write is committed.
Exact(o, limit, rows, broke) ==
    /\ o.rows <= limit
    /\ o.truncated = (rows > limit \/ broke)
    /\ o.rows = IF o.truncated THEN limit ELSE rows

Answered(q) ==
    /\ call[q].pc # "ended" => out[q] = None /\ q \notin torn
    /\ out[q] # None /\ out[q].kind = "success" =>
         /\ Exact(out[q], call[q].limit, call[q].stmt.rows, q \in torn)
         /\ ~out[q].truncated /\ call[q].stmt.write => q \in committed \cup aborted

CallsInv == \A q \in Calls : RowsRead(call[q]) /\ OwnConn(q) /\ Answered(q)

\* A cancel is detached by a call that has ended as dropped, or sent for a result that the
\* limit cuts, to the backend of its call as long as that waits for it.
Loose(q) == q \in Calls /\ call[q].pc = "ended" /\ (Dropped(q) \/ Cut(q))

Sent(c) ==
    \/ c.inline /\ call[c.by].pc = "rollback" /\ call[c.by].conn = c.conn
    \/ call[c.by].pc = "ended" /\ (Dropped(c.by) \/ (c.inline /\ Cut(c.by)))

CancelInv == (\A c \in cancels : Sent(c)) /\ (\A x \in stray : Loose(x.by))

\* A step of call q that goes on sends no cancel but the one for its cut result.
SendsOne(q) ==
    \/ cancels' = cancels
    \/ /\ cancels' = cancels \cup {Inline(q)}
       /\ call'[q].pc = "rollback" /\ call'[q].conn = call[q].conn

\* What a step of call q may do to the connections of others: only what they run may end.
ConnFrame(q) ==
    \A k \in Conns : conn[k].user \notin {None, q} =>
        /\ conn'[k].user = conn[k].user /\ conn'[k].of = conn[k].of
        /\ conn[k].st # "busy" => conn'[k].st = conn[k].st

ExecInv == ExecTypeOK /\ RegistryInv /\ CallsInv /\ CancelInv

\* The calls that take no part in a step keep what is known of them.
LEMMA OthersKeep ==
    ASSUME NEW q, CallsInv, ConnFrame(q), committed \subseteq committed', aborted \subseteq aborted',
           \A p \in Calls \ {q} : call'[p] = call[p] /\ out'[p] = out[p] /\ (p \in torn' <=> p \in torn)
    PROVE  \A p \in Calls \ {q} : RowsRead(call[p])' /\ OwnConn(p)' /\ Answered(p)'
<1> SUFFICES ASSUME NEW p \in Calls \ {q}
             PROVE  RowsRead(call[p])' /\ OwnConn(p)' /\ Answered(p)'
    BY Zenon
<1>0. /\ RowsRead(call[p]) /\ OwnConn(p) /\ Answered(p)
      /\ call'[p] = call[p] /\ out'[p] = out[p] /\ (p \in torn' <=> p \in torn)
    BY Zenon DEF CallsInv
<1>1. RowsRead(call[p])'
    BY <1>0, Zenon DEF RowsRead
<1>2. OwnConn(p)'
    <2>1. p \notin {None, q}
        BY RegistryAssumption, Zenon
    <2>2. CASE call[p].pc \in Connected
        <3>1. call[p].conn \in Conns /\ conn[call[p].conn].user = p
            BY <1>0, <2>2, Zenon DEF OwnConn
        <3>2. /\ conn'[call[p].conn].user = p /\ conn'[call[p].conn].of = conn[call[p].conn].of
              /\ conn[call[p].conn].st # "busy" => conn'[call[p].conn].st = conn[call[p].conn].st
            BY <2>1, <3>1, Zenon DEF ConnFrame
        <3> QED
            BY <1>0, <2>2, <3>1, <3>2, Zenon DEF OwnConn
    <2>3. CASE call[p].pc \notin Connected
        BY <1>0, <2>3, Zenon DEF OwnConn, Connected, Running
    <2> QED
        BY <2>2, <2>3, Zenon
<1>3. Answered(p)'
    BY <1>0, Zenon DEF Answered, Exact
<1> QED
    BY <1>1, <1>2, <1>3, Zenon

\* The registry keeps its invariant while a call moves on elsewhere.
LEMMA RegistryStays ==
    ASSUME RegistryInv, UNCHANGED registryVars,
           \A p \in Calls : call'[p] = call[p] \/ OwnCell(p)'
    PROVE  RegistryInv'
<1>1. slot' = slot /\ cells' = cells /\ opened' = opened
    BY Zenon DEF registryVars
<1>2. \A p \in Calls : OwnCell(p)'
    <2> SUFFICES ASSUME NEW p \in Calls, call'[p] = call[p] PROVE OwnCell(p)'
        BY Zenon
    <2> QED
        BY <1>1, Zenon DEF RegistryInv, OwnCell
<1> QED
    BY <1>1, <1>2, Zenon DEF RegistryInv, TableInv

\* A database with a slot has its cell in the list.
LEMMA SlotHasCell ==
    ASSUME RegistryTypeOK, TableInv, NEW d \in Databases, slot[d] # 0
    PROVE  slot[d] \in 1..Len(cells) /\ cells[slot[d]] \in Cells
<1>1. slot[d] \in Nat /\ slot[d] <= Len(cells) /\ Len(cells) \in Nat
    BY LenProperties, Zenon DEF RegistryTypeOK, TableInv
<1>2. slot[d] \in 1..Len(cells)
    BY <1>1
<1> QED
    BY <1>2, ElementOfSeq, Zenon DEF RegistryTypeOK

\* The permit of a cell is taken or given back.
LEMMA HolderChange ==
    ASSUME RegistryTypeOK, TableInv, NEW i \in 1..Len(cells), NEW h \in Calls \cup {None},
           cells' = [cells EXCEPT ![i].holder = h], UNCHANGED <<slot, opened>>
    PROVE  /\ RegistryTypeOK' /\ TableInv'
           /\ cells'[i] = [holder |-> h, adapter |-> cells[i].adapter]
           /\ \A j \in 1..Len(cells) : j # i => cells'[j] = cells[j]
<1> DEFINE y == [cells[i] EXCEPT !.holder = h]
<1>1. cells[i] \in Cells /\ cells \in Seq(Cells)
    BY ElementOfSeq, Zenon DEF RegistryTypeOK
<1>2. y \in Cells /\ y = [holder |-> h, adapter |-> cells[i].adapter]
    BY <1>1 DEF Cells
<1>3. cells' = [cells EXCEPT ![i] = y]
    BY Zenon
<1> HIDE DEF y
<1>4. /\ cells' \in Seq(Cells) /\ Len(cells') = Len(cells) /\ cells'[i] = y
      /\ \A j \in 1..Len(cells) : j # i => cells'[j] = cells[j]
    BY <1>1, <1>2, <1>3, ExceptSeq
<1>5. \A j \in 1..Len(cells) : cells'[j].adapter = cells[j].adapter
    <2>1. y.adapter = cells[i].adapter
        BY <1>2, Zenon
    <2> QED
        BY <1>4, <2>1, Zenon
<1>6. slot' = slot /\ opened' = opened
    BY Zenon
<1>7. \A d \in Databases : slot[d] # 0 => slot[d] \in 1..Len(cells)
    BY SlotHasCell, Zenon
<1>8. \A d \in Databases : slot[d] # 0 /\ cells'[slot[d]].adapter # 0 =>
         /\ cells'[slot[d]].adapter \in 1..Len(opened)
         /\ opened[cells'[slot[d]].adapter] = d
    BY <1>5, <1>7, Zenon DEF TableInv
<1>9. \A j \in 1..Len(opened) : slot[opened[j]] # 0 /\ cells'[slot[opened[j]]].adapter = j
    <2> SUFFICES ASSUME NEW j \in 1..Len(opened)
                 PROVE  slot[opened[j]] # 0 /\ cells'[slot[opened[j]]].adapter = j
        BY Zenon
    <2>1. opened[j] \in Databases
        BY ElementOfSeq, Zenon DEF RegistryTypeOK
    <2> QED
        BY <2>1, <1>5, <1>7, Zenon DEF TableInv
<1>10. TableInv'
    BY <1>4, <1>6, <1>8, <1>9 DEF TableInv
<1> QED
    BY <1>2, <1>4, <1>6, <1>10, Zenon DEF RegistryTypeOK

\* A cancel stays one of a call that has ended as dropped or cut, or will.
LEMMA CancelsKeep ==
    ASSUME CancelInv, cancels \subseteq Cancel,
           \A p \in Calls : call[p].pc = "ended" => call'[p] = call[p] /\ out'[p] = out[p],
           \A p \in Calls : call[p].pc = "rollback" => call'[p] = call[p] \/ Loose(p)',
           \A c \in cancels' : c \in cancels \/ Sent(c)',
           \A x \in stray' : x \in stray \/ Loose(x.by)
    PROVE  CancelInv'
<1>1. ASSUME NEW p, Loose(p) PROVE Loose(p)'
    BY <1>1, Zenon DEF Loose, Dropped, Cut
<1>2. ASSUME NEW c \in cancels PROVE Sent(c)'
    <2>1. Sent(c) /\ c.by \in Calls
        BY Zenon DEF CancelInv, Cancel
    <2>2. CASE c.inline /\ call[c.by].pc = "rollback" /\ call[c.by].conn = c.conn
        BY <2>1, <2>2, Zenon DEF Sent, Loose
    <2>3. CASE call[c.by].pc = "ended" /\ (Dropped(c.by) \/ (c.inline /\ Cut(c.by)))
        BY <2>1, <2>3, Zenon DEF Sent, Dropped, Cut
    <2> QED
        BY <2>1, <2>2, <2>3, Zenon DEF Sent
<1> QED
    BY <1>1, <1>2, Zenon DEF CancelInv

\* A call that moves on, without an answer yet.
LEMMA MoveStep ==
    ASSUME ExecInv, NEW q \in Calls,
           call[q].pc \notin {"ended", "rollback"}, call'[q].pc # "ended", SendsOne(q),
           call' \in [Calls -> CallRecord], \A p \in Calls \ {q} : call'[p] = call[p],
           RowsRead(call'[q]), OwnConn(q)', RegistryTypeOK', RegistryInv',
           conn' \in [Conns -> ConnRecord], ConnFrame(q), aborted \subseteq aborted',
           UNCHANGED <<out, committed, stray, torn>>
    PROVE  ExecInv'
<1>0. cancels \subseteq Cancel /\ call[q].conn \in Conns \cup {None}
    BY Zenon DEF ExecInv, ExecTypeOK, CallRecord
<1>1. ExecTypeOK'
    <2>1. Inline(q) \in Cancel
        BY <1>0, Zenon DEF Inline, Cancel
    <2>2. cancels' \subseteq Cancel
        BY <1>0, <2>1, Zenon DEF SendsOne
    <2> QED
        BY <2>2, Zenon DEF ExecInv, ExecTypeOK
<1>2. CallsInv'
    <2>1. \A p \in Calls \ {q} : RowsRead(call[p])' /\ OwnConn(p)' /\ Answered(p)'
        BY OthersKeep, Zenon DEF ExecInv
    <2>2. Answered(q)'
        BY Zenon DEF ExecInv, CallsInv, Answered
    <2>3. RowsRead(call[q])'
        BY Zenon DEF RowsRead
    <2> QED
        BY <2>1, <2>2, <2>3, Zenon DEF CallsInv
<1>3. CancelInv'
    <2>1. \A p \in Calls : call[p].pc = "ended" => call'[p] = call[p] /\ out'[p] = out[p]
        BY Zenon
    <2>2. \A p \in Calls : call[p].pc = "rollback" => call'[p] = call[p]
        BY Zenon
    <2>3. Inline(q).by = q /\ Inline(q).conn = call[q].conn /\ Inline(q).inline
        BY Zenon DEF Inline
    <2>4. \A c \in cancels' : c \in cancels \/ Sent(c)'
        <3>1. CASE cancels' = cancels
            BY <3>1, Zenon
        <3>2. CASE /\ cancels' = cancels \cup {Inline(q)}
                   /\ call'[q].pc = "rollback" /\ call'[q].conn = call[q].conn
            <4> DEFINE c == Inline(q)
            <4>1. c.by = q /\ c.conn = call'[q].conn /\ c.inline
                BY <2>3, <3>2, Zenon
            <4>2. \A b \in cancels' : b \in cancels \/ b = c
                BY <3>2, Zenon
            <4>3. ASSUME NEW b \in cancels', b = c PROVE Sent(b)'
                BY <3>2, <4>1, <4>3, Zenon DEF Sent
            <4> QED
                BY <4>2, <4>3, Zenon
        <3> QED
            BY <3>1, <3>2, Zenon DEF SendsOne
    <2> QED
        BY <1>0, <2>1, <2>2, <2>4, CancelsKeep, Zenon DEF ExecInv
<1> QED
    BY <1>1, <1>2, <1>3, Zenon DEF ExecInv

\* A call that ends gives back its cell and its connection.
LEMMA EndStep ==
    ASSUME ExecInv, NEW q \in Calls, NEW o \in Outcome, End(q, o),
           call[q].pc \notin {"idle", "ended"}, cells' = Unlocked(q),
           torn \subseteq torn', torn' \subseteq torn \cup {q}, committed \subseteq committed',
           o.kind = "success" =>
             /\ Exact(o, call[q].limit, call[q].stmt.rows, q \in torn')
             /\ ~o.truncated /\ call[q].stmt.write => q \in committed' \cup aborted,
           \/ cancels' = cancels
           \/ o.kind \in {"timeout", "gone"} /\ cancels' = cancels \cup {Detached(q)},
           call[q].pc = "rollback" => o.kind \in {"timeout", "gone"} \/ o.truncated,
           UNCHANGED <<slot, opened, aborted, stray>>
    PROVE  ExecInv'
<1> DEFINE x == [Fresh EXCEPT !.pc = "ended", !.stmt = call[q].stmt, !.limit = call[q].limit]
<1>0. /\ call \in [Calls -> CallRecord] /\ conn \in [Conns -> ConnRecord]
      /\ out \in [Calls -> Outcome \cup {None}] /\ RegistryTypeOK
      /\ call[q] \in CallRecord
    BY Zenon DEF ExecInv, ExecTypeOK
<1>1. /\ x.pc = "ended" /\ x.stmt = call[q].stmt /\ x.limit = call[q].limit /\ x.got = 0
      /\ x.conn = None
    BY Zenon DEF Fresh
<1>2. x \in CallRecord
    <2>1. call[q].stmt \in Stmts \cup {None} /\ call[q].limit \in Nat
        BY <1>0, Zenon DEF CallRecord
    <2> QED
        BY <2>1, Zenon DEF Fresh, CallRecord, Stages
<1>3. /\ call' \in [Calls -> CallRecord] /\ call'[q] = x
      /\ \A p \in Calls \ {q} : call'[p] = call[p]
    <2>1. call' = [call EXCEPT ![q] = x]
        BY Zenon DEF End
    <2> HIDE DEF x
    <2> QED
        BY <2>1, <1>0, <1>2, Zenon
<1>4. /\ out' \in [Calls -> Outcome \cup {None}] /\ out'[q] = o
      /\ \A p \in Calls \ {q} : out'[p] = out[p]
    <2>1. out' = [out EXCEPT ![q] = o]
        BY Zenon DEF End
    <2> QED
        BY <2>1, <1>0, Zenon
<1>5. conn' \in [Conns -> ConnRecord] /\ ConnFrame(q)
    <2>1. CASE call[q].conn = None
        <3>1. conn' = conn
            BY <2>1, Zenon DEF End
        <3> QED
            BY <3>1, <1>0, Zenon DEF ConnFrame
    <2>2. CASE call[q].conn # None
        <3> DEFINE k == call[q].conn
                   w == IF conn[k].st = "busy" THEN [conn[k] EXCEPT !.user = None] ELSE FreeConn
        <3>1. call[q].pc \in Connected /\ k \in Conns /\ conn[k].user = q
            BY <2>2, Zenon DEF ExecInv, CallsInv, OwnConn
        <3>2. conn' = [conn EXCEPT ![k] = w]
            BY <2>2, Zenon DEF End, Released
        <3>3. w \in ConnRecord
            <4>1. conn[k] \in ConnRecord
                BY <1>0, <3>1, Zenon
            <4>2. FreeConn \in ConnRecord
                BY Zenon DEF FreeConn, ConnRecord
            <4>3. [conn[k] EXCEPT !.user = None] \in ConnRecord
                BY <4>1, Zenon DEF ConnRecord
            <4> QED
                BY <4>2, <4>3, Zenon
        <3>4. \A j \in Conns : conn[j].user \notin {None, q} => j # k
            BY <3>1, Zenon
        <3> HIDE DEF w, k
        <3> QED
            BY <1>0, <3>1, <3>2, <3>3, <3>4, Zenon DEF ConnFrame
    <2> QED
        BY <2>1, <2>2, Zenon
<1>6. RegistryTypeOK' /\ RegistryInv'
    <2>1. \A p \in Calls \ {q} : OwnCell(p)
        BY Zenon DEF ExecInv, RegistryInv
    <2>2. CASE call[q].pc # "opening"
        <3>1. UNCHANGED registryVars
            BY <2>2, Zenon DEF Unlocked, registryVars
        <3>2. OwnCell(q)'
            BY <1>3, <1>1, Zenon DEF OwnCell, Using, Connected
        <3>3. RegistryInv'
            BY <3>1, <3>2, <1>3, RegistryStays, Zenon DEF ExecInv
        <3> QED
            BY <3>1, <3>3, <1>0, Zenon DEF RegistryTypeOK, registryVars
    <2>3. CASE call[q].pc = "opening"
        <3> DEFINE i == call[q].cell
        <3>1. /\ i = slot[call[q].db] /\ i # 0 /\ cells[i] = [holder |-> q, adapter |-> 0]
              /\ call[q].db \in Databases
            BY <2>3, Zenon DEF ExecInv, RegistryInv, OwnCell, CallsInv, RowsRead
        <3>2. i \in 1..Len(cells)
            BY <3>1, <1>0, SlotHasCell, Zenon DEF ExecInv, RegistryInv
        <3>3. cells' = [cells EXCEPT ![i].holder = None]
            BY <2>3, Zenon DEF Unlocked
        <3>4. /\ RegistryTypeOK' /\ TableInv'
              /\ \A j \in 1..Len(cells) : j # i => cells'[j] = cells[j]
            BY <3>2, <3>3, <1>0, HolderChange, ZenonT(30) DEF ExecInv, RegistryInv
        <3>9. \A p \in Calls \ {q} : OwnCell(p)'
            <4> SUFFICES ASSUME NEW p \in Calls \ {q} PROVE OwnCell(p)'
                BY Zenon
            <4>1. call'[p] = call[p] /\ OwnCell(p)
                BY <1>3, <2>1, Zenon
            <4>2. call[p].pc = "opening" => call[p].cell # i /\ call[p].cell \in 1..Len(cells)
                <5> HAVE call[p].pc = "opening"
                <5>1. /\ call[p].cell = slot[call[p].db] /\ call[p].cell # 0
                      /\ cells[call[p].cell] = [holder |-> p, adapter |-> 0]
                      /\ call[p].db \in Databases
                    BY <4>1, Zenon DEF OwnCell, ExecInv, CallsInv, RowsRead
                <5> QED
                    BY <5>1, <3>1, <1>0, SlotHasCell DEF ExecInv, RegistryInv
            <4> QED
                BY <4>1, <4>2, <3>4, Zenon DEF OwnCell
        <3>10. OwnCell(q)'
            BY <1>3, <1>1, Zenon DEF OwnCell, Using, Connected
        <3> QED
            BY <3>4, <3>9, <3>10, Zenon DEF RegistryInv
    <2> QED
        BY <2>2, <2>3, Zenon
<1>7. cancels \subseteq Cancel /\ cancels' \subseteq Cancel
    <2>1. cancels \subseteq Cancel /\ call[q].conn \in Conns \cup {None}
        BY Zenon DEF ExecInv, ExecTypeOK, CallRecord
    <2>2. Detached(q) \in Cancel
        BY <2>1, Zenon DEF Detached, Cancel
    <2> QED
        BY <2>1, <2>2, Zenon
<1>8. CallsInv'
    <2>1. \A p \in Calls \ {q} : RowsRead(call[p])' /\ OwnConn(p)' /\ Answered(p)'
        BY <1>3, <1>4, <1>5, OthersKeep, ZenonT(30) DEF ExecInv
    <2>2. RowsRead(call[q])'
        BY <1>1, <1>3, Zenon DEF ExecInv, CallsInv, RowsRead, Reading
    <2>3. OwnConn(q)'
        BY <1>1, <1>3, Zenon DEF OwnConn, Connected, Running
    <2>4. Answered(q)'
        BY <1>1, <1>3, <1>4, ZenonT(30) DEF Answered
    <2> QED
        BY <2>1, <2>2, <2>3, <2>4, ZenonT(30) DEF CallsInv
<1>9. CancelInv'
    <2>1. \A p \in Calls : call[p].pc = "ended" => call'[p] = call[p] /\ out'[p] = out[p]
        BY <1>3, <1>4, Zenon
    <2>2. call'[q].pc = "ended" /\ out'[q] = o
        BY <1>1, <1>3, <1>4, Zenon
    <2>3. \A p \in Calls : call[p].pc = "rollback" => call'[p] = call[p] \/ Loose(p)'
        <3>1. call[q].pc = "rollback" => Loose(q)'
            BY <2>2, Zenon DEF Loose, Dropped, Cut
        <3> QED
            BY <1>3, <3>1, Zenon
    <2>4. \A c \in cancels' : c \in cancels \/ Sent(c)'
        <3>1. CASE cancels' = cancels
            BY <3>1, Zenon
        <3>2. CASE o.kind \in {"timeout", "gone"} /\ cancels' = cancels \cup {Detached(q)}
            <4> DEFINE c == Detached(q)
            <4>1. c.by = q
                BY Zenon DEF Detached
            <4>2. \A b \in cancels' : b \in cancels \/ b = c
                BY <3>2, Zenon
            <4>3. ASSUME NEW b \in cancels', b = c PROVE Sent(b)'
                BY <2>2, <3>2, <4>1, <4>3, Zenon DEF Sent, Dropped
            <4> QED
                BY <4>2, <4>3, Zenon
        <3> QED
            BY <3>1, <3>2, Zenon
    <2> QED
        BY <1>7, <2>1, <2>3, <2>4, CancelsKeep, Zenon DEF ExecInv
<1> QED
    BY <1>3, <1>4, <1>5, <1>6, <1>7, <1>8, <1>9, Zenon DEF ExecInv, ExecTypeOK

\* A step of get_or_open moves its call only, which has no connection yet.
LEMMA LookupMoves ==
    ASSUME ExecInv, NEW q \in Calls, NEW x \in CallRecord,
           call[q].pc \in {"read", "create", "init", "opening"},
           x.pc \in {"create", "init", "opening", "begin"},
           x.db = call[q].db, x.stmt = call[q].stmt, x.limit = call[q].limit,
           x.conn = call[q].conn, x.got = call[q].got,
           call' = [call EXCEPT ![q] = x], UNCHANGED <<pgVars, torn>>,
           RegistryTypeOK', TableInv', OwnCell(q)', \A p \in Calls \ {q} : OwnCell(p)'
    PROVE  ExecInv'
<1>1. call \in [Calls -> CallRecord] /\ conn \in [Conns -> ConnRecord]
    BY Zenon DEF ExecInv, ExecTypeOK
<1>2. /\ call' \in [Calls -> CallRecord] /\ call'[q] = x
      /\ \A p \in Calls \ {q} : call'[p] = call[p]
    BY <1>1, Zenon
<1>3. RowsRead(call[q]) /\ OwnConn(q)
    BY Zenon DEF ExecInv, CallsInv
<1>4. RowsRead(x)
    BY <1>3, Zenon DEF RowsRead, Reading
<1>5. /\ conn' = conn /\ aborted' = aborted
      /\ UNCHANGED <<cancels, out, committed, stray, torn>>
    BY Zenon DEF pgVars
<1>6. OwnConn(q)'
    BY <1>2, <1>3, <1>5, Zenon DEF OwnConn, Connected, Running
<1>7. RegistryInv'
    BY Zenon DEF RegistryInv
<1>8. ConnFrame(q) /\ SendsOne(q)
    BY <1>5, Zenon DEF ConnFrame, SendsOne
<1> QED
    BY <1>1, <1>2, <1>4, <1>5, <1>6, <1>7, <1>8, MoveStep, ZenonT(30)

\* The read of the slot map, and the use of a cell that is set, change nothing but the call.
LEMMA ReadSlotStep ==
    ASSUME ExecInv, NEW q \in Calls, ReadSlot(q), UNCHANGED <<pgVars, torn>>
    PROVE  ExecInv'
<1> DEFINE c == slot[call[q].db]
           x == [call[q] EXCEPT !.pc = IF c = 0 THEN "create" ELSE "init", !.cell = c]
<1>1. /\ call \in [Calls -> CallRecord] /\ call[q] \in CallRecord /\ call[q].pc = "read"
      /\ RegistryTypeOK /\ RegistryInv /\ UNCHANGED registryVars
    BY Zenon DEF ExecInv, ExecTypeOK, ReadSlot
<1>2. call[q].db \in Databases
    BY <1>1, Zenon DEF ExecInv, CallsInv, RowsRead
<1>3. c \in Nat
    BY <1>1, <1>2, Zenon DEF RegistryTypeOK
<1>4. /\ x \in CallRecord /\ x.pc = (IF c = 0 THEN "create" ELSE "init") /\ x.cell = c
      /\ x.db = call[q].db /\ x.stmt = call[q].stmt /\ x.limit = call[q].limit
      /\ x.conn = call[q].conn /\ x.got = call[q].got
    BY <1>1, <1>3, ZenonT(30) DEF CallRecord, Stages
<1>5. call' = [call EXCEPT ![q] = x]
    BY <1>1, Zenon DEF ReadSlot
<1> HIDE DEF x
<1>6. call'[q] = x /\ \A p \in Calls \ {q} : call'[p] = call[p]
    BY <1>1, <1>5, Zenon
<1>7. slot' = slot /\ cells' = cells /\ opened' = opened
    BY <1>1, Zenon DEF registryVars
<1>8. OwnCell(q)'
    BY <1>4, <1>6, <1>7, ZenonT(30) DEF OwnCell, Using, Connected
<1>9. RegistryInv' /\ RegistryTypeOK'
    BY <1>1, <1>6, <1>7, <1>8, RegistryStays, ZenonT(30) DEF RegistryTypeOK
<1> QED
    BY <1>1, <1>4, <1>5, <1>9, LookupMoves, ZenonT(30) DEF RegistryInv

LEMMA UseAdapterStep ==
    ASSUME ExecInv, NEW q \in Calls, UseAdapter(q), UNCHANGED <<pgVars, torn>>
    PROVE  ExecInv'
<1> DEFINE a == cells[call[q].cell].adapter
           x == [call[q] EXCEPT !.pc = "begin", !.adapter = a]
<1>1. /\ call \in [Calls -> CallRecord] /\ call[q] \in CallRecord /\ call[q].pc = "init"
      /\ RegistryTypeOK /\ RegistryInv /\ UNCHANGED registryVars /\ a # 0
    BY Zenon DEF ExecInv, ExecTypeOK, UseAdapter
<1>2. call[q].db \in Databases /\ call[q].cell = slot[call[q].db] /\ call[q].cell # 0
    BY <1>1, Zenon DEF ExecInv, CallsInv, RowsRead, RegistryInv, OwnCell
<1>3. a \in 1..Len(opened) /\ opened[a] = call[q].db /\ a \in Nat
    BY <1>1, <1>2, SlotHasCell DEF RegistryInv, TableInv, Cells
<1>4. /\ x \in CallRecord /\ x.pc = "begin" /\ x.adapter = a
      /\ x.db = call[q].db /\ x.stmt = call[q].stmt /\ x.limit = call[q].limit
      /\ x.conn = call[q].conn /\ x.got = call[q].got
    BY <1>1, <1>3, Zenon DEF CallRecord, Stages, Using
<1>5. call' = [call EXCEPT ![q] = x]
    BY <1>1, Zenon DEF UseAdapter
<1> HIDE DEF x, a
<1>6. call'[q] = x /\ \A p \in Calls \ {q} : call'[p] = call[p]
    BY <1>1, <1>5, Zenon
<1>7. slot' = slot /\ cells' = cells /\ opened' = opened
    BY <1>1, Zenon DEF registryVars
<1>8. OwnCell(q)'
    BY <1>3, <1>4, <1>6, <1>7, Zenon DEF OwnCell
<1>9. RegistryInv' /\ RegistryTypeOK'
    BY <1>1, <1>6, <1>7, <1>8, RegistryStays, ZenonT(30) DEF RegistryTypeOK
<1> QED
    BY <1>1, <1>4, <1>5, <1>9, LookupMoves, ZenonT(30) DEF RegistryInv

\* The call that opens a cell is the only one to hold its permit.
LEMMA StartOpenStep ==
    ASSUME ExecInv, NEW q \in Calls, StartOpen(q), UNCHANGED <<pgVars, torn>>
    PROVE  ExecInv'
<1> DEFINE i == call[q].cell
           x == [call[q] EXCEPT !.pc = "opening"]
<1>1. /\ call \in [Calls -> CallRecord] /\ call[q] \in CallRecord /\ call[q].pc = "init"
      /\ RegistryTypeOK /\ RegistryInv /\ UNCHANGED <<slot, opened>>
      /\ cells[i] = [holder |-> None, adapter |-> 0] /\ cells' = [cells EXCEPT ![i].holder = q]
    BY Zenon DEF ExecInv, ExecTypeOK, StartOpen
<1>2. call[q].db \in Databases /\ i = slot[call[q].db] /\ i # 0
    BY <1>1, Zenon DEF ExecInv, CallsInv, RowsRead, RegistryInv, OwnCell
<1>3. i \in 1..Len(cells)
    BY <1>1, <1>2, SlotHasCell, ZenonT(30) DEF RegistryInv
<1>4. /\ x \in CallRecord /\ x.pc = "opening" /\ x.cell = i
      /\ x.db = call[q].db /\ x.stmt = call[q].stmt /\ x.limit = call[q].limit
      /\ x.conn = call[q].conn /\ x.got = call[q].got
    BY <1>1, Zenon DEF CallRecord, Stages
<1>5. call' = [call EXCEPT ![q] = x]
    BY <1>1, Zenon DEF StartOpen, Goto
<1> HIDE DEF x
<1>6. call'[q] = x /\ \A p \in Calls \ {q} : call'[p] = call[p]
    BY <1>1, <1>5, Zenon
<1>7. /\ RegistryTypeOK' /\ TableInv' /\ cells'[i] = [holder |-> q, adapter |-> 0]
      /\ \A j \in 1..Len(cells) : j # i => cells'[j] = cells[j]
    <2>1. cells[i].adapter = 0
        BY <1>1
    <2>2. TableInv /\ q \in Calls \cup {None} /\ UNCHANGED <<slot, opened>>
        BY <1>1, Zenon DEF RegistryInv
    <2>3. /\ RegistryTypeOK' /\ TableInv'
          /\ cells'[i] = [holder |-> q, adapter |-> cells[i].adapter]
          /\ \A j \in 1..Len(cells) : j # i => cells'[j] = cells[j]
        BY <1>1, <1>3, <2>2, HolderChange, ZenonT(30)
    <2> QED
        BY <2>1, <2>3, Zenon
<1>8. OwnCell(q)'
    BY <1>1, <1>2, <1>4, <1>6, <1>7, Zenon DEF OwnCell, Using, Connected
<1>9. ASSUME NEW p \in Calls \ {q} PROVE OwnCell(p)'
    <2>1. OwnCell(p) /\ call'[p] = call[p] /\ (call[p].pc = "opening" => call[p].db \in Databases)
        BY <1>1, <1>6, Zenon DEF RegistryInv, ExecInv, CallsInv, RowsRead
    <2>2. call[p].pc = "opening" => call[p].cell # i /\ call[p].cell \in 1..Len(cells)
        <3> HAVE call[p].pc = "opening"
        <3>1. /\ call[p].cell = slot[call[p].db] /\ call[p].cell # 0
              /\ cells[call[p].cell] = [holder |-> p, adapter |-> 0]
            BY <2>1, Zenon DEF OwnCell
        <3>2. p # None
            BY RegistryAssumption, Zenon
        <3> QED
            BY <1>1, <2>1, <3>1, <3>2, SlotHasCell DEF RegistryInv
    <2> QED
        BY <1>1, <1>7, <2>1, <2>2, Zenon DEF OwnCell
<1> QED
    BY <1>1, <1>4, <1>5, <1>7, <1>8, <1>9, LookupMoves, ZenonT(30)

\* The write lock: a database gets its slot once, and a cell of its own.
LEMMA CreateSlotStep ==
    ASSUME ExecInv, NEW q \in Calls, CreateSlot(q), UNCHANGED <<pgVars, torn>>
    PROVE  ExecInv'
<1> DEFINE d == call[q].db
           x == [call[q] EXCEPT !.pc = "init", !.cell = slot'[d]]
<1>1. /\ call \in [Calls -> CallRecord] /\ call[q] \in CallRecord /\ call[q].pc = "create"
      /\ RegistryTypeOK /\ RegistryInv /\ opened' = opened
    BY Zenon DEF ExecInv, ExecTypeOK, CreateSlot
<1>2. d \in Databases
    BY <1>1, Zenon DEF ExecInv, CallsInv, RowsRead
<1>3. /\ RegistryTypeOK' /\ TableInv' /\ slot'[d] \in Nat /\ slot'[d] # 0
      /\ \A e \in Databases : slot[e] # 0 => slot'[e] = slot[e]
      /\ \A j \in 1..Len(cells) : cells'[j] = cells[j]
    <2>1. CASE slot[d] # 0
        <3>1. slot' = slot /\ cells' = cells
            BY <2>1, Zenon DEF CreateSlot
        <3>2. RegistryTypeOK' /\ slot[d] \in Nat
            BY <1>1, <1>2, <3>1, ZenonT(30) DEF RegistryTypeOK
        <3> QED
            BY <1>1, <2>1, <3>1, <3>2, ZenonT(30) DEF RegistryInv, TableInv
    <2>2. CASE slot[d] = 0
        <3> DEFINE n == Len(cells) + 1
                   y == [holder |-> None, adapter |-> 0]
        <3>1. cells' = Append(cells, y)
            BY <2>2, Zenon DEF CreateSlot
        <3>2. cells \in Seq(Cells) /\ y \in Cells /\ Len(cells) \in Nat
            BY <1>1, LenProperties, Zenon DEF RegistryTypeOK, Cells
        <3>3. /\ cells' \in Seq(Cells) /\ Len(cells') = n /\ cells'[n] = y
              /\ \A j \in 1..Len(cells) : cells'[j] = cells[j]
            BY <3>1, <3>2, AppendProperties
        <3>4. slot' = [slot EXCEPT ![d] = n]
            BY <2>2, <3>3, Zenon DEF CreateSlot
        <3>5. /\ slot' \in [Databases -> Nat] /\ slot'[d] = n /\ n # 0
              /\ \A e \in Databases \ {d} : slot'[e] = slot[e]
            BY <1>1, <1>2, <3>2, <3>4 DEF RegistryTypeOK
        <3>6. RegistryTypeOK'
            BY <1>1, <3>3, <3>5, Zenon DEF RegistryTypeOK
        <3>7. \A e \in Databases : slot[e] \in Nat /\ slot[e] <= Len(cells)
            BY <1>1, Zenon DEF RegistryTypeOK, RegistryInv, TableInv
        <3>8. /\ \A e \in Databases : slot'[e] <= Len(cells')
              /\ \A e, f \in Databases : slot'[e] # 0 /\ slot'[e] = slot'[f] => e = f
            <4>1. \A e \in Databases \ {d} : slot'[e] <= Len(cells) /\ slot'[e] # n
                BY <3>2, <3>5, <3>7
            <4>2. \A e \in Databases : slot'[e] <= n
                BY <3>2, <3>5, <3>7
            <4>3. \A e, f \in Databases \ {d} : slot'[e] # 0 /\ slot'[e] = slot'[f] => e = f
                BY <1>1, <3>5 DEF RegistryInv, TableInv
            <4> HIDE DEF n
            <4> QED
                BY <3>3, <3>5, <4>1, <4>2, <4>3
        <3>9. ASSUME NEW e \in Databases, slot'[e] # 0, cells'[slot'[e]].adapter # 0
              PROVE  /\ cells'[slot'[e]].adapter \in 1..Len(opened)
                     /\ opened[cells'[slot'[e]].adapter] = e
            <4>1. y.adapter = 0
                BY Zenon
            <4>2. e # d
                BY <3>3, <3>5, <3>9, <4>1, ZenonT(30)
            <4>3. slot'[e] = slot[e] /\ slot[e] \in 1..Len(cells)
                BY <1>1, <3>5, <3>9, <4>2, SlotHasCell, ZenonT(30) DEF RegistryInv
            <4> QED
                BY <1>1, <3>3, <3>9, <4>3 DEF RegistryInv, TableInv
        <3>10. ASSUME NEW j \in 1..Len(opened)
               PROVE  slot'[opened[j]] # 0 /\ cells'[slot'[opened[j]]].adapter = j
            <4>1. opened[j] \in Databases
                BY <1>1, ElementOfSeq, ZenonT(30) DEF RegistryTypeOK
            <4>2. slot[opened[j]] # 0 /\ cells[slot[opened[j]]].adapter = j
                BY <1>1, Zenon DEF RegistryInv, TableInv
            <4>3. slot'[opened[j]] = slot[opened[j]] /\ slot[opened[j]] \in 1..Len(cells)
                BY <1>1, <2>2, <3>5, <4>1, <4>2, SlotHasCell DEF RegistryInv
            <4> QED
                BY <3>3, <4>2, <4>3, ZenonT(30)
        <3>11. TableInv'
            BY <1>1, <3>8, <3>9, <3>10, ZenonT(30) DEF TableInv
        <3> QED
            BY <2>2, <3>2, <3>3, <3>5, <3>6, <3>11
    <2> QED
        BY <2>1, <2>2, Zenon
<1>4. /\ x \in CallRecord /\ x.pc = "init" /\ x.cell = slot'[d]
      /\ x.db = call[q].db /\ x.stmt = call[q].stmt /\ x.limit = call[q].limit
      /\ x.conn = call[q].conn /\ x.got = call[q].got
    BY <1>1, <1>3, Zenon DEF CallRecord, Stages
<1>5. call' = [call EXCEPT ![q] = x]
    BY <1>1, Zenon DEF CreateSlot
<1> HIDE DEF x
<1>6. call'[q] = x /\ \A p \in Calls \ {q} : call'[p] = call[p]
    BY <1>1, <1>5, Zenon
<1>7. OwnCell(q)'
    BY <1>3, <1>4, <1>6, ZenonT(30) DEF OwnCell, Using, Connected
<1>8. ASSUME NEW p \in Calls \ {q} PROVE OwnCell(p)'
    <2>1. /\ OwnCell(p) /\ call'[p] = call[p]
          /\ call[p].pc \in {"init", "opening"} => call[p].db \in Databases
        BY <1>1, <1>6, Zenon DEF RegistryInv, ExecInv, CallsInv, RowsRead
    <2>2. call[p].pc \in {"init", "opening"} =>
            /\ call[p].cell \in 1..Len(cells) /\ slot'[call[p].db] = call[p].cell /\ call[p].cell # 0
            /\ cells'[call[p].cell] = cells[call[p].cell]
        BY <1>1, <1>3, <2>1, SlotHasCell, ZenonT(30) DEF RegistryInv, OwnCell
    <2> QED
        BY <1>1, <2>1, <2>2, ZenonT(30) DEF OwnCell
<1> QED
    BY <1>1, <1>3, <1>4, <1>5, <1>7, <1>8, LookupMoves, Zenon

\* The cell of an opened database has the newest adapter, the only one of its database.
LEMMA OpenDoneStep ==
    ASSUME ExecInv, NEW q \in Calls, OpenDone(q), UNCHANGED <<pgVars, torn>>
    PROVE  ExecInv'
<1> DEFINE d == call[q].db
           i == call[q].cell
           n == Len(opened) + 1
           y == [holder |-> None, adapter |-> n]
           x == [call[q] EXCEPT !.pc = "begin", !.adapter = n]
<1>1. /\ call \in [Calls -> CallRecord] /\ call[q] \in CallRecord /\ call[q].pc = "opening"
      /\ RegistryTypeOK /\ RegistryInv /\ slot' = slot /\ opened' = Append(opened, d)
    BY Zenon DEF ExecInv, ExecTypeOK, OpenDone
<1>2. /\ d \in Databases /\ i = slot[d] /\ i # 0
      /\ cells[i] = [holder |-> q, adapter |-> 0]
    BY <1>1, Zenon DEF ExecInv, CallsInv, RowsRead, RegistryInv, OwnCell
<1>3. i \in 1..Len(cells) /\ cells \in Seq(Cells) /\ opened \in Seq(Databases) /\ Len(opened) \in Nat
    BY <1>1, <1>2, SlotHasCell, LenProperties, ZenonT(30) DEF RegistryInv, RegistryTypeOK
<1>4. /\ opened' \in Seq(Databases) /\ Len(opened') = n /\ opened'[n] = d
      /\ \A j \in 1..Len(opened) : opened'[j] = opened[j]
    BY <1>1, <1>2, <1>3, AppendProperties
<1>5. /\ cells' \in Seq(Cells) /\ Len(cells') = Len(cells) /\ cells'[i] = y
      /\ \A j \in 1..Len(cells) : j # i => cells'[j] = cells[j]
    <2>1. cells' = [cells EXCEPT ![i] = y]
        BY <1>4, Zenon DEF OpenDone
    <2>2. y \in Cells
        BY <1>3 DEF Cells
    <2> HIDE DEF y, i
    <2> QED
        BY <1>3, <2>1, <2>2, ExceptSeq
<1>6. /\ x \in CallRecord /\ x.pc = "begin" /\ x.adapter = n
      /\ x.db = call[q].db /\ x.stmt = call[q].stmt /\ x.limit = call[q].limit
      /\ x.conn = call[q].conn /\ x.got = call[q].got
    <2>1. n \in Nat
        BY <1>3
    <2> HIDE DEF n
    <2> QED
        BY <1>1, <2>1, Zenon DEF CallRecord, Stages, Using
<1>7. call' = [call EXCEPT ![q] = x]
    BY <1>1, <1>4, Zenon DEF OpenDone
<1> HIDE DEF x
<1>8. call'[q] = x /\ \A p \in Calls \ {q} : call'[p] = call[p]
    BY <1>1, <1>7, Zenon
<1>9. RegistryTypeOK'
    BY <1>1, <1>4, <1>5, ZenonT(30) DEF RegistryTypeOK
<1>10. \A j \in 1..Len(opened) : j \in 1..n
    BY <1>3
<1>11. TableInv'
    <2>1. y.adapter = n /\ n \in 1..n
        BY <1>3
    <2>2. ASSUME NEW e \in Databases, slot[e] # 0, cells'[slot[e]].adapter # 0
          PROVE  /\ cells'[slot[e]].adapter \in 1..n
                 /\ opened'[cells'[slot[e]].adapter] = e
        <3>1. CASE e = d
            BY <3>1, <1>2, <1>4, <1>5, <2>1
        <3>2. CASE e # d
            <4>1. slot[e] # i /\ slot[e] \in 1..Len(cells)
                BY <1>1, <1>2, <2>2, <3>2, SlotHasCell DEF RegistryInv, TableInv
            <4>2. cells'[slot[e]].adapter = cells[slot[e]].adapter
                BY <4>1, <1>5, Zenon
            <4>3. /\ cells[slot[e]].adapter \in 1..Len(opened)
                  /\ opened[cells[slot[e]].adapter] = e
                BY <1>1, <2>2, <4>2, Zenon DEF RegistryInv, TableInv
            <4> QED
                BY <4>2, <4>3, <1>4, <1>10, Zenon
        <3> QED
            BY <3>1, <3>2, Zenon
    <2>3. ASSUME NEW j \in 1..n
          PROVE  slot[opened'[j]] # 0 /\ cells'[slot[opened'[j]]].adapter = j
        <3>1. CASE j = n
            BY <3>1, <1>2, <1>4, <1>5, <2>1
        <3>2. CASE j # n
            <4>1. j \in 1..Len(opened) /\ j # 0
                BY <1>3, <3>2
            <4>2. opened'[j] = opened[j] /\ opened[j] \in Databases
                BY <1>3, <1>4, <4>1, ElementOfSeq, ZenonT(30)
            <4>3. slot[opened[j]] # 0 /\ cells[slot[opened[j]]].adapter = j
                BY <1>1, <4>1, Zenon DEF RegistryInv, TableInv
            <4>4. cells[i].adapter = 0
                BY <1>2
            <4>5. slot[opened[j]] # i /\ slot[opened[j]] \in 1..Len(cells)
                BY <1>1, <4>1, <4>2, <4>3, <4>4, SlotHasCell, ZenonT(30) DEF RegistryInv
            <4> QED
                BY <4>2, <4>3, <4>5, <1>5, ZenonT(30)
        <3> QED
            BY <3>1, <3>2, Zenon
    <2> HIDE DEF n, y, i, d
    <2> QED
        BY <1>1, <1>4, <1>5, <2>2, <2>3 DEF RegistryInv, TableInv
<1>12. OwnCell(q)'
    <2>1. n \in 1..n
        BY <1>3
    <2> QED
        BY <1>4, <1>6, <1>8, <2>1, Zenon DEF OwnCell, Using, Connected
<1>13. ASSUME NEW p \in Calls \ {q} PROVE OwnCell(p)'
    <2>1. /\ OwnCell(p) /\ call'[p] = call[p]
          /\ call[p].pc = "opening" => call[p].db \in Databases
        BY <1>1, <1>8, Zenon DEF RegistryInv, ExecInv, CallsInv, RowsRead
    <2>2. call[p].pc = "opening" => call[p].cell # i /\ call[p].cell \in 1..Len(cells)
        <3> HAVE call[p].pc = "opening"
        <3>1. /\ call[p].cell = slot[call[p].db] /\ call[p].cell # 0
              /\ cells[call[p].cell] = [holder |-> p, adapter |-> 0]
            BY <2>1, Zenon DEF OwnCell
        <3> QED
            BY <1>1, <1>2, <2>1, <3>1, SlotHasCell DEF RegistryInv
    <2>3. call[p].pc \in Using =>
            call[p].adapter \in 1..n /\ opened'[call[p].adapter] = call[p].db
        BY <1>4, <1>10, <2>1, Zenon DEF OwnCell
    <2> QED
        BY <1>1, <1>4, <1>5, <2>1, <2>2, <2>3 DEF OwnCell
<1> QED
    BY <1>1, <1>6, <1>7, <1>9, <1>11, <1>12, <1>13, LookupMoves, Zenon

\* A call that moves on beside the registry, with the adapter it has.
LEMMA AdvanceStep ==
    ASSUME ExecInv, NEW q \in Calls, NEW x \in CallRecord, call' = [call EXCEPT ![q] = x],
           call[q].pc \notin {"ended", "rollback"}, x.pc \notin {"ended", "init", "opening"},
           RowsRead(x), SendsOne(q),
           x.pc \in Using =>
             call[q].pc \in Using /\ x.adapter = call[q].adapter /\ x.db = call[q].db,
           OwnConn(q)', conn' \in [Conns -> ConnRecord], ConnFrame(q), aborted \subseteq aborted',
           UNCHANGED <<registryVars, out, committed, stray, torn>>
    PROVE  ExecInv'
<1>1. call \in [Calls -> CallRecord] /\ RegistryTypeOK /\ RegistryInv
    BY Zenon DEF ExecInv, ExecTypeOK
<1>2. /\ call' \in [Calls -> CallRecord] /\ call'[q] = x
      /\ \A p \in Calls \ {q} : call'[p] = call[p]
    BY <1>1, Zenon
<1>3. slot' = slot /\ cells' = cells /\ opened' = opened
    BY Zenon DEF registryVars
<1>4. OwnCell(q)'
    BY <1>1, <1>2, <1>3, Zenon DEF RegistryInv, OwnCell
<1>5. RegistryInv' /\ RegistryTypeOK'
    BY <1>1, <1>2, <1>3, <1>4, RegistryStays, ZenonT(30) DEF RegistryTypeOK
<1> QED
    BY <1>2, <1>5, MoveStep, Zenon

\* A step that leaves the connections alone.
LEMMA QuietStep ==
    ASSUME ExecInv, NEW q \in Calls, NEW x \in CallRecord, call' = [call EXCEPT ![q] = x],
           call[q].pc \notin {"ended", "rollback"}, x.pc \notin {"ended", "init", "opening"},
           RowsRead(x),
           x.pc \in Using =>
             call[q].pc \in Using /\ x.adapter = call[q].adapter /\ x.db = call[q].db,
           x.conn = call[q].conn, x.pc \in Connected <=> call[q].pc \in Connected,
           x.pc \in Running => call[q].pc \in Running,
           x.pc = "commit" => conn[x.conn].st = "done",
           x.pc = "describe" /\ x.got = x.stmt.rows => conn[x.conn].st = "done",
           UNCHANGED <<registryVars, pgVars, torn>>
    PROVE  ExecInv'
<1>1. conn \in [Conns -> ConnRecord] /\ call \in [Calls -> CallRecord] /\ OwnConn(q)
    BY Zenon DEF ExecInv, ExecTypeOK, CallsInv
<1>2. conn' = conn /\ aborted' = aborted /\ UNCHANGED <<cancels, out, committed, stray>>
    BY Zenon DEF pgVars
<1>3. call'[q] = x
    BY <1>1, Zenon
<1>4. OwnConn(q)'
    BY <1>1, <1>2, <1>3, Zenon DEF OwnConn
<1>5. ConnFrame(q) /\ SendsOne(q)
    BY <1>2, Zenon DEF ConnFrame, SendsOne
<1>6. conn' \in [Conns -> ConnRecord] /\ aborted \subseteq aborted'
    BY <1>1, <1>2, Zenon
<1>7. UNCHANGED <<registryVars, out, committed, stray, torn>>
    BY <1>2, Zenon
<1> QED
    BY <1>4, <1>5, <1>6, <1>7, AdvanceStep, ZenonT(30)

\* The steps of a call that change nothing but how far it is.
LEMMA CallStep ==
    ASSUME ExecInv, NEW q \in Calls, NEW d \in Databases, NEW s \in Stmts, NEW n \in Limits,
           Call(q, d, s, n), UNCHANGED torn
    PROVE  ExecInv'
<1> DEFINE x == [Fresh EXCEPT !.pc = "read", !.db = d, !.stmt = s, !.limit = n]
<1>1. call[q].pc = "idle" /\ call' = [call EXCEPT ![q] = x] /\ UNCHANGED <<registryVars, pgVars, torn>>
    BY Zenon DEF Call
<1>2. /\ x.pc = "read" /\ x.db = d /\ x.stmt = s /\ x.limit = n /\ x.conn = None /\ x.got = 0
      /\ x \in CallRecord
    BY ExecAssumption, Zenon DEF Fresh, CallRecord, Stages
<1>3. call[q].conn = None
    BY <1>1, Zenon DEF ExecInv, CallsInv, OwnConn, Connected
<1> HIDE DEF x
<1>4. RowsRead(x)
    BY <1>2, Zenon DEF RowsRead, Reading
<1>5. x.pc \notin Using /\ x.pc \notin Connected /\ call[q].pc \notin Connected /\ x.pc \notin Running
    BY <1>1, <1>2, Zenon DEF Using, Connected, Running
<1> QED
    BY <1>1, <1>2, <1>3, <1>4, <1>5, QuietStep, ZenonT(30)

LEMMA PidStep ==
    ASSUME ExecInv, NEW q \in Calls, Pid(q), UNCHANGED torn
    PROVE  ExecInv'
<1> DEFINE x == [call[q] EXCEPT !.pc = "set"]
<1>1. /\ call[q].pc = "pid" /\ call[q] \in CallRecord /\ call \in [Calls -> CallRecord]
      /\ RowsRead(call[q]) /\ UNCHANGED <<registryVars, pgVars, torn>>
    BY Zenon DEF Pid, ExecInv, ExecTypeOK, CallsInv
<1>2. call' = [call EXCEPT ![q] = x]
    BY <1>1, Zenon DEF Pid, Goto
<1>3. /\ x \in CallRecord /\ x.pc = "set" /\ x.db = call[q].db /\ x.stmt = call[q].stmt
      /\ x.limit = call[q].limit /\ x.adapter = call[q].adapter /\ x.conn = call[q].conn
      /\ x.got = call[q].got
    BY <1>1, Zenon DEF CallRecord, Stages, Using, Connected
<1> HIDE DEF x
<1>4. RowsRead(x)
    BY <1>1, <1>3, Zenon DEF RowsRead, Reading
<1>5. call[q].pc \in Using /\ call[q].pc \in Connected /\ x.pc \in Connected /\ x.pc \notin Running
    BY <1>1, <1>3, Zenon DEF Using, Connected, Running
<1> QED
    BY <1>1, <1>2, <1>3, <1>4, <1>5, QuietStep, ZenonT(30)

\* A row is kept below the limit only, and one more than the limit shows that rows are left.
LEMMA ReadRowStep ==
    ASSUME ExecInv, NEW q \in Calls, ReadRow(q), UNCHANGED torn
    PROVE  ExecInv'
<1>1. /\ call[q].pc = "run" /\ call[q] \in CallRecord /\ call \in [Calls -> CallRecord]
      /\ RowsRead(call[q]) /\ UNCHANGED <<registryVars, pgVars, torn>>
      /\ call[q].got < call[q].stmt.rows
    BY Zenon DEF ReadRow, ExecInv, ExecTypeOK, CallsInv
<1>2. /\ call[q].got \in Nat /\ call[q].limit \in Nat /\ call[q].stmt.rows \in Nat
      /\ call[q].got <= call[q].limit
    BY <1>1, ExecAssumption, Zenon DEF RowsRead, Reading, CallRecord
<1>3. call[q].pc \in Using /\ call[q].pc \in Connected /\ call[q].pc \in Running
    BY <1>1, Zenon DEF Using, Connected, Running
<1>4. CASE call[q].got >= call[q].limit
    <2>1. PICK to \in {"describe", "cancel"} : Goto(q, to)
        BY <1>4, Zenon DEF ReadRow, Read
    <2> DEFINE x == [call[q] EXCEPT !.pc = to]
    <2>2. call' = [call EXCEPT ![q] = x]
        BY <1>1, <2>1, Zenon DEF Goto
    <2>3. /\ x \in CallRecord /\ x.pc = to /\ x.db = call[q].db /\ x.stmt = call[q].stmt
          /\ x.limit = call[q].limit /\ x.adapter = call[q].adapter /\ x.conn = call[q].conn
          /\ x.got = call[q].got
        BY <1>1, Zenon DEF CallRecord, Stages, Using, Connected
    <2> HIDE DEF x
    <2>4. call[q].got = call[q].limit /\ call[q].got # call[q].stmt.rows
        BY <1>1, <1>2, <1>4
    <2>5. RowsRead(x)
        BY <1>1, <2>3, <2>4, Zenon DEF RowsRead, Reading
    <2>6. x.pc \in Connected /\ x.pc \notin {"ended", "init", "opening", "commit"}
        BY <2>3, Zenon DEF Connected
    <2>7. ~(x.pc = "describe" /\ x.got = x.stmt.rows)
        BY <2>3, <2>4, Zenon
    <2> QED
        BY <1>1, <1>3, <2>2, <2>3, <2>5, <2>6, <2>7, QuietStep, ZenonT(30)
<1>5. CASE ~(call[q].got >= call[q].limit)
    <2> DEFINE g == call[q].got + 1
               x == [call[q] EXCEPT !.got = g]
    <2>1. call' = [call EXCEPT ![q] = x]
        BY <1>1, <1>5, Zenon DEF ReadRow
    <2>2. g \in Nat /\ g <= call[q].limit /\ g <= call[q].stmt.rows
        BY <1>1, <1>2, <1>5
    <2> HIDE DEF g
    <2>3. /\ x \in CallRecord /\ x.pc = "run" /\ x.db = call[q].db /\ x.stmt = call[q].stmt
          /\ x.limit = call[q].limit /\ x.adapter = call[q].adapter /\ x.conn = call[q].conn
          /\ x.got = g
        BY <1>1, <2>2, Zenon DEF CallRecord
    <2> HIDE DEF x
    <2>4. RowsRead(x)
        BY <1>1, <2>2, <2>3, Zenon DEF RowsRead, Reading
    <2> QED
        BY <1>1, <1>3, <2>1, <2>3, <2>4, QuietStep, ZenonT(30)
<1> QED
    BY <1>4, <1>5, Zenon

LEMMA StreamEndsStep ==
    ASSUME ExecInv, NEW q \in Calls, StreamEnds(q), UNCHANGED torn
    PROVE  ExecInv'
<1>1. /\ call[q].pc = "run" /\ call[q] \in CallRecord /\ call \in [Calls -> CallRecord]
      /\ RowsRead(call[q]) /\ UNCHANGED <<registryVars, pgVars, torn>>
      /\ call[q].got = call[q].stmt.rows /\ conn[call[q].conn].st = "done"
    BY Zenon DEF StreamEnds, ExecInv, ExecTypeOK, CallsInv
<1>2. PICK to \in {"describe", "commit"} : Goto(q, to)
    BY Zenon DEF StreamEnds, Read
<1> DEFINE x == [call[q] EXCEPT !.pc = to]
<1>3. call' = [call EXCEPT ![q] = x]
    BY <1>1, <1>2, Zenon DEF Goto
<1>4. /\ x \in CallRecord /\ x.pc \in {"describe", "commit"} /\ x.db = call[q].db
      /\ x.stmt = call[q].stmt /\ x.limit = call[q].limit /\ x.adapter = call[q].adapter
      /\ x.conn = call[q].conn /\ x.got = call[q].got
    BY <1>1, ZenonT(30) DEF CallRecord, Stages, Using, Connected
<1> HIDE DEF x
<1>5. RowsRead(x)
    BY <1>1, <1>4, Zenon DEF RowsRead, Reading
<1>6. /\ call[q].pc \in Using /\ call[q].pc \in Connected /\ x.pc \in Connected
      /\ call[q].pc \in Running
    BY <1>1, <1>4, Zenon DEF Using, Connected, Running
<1> QED
    BY <1>1, <1>3, <1>4, <1>5, <1>6, QuietStep, ZenonT(30)

\* A change to a connection that no other call holds.
LEMMA ConnChange ==
    ASSUME ExecInv, NEW q, NEW k \in Conns, NEW w \in ConnRecord,
           conn[k].user \in {None, q}, conn' = [conn EXCEPT ![k] = w]
    PROVE  conn' \in [Conns -> ConnRecord] /\ ConnFrame(q) /\ conn'[k] = w
<1>1. conn \in [Conns -> ConnRecord]
    BY Zenon DEF ExecInv, ExecTypeOK
<1>2. conn' \in [Conns -> ConnRecord] /\ conn'[k] = w /\ \A j \in Conns \ {k} : conn'[j] = conn[j]
    BY <1>1, Zenon
<1> QED
    BY <1>2, Zenon DEF ConnFrame

LEMMA BeginStep ==
    ASSUME ExecInv, NEW q \in Calls, NEW k \in Conns, Begin(q, k), UNCHANGED torn
    PROVE  ExecInv'
<1> DEFINE x == [call[q] EXCEPT !.pc = "pid", !.conn = k]
           w == [FreeConn EXCEPT !.user = q, !.st = "open"]
<1>1. /\ call[q].pc = "begin" /\ call[q] \in CallRecord /\ call \in [Calls -> CallRecord]
      /\ RowsRead(call[q]) /\ conn[k] = FreeConn /\ conn' = [conn EXCEPT ![k] = w]
      /\ aborted' = aborted /\ UNCHANGED <<registryVars, out, committed, stray, torn>>
      /\ SendsOne(q)
    BY Zenon DEF Begin, SendsOne, ExecInv, ExecTypeOK, CallsInv
<1>2. call' = [call EXCEPT ![q] = x]
    BY <1>1, Zenon DEF Begin
<1>3. /\ x \in CallRecord /\ x.pc = "pid" /\ x.db = call[q].db /\ x.stmt = call[q].stmt
      /\ x.limit = call[q].limit /\ x.adapter = call[q].adapter /\ x.conn = k
      /\ x.got = call[q].got
    BY <1>1, Zenon DEF CallRecord, Stages, Using, Connected
<1>4. w \in ConnRecord /\ w.user = q /\ FreeConn.user = None
    BY Zenon DEF FreeConn, ConnRecord
<1> HIDE DEF x, w
<1>5. RowsRead(x)
    BY <1>1, <1>3, Zenon DEF RowsRead, Reading
<1>6. conn' \in [Conns -> ConnRecord] /\ ConnFrame(q) /\ conn'[k] = w
    BY <1>1, <1>4, ConnChange, ZenonT(30)
<1>7. OwnConn(q)'
    <2>1. call'[q] = x
        BY <1>1, <1>2, Zenon
    <2> QED
        BY <2>1, <1>3, <1>4, <1>6, ZenonT(30) DEF OwnConn, Connected, Running
<1>8. call[q].pc \in Using
    BY <1>1, Zenon DEF Using
<1> QED
    BY <1>1, <1>2, <1>3, <1>5, <1>6, <1>7, <1>8, AdvanceStep, ZenonT(30)

\* A step that changes the call's own connection and its place only.
LEMMA ConnStep ==
    ASSUME ExecInv, NEW q \in Calls, NEW pc \in Connected, NEW w \in ConnRecord,
           call[q].pc \in Connected \ {"rollback"}, call' = [call EXCEPT ![q].pc = pc],
           RowsRead([call[q] EXCEPT !.pc = pc]), SendsOne(q),
           w.user = conn[call[q].conn].user, conn' = [conn EXCEPT ![call[q].conn] = w],
           pc # "describe", pc \in Running => w.of = q,
           pc = "commit" => w.st = "done" \/ (w.st = "failed" /\ q \in aborted'),
           aborted \subseteq aborted', UNCHANGED <<registryVars, out, committed, stray, torn>>
    PROVE  ExecInv'
<1> DEFINE x == [call[q] EXCEPT !.pc = pc]
<1>1. /\ call[q] \in CallRecord /\ call \in [Calls -> CallRecord]
      /\ call[q].conn \in Conns /\ conn[call[q].conn].user = q
    BY Zenon DEF ExecInv, ExecTypeOK, CallsInv, OwnConn
<1>2. call' = [call EXCEPT ![q] = x]
    BY <1>1, Zenon
<1>3. /\ x \in CallRecord /\ x.pc = pc /\ x.db = call[q].db
      /\ x.adapter = call[q].adapter /\ x.conn = call[q].conn
    BY <1>1, Zenon DEF CallRecord, Stages, Using
<1> HIDE DEF x
<1>4. conn' \in [Conns -> ConnRecord] /\ ConnFrame(q) /\ conn'[call[q].conn] = w
    BY <1>1, ConnChange, Zenon
<1>5. OwnConn(q)'
    <2>1. call'[q] = x
        BY <1>1, <1>2, Zenon
    <2> QED
        BY <2>1, <1>1, <1>3, <1>4, Zenon DEF OwnConn
<1>6. call[q].pc \in Using /\ pc \notin {"ended", "init", "opening"}
      /\ call[q].pc \notin {"ended", "rollback"}
    BY Zenon DEF Using, Connected
<1>7. RowsRead(x)
    BY Zenon DEF x
<1> QED
    BY <1>2, <1>3, <1>4, <1>5, <1>6, <1>7, AdvanceStep, Zenon

LEMMA SetTimeoutStep ==
    ASSUME ExecInv, NEW q \in Calls, SetTimeout(q), UNCHANGED torn
    PROVE  ExecInv'
<1> DEFINE k == call[q].conn
           w == [conn[k] EXCEPT !.st = "busy", !.of = q, !.limited = call[q].stmt.timed]
           x == [call[q] EXCEPT !.pc = "run"]
<1>1. /\ call[q].pc = "set" /\ call[q] \in CallRecord /\ RowsRead(call[q])
      /\ call' = [call EXCEPT ![q].pc = "run"]
      /\ aborted' = aborted /\ UNCHANGED <<registryVars, out, committed, stray, torn>>
      /\ SendsOne(q)
    BY Zenon DEF SetTimeout, Goto, SendsOne, ExecInv, ExecTypeOK, CallsInv
<1>2. call[q].pc \in Connected \ {"rollback"} /\ "run" \in Connected
    BY <1>1, Zenon DEF Connected
<1>3. k \in Conns /\ conn[k] \in ConnRecord
    BY <1>2, Zenon DEF ExecInv, ExecTypeOK, CallsInv, OwnConn
<1>4. w \in ConnRecord /\ w.user = conn[k].user /\ w.of = q
    <2>1. call[q].stmt.timed \in BOOLEAN
        BY <1>1, ExecAssumption, Zenon DEF RowsRead
    <2> QED
        BY <1>3, <2>1, Zenon DEF ConnRecord
<1>5. conn' = [conn EXCEPT ![k] = w]
    BY Zenon DEF SetTimeout
<1>6. RowsRead(x)
    <2>1. /\ x.pc = "run" /\ x.db = call[q].db /\ x.stmt = call[q].stmt
          /\ x.limit = call[q].limit /\ x.got = 0
        BY <1>1, Zenon DEF CallRecord, RowsRead, Reading
    <2>2. x.stmt.rows \in Nat /\ x.limit \in Nat
        BY <1>1, <2>1, ExecAssumption, ZenonT(30) DEF RowsRead
    <2> HIDE DEF x
    <2> QED
        BY <1>1, <2>1, <2>2 DEF RowsRead, Reading
<1> HIDE DEF w, k
<1> QED
    BY <1>1, <1>2, <1>4, <1>5, <1>6, ConnStep, ZenonT(30) DEF k

\* A broken describe marks its call; the statement itself was done, or its rest is cut.
LEMMA DescribeStep ==
    ASSUME ExecInv, NEW q \in Calls, Describe(q), UNCHANGED torn
    PROVE  ExecInv'
<1> DEFINE k == call[q].conn
           pc == IF call[q].got < call[q].stmt.rows THEN "cancel" ELSE "commit"
           x == [call[q] EXCEPT !.pc = pc]
<1>1. /\ call[q].pc = "describe" /\ call[q] \in CallRecord /\ RowsRead(call[q])
      /\ call \in [Calls -> CallRecord] /\ conn \in [Conns -> ConnRecord]
      /\ call' = [call EXCEPT ![q].pc = pc] /\ OwnConn(q) /\ SendsOne(q)
      /\ UNCHANGED <<registryVars, out, committed, stray, torn>>
    BY Zenon DEF Describe, Goto, SendsOne, ExecInv, ExecTypeOK, CallsInv
<1>2. call[q].pc \in Connected \ {"rollback"} /\ call[q].pc \in Running /\ call[q].pc \in Reading
    BY <1>1, Zenon DEF Connected, Running, Reading
<1>3. k \in Conns /\ conn[k] \in ConnRecord /\ conn[k].of = q
    BY <1>1, <1>2, ZenonT(30) DEF OwnConn
<1>4. /\ pc = "cancel" => call[q].got = call[q].limit /\ call[q].got < call[q].stmt.rows
      /\ pc = "commit" => call[q].got = call[q].stmt.rows
    <2>1. /\ call[q].got \in Nat /\ call[q].stmt.rows \in Nat /\ call[q].got <= call[q].stmt.rows
          /\ call[q].got = call[q].stmt.rows \/ call[q].got = call[q].limit
        BY <1>1, <1>2, ExecAssumption, Zenon DEF RowsRead, CallRecord
    <2> QED
        BY <2>1
<1>5. pc \in {"cancel", "commit"} /\ pc \in Connected /\ pc # "describe"
    BY Zenon DEF Connected
<1>6. pc = "commit" => conn[k].st = "done"
    BY <1>1, <1>4, Zenon DEF OwnConn
<1> HIDE DEF pc
<1>7. RowsRead(x)
    <2>1. /\ x.pc = pc /\ x.db = call[q].db /\ x.stmt = call[q].stmt
          /\ x.limit = call[q].limit /\ x.got = call[q].got
        BY <1>1, Zenon DEF CallRecord
    <2> HIDE DEF x
    <2> QED
        BY <1>1, <1>4, <1>5, <2>1, ZenonT(30) DEF RowsRead, Reading
<1>8. CASE UNCHANGED <<conn, aborted>>
    <2>1. conn' = [conn EXCEPT ![k] = conn[k]]
        BY <1>1, <1>3, <1>8, ZenonT(30)
    <2> HIDE DEF k
    <2> QED
        BY <1>1, <1>2, <1>3, <1>5, <1>6, <1>7, <1>8, <2>1, ConnStep, ZenonT(30) DEF k
<1>9. CASE conn' = [conn EXCEPT ![k].st = "failed"] /\ aborted' = aborted \cup {q}
    <2> DEFINE w == [conn[k] EXCEPT !.st = "failed"]
    <2>1. w \in ConnRecord /\ w.user = conn[k].user /\ w.st = "failed" /\ w.of = q
        BY <1>3, Zenon DEF ConnRecord
    <2>2. conn' = [conn EXCEPT ![k] = w]
        BY <1>9, Zenon
    <2> HIDE DEF w, k
    <2> QED
        BY <1>1, <1>2, <1>5, <1>7, <1>9, <2>1, <2>2, ConnStep, ZenonT(30) DEF k
<1> QED
    BY <1>8, <1>9, Zenon DEF Describe

LEMMA TruncateCancelStep ==
    ASSUME ExecInv, NEW q \in Calls, TruncateCancel(q), UNCHANGED torn
    PROVE  ExecInv'
<1> DEFINE k == call[q].conn
           x == [call[q] EXCEPT !.pc = "rollback"]
<1>1. /\ call[q].pc = "cancel" /\ call[q] \in CallRecord /\ RowsRead(call[q])
      /\ call \in [Calls -> CallRecord] /\ conn \in [Conns -> ConnRecord]
      /\ call' = [call EXCEPT ![q].pc = "rollback"] /\ OwnConn(q) /\ aborted' = aborted
      /\ UNCHANGED <<registryVars, out, committed, stray, torn>>
    BY Zenon DEF TruncateCancel, Goto, ExecInv, ExecTypeOK, CallsInv
<1>2. call[q].pc \in Connected \ {"rollback"} /\ call[q].pc \in Running /\ "rollback" \in Connected
    BY <1>1, Zenon DEF Connected, Running
<1>3. k \in Conns /\ conn[k] \in ConnRecord /\ conn[k].of = q
    BY <1>1, <1>2, Zenon DEF OwnConn
<1>4. /\ x.pc = "rollback" /\ x.db = call[q].db /\ x.stmt = call[q].stmt
      /\ x.limit = call[q].limit /\ x.got = call[q].got /\ x.conn = call[q].conn
    BY <1>1, Zenon DEF CallRecord
<1>5. SendsOne(q)
    <2>1. call'[q] = x
        BY <1>1, Zenon
    <2>2. cancels' = cancels \/ cancels' = cancels \cup {Inline(q)}
        BY Zenon DEF TruncateCancel
    <2> HIDE DEF x
    <2> QED
        BY <1>4, <2>1, <2>2, Zenon DEF SendsOne
<1>6. RowsRead(x)
    <2> HIDE DEF x
    <2> QED
        BY <1>1, <1>4, Zenon DEF RowsRead, Reading
<1>7. CASE UNCHANGED conn
    <2>1. conn' = [conn EXCEPT ![k] = conn[k]]
        BY <1>1, <1>3, <1>7, Zenon
    <2> HIDE DEF k
    <2> QED
        BY <1>1, <1>2, <1>3, <1>5, <1>6, <1>7, <2>1, ConnStep, Zenon DEF k
<1>8. CASE conn' = [conn EXCEPT ![k].st = "failed"]
    <2> DEFINE w == [conn[k] EXCEPT !.st = "failed"]
    <2>1. w \in ConnRecord /\ w.user = conn[k].user /\ w.of = q
        BY <1>3, Zenon DEF ConnRecord
    <2>2. conn' = [conn EXCEPT ![k] = w]
        BY <1>8, Zenon
    <2> HIDE DEF w, k
    <2> QED
        BY <1>1, <1>2, <1>5, <1>6, <1>8, <2>1, <2>2, ConnStep, ZenonT(30) DEF k
<1> QED
    BY <1>7, <1>8, Zenon DEF TruncateCancel

\* Outcomes are of their type.
LEMMA Outcomes ==
    /\ \A e \in {"failed", "timeout", "gone", "unavailable", "forbidden_sql"} :
         Error(e) \in Outcome /\ Error(e).kind = e
    /\ \A n \in Nat, t \in BOOLEAN :
         /\ Success(n, t) \in Outcome /\ Success(n, t).rows = n /\ Success(n, t).truncated = t
    BY Zenon DEF Error, Success, Outcome

\* A call that ends with an error, and leaves no cancel behind.
LEMMA ErrorStep ==
    ASSUME ExecInv, NEW q \in Calls, NEW e \in {"failed", "unavailable", "forbidden_sql"},
           End(q, Error(e)), call[q].pc \notin {"idle", "ended", "rollback"}, cells' = Unlocked(q),
           committed \subseteq committed', UNCHANGED <<slot, opened, cancels, aborted, stray, torn>>
    PROVE  ExecInv'
<1>1. Error(e) \in Outcome /\ Error(e).kind # "success"
    BY Outcomes, Zenon
<1> QED
    BY <1>1, EndStep, Zenon

\* A call that ends with a result.
LEMMA SuccessStep ==
    ASSUME ExecInv, NEW q \in Calls, NEW n \in Nat, NEW t \in BOOLEAN,
           End(q, Success(n, t)), call[q].pc \notin {"idle", "ended", "opening"},
           n <= call[q].limit, t = (call[q].stmt.rows > call[q].limit \/ q \in torn'),
           n = IF t THEN call[q].limit ELSE call[q].stmt.rows,
           ~t /\ call[q].stmt.write => q \in committed' \cup aborted, call[q].pc = "rollback" => t,
           torn \subseteq torn', torn' \subseteq torn \cup {q}, committed \subseteq committed',
           UNCHANGED <<registryVars, cancels, aborted, stray>>
    PROVE  ExecInv'
<1>1. Success(n, t) \in Outcome /\ Success(n, t).rows = n /\ Success(n, t).truncated = t
    BY Outcomes, Zenon
<1>2. Exact(Success(n, t), call[q].limit, call[q].stmt.rows, q \in torn')
    BY <1>1, Zenon DEF Exact
<1>3. cells' = Unlocked(q) /\ UNCHANGED <<slot, opened>>
    BY Zenon DEF Unlocked, registryVars
<1> DEFINE o == Success(n, t)
<1>4. o \in Outcome /\ o.truncated = t
    BY <1>1, Zenon
<1>5. Exact(o, call[q].limit, call[q].stmt.rows, q \in torn') /\ End(q, o)
    BY <1>2, Zenon
<1> HIDE DEF o
<1> QED
    BY <1>3, <1>4, <1>5, EndStep

\* What is known of a call that is reading.
LEMMA ReaderFacts ==
    ASSUME ExecInv, NEW q \in Calls, call[q].pc \in Reading
    PROVE  /\ call[q].got \in Nat /\ call[q].limit \in Nat /\ call[q].stmt.rows \in Nat
           /\ call[q].got <= call[q].limit /\ call[q].got <= call[q].stmt.rows
           /\ call[q].pc \in {"cancel", "rollback"} =>
                call[q].got = call[q].limit /\ call[q].got < call[q].stmt.rows
           /\ call[q].pc = "commit" => call[q].got = call[q].stmt.rows
           /\ call[q].pc \in {"command", "drain"} => ~call[q].stmt.write
           /\ q \notin torn /\ call[q].pc \notin {"idle", "ended", "opening"}
<1>1. RowsRead(call[q]) /\ Answered(q) /\ call[q] \in CallRecord
    BY Zenon DEF ExecInv, ExecTypeOK, CallsInv
<1>2. call[q].pc \notin {"idle", "ended", "opening"}
    BY Zenon DEF Reading
<1> QED
    BY <1>1, <1>2, ExecAssumption, Zenon DEF RowsRead, Answered, CallRecord

LEMMA CommitStep ==
    ASSUME ExecInv, NEW q \in Calls, Commit(q), UNCHANGED torn
    PROVE  ExecInv'
<1>1. /\ call[q].pc = "commit" /\ committed' = committed \cup Durable(q)
      /\ End(q, Success(call[q].got, FALSE)) /\ UNCHANGED <<registryVars, cancels, aborted, stray>>
    BY Zenon DEF Commit
<1>2. call[q].pc \in Reading
    BY <1>1, Zenon DEF Reading
<1>3. /\ call[q].got \in Nat /\ call[q].limit \in Nat /\ call[q].stmt.rows \in Nat
      /\ call[q].got <= call[q].limit /\ call[q].got = call[q].stmt.rows
      /\ q \notin torn /\ call[q].pc \notin {"idle", "ended", "opening"}
    BY <1>1, <1>2, ReaderFacts, ZenonT(30)
<1>4. FALSE = (call[q].stmt.rows > call[q].limit \/ q \in torn')
    BY <1>3
<1>5. q \in committed' \cup aborted
    <2>1. conn[call[q].conn].st = "done" \/ q \in aborted
        BY <1>1, Zenon DEF ExecInv, CallsInv, OwnConn
    <2> QED
        BY <1>1, <2>1, Zenon DEF Durable
<1>6. committed \subseteq committed' /\ torn \subseteq torn' /\ torn' \subseteq torn \cup {q}
    BY <1>1, Zenon
<1> QED
    BY <1>1, <1>3, <1>4, <1>5, <1>6, SuccessStep, Zenon

\* A result that the limit cut: the reader has exactly as many rows as the limit allows.
LEMMA CutStep ==
    ASSUME ExecInv, NEW q \in Calls, End(q, Success(call[q].got, TRUE)), call[q].pc \in Reading,
           call[q].got = call[q].limit, call[q].got < call[q].stmt.rows \/ q \in torn',
           torn \subseteq torn', torn' \subseteq torn \cup {q},
           UNCHANGED <<registryVars, cancels, committed, aborted, stray>>
    PROVE  ExecInv'
<1>1. /\ call[q].got \in Nat /\ call[q].limit \in Nat /\ call[q].stmt.rows \in Nat
      /\ call[q].pc \notin {"idle", "ended", "opening"}
    BY ReaderFacts, Zenon
<1>2. TRUE = (call[q].stmt.rows > call[q].limit \/ q \in torn') /\ call[q].got <= call[q].limit
    BY <1>1
<1>3. committed \subseteq committed'
    BY Zenon
<1> QED
    BY <1>1, <1>2, <1>3, SuccessStep, ZenonT(30)

LEMMA RollbackStep ==
    ASSUME ExecInv, NEW q \in Calls, Rollback(q), UNCHANGED torn
    PROVE  ExecInv'
<1>1. /\ call[q].pc = "rollback" /\ End(q, Success(call[q].got, TRUE))
      /\ UNCHANGED <<registryVars, cancels, committed, aborted, stray>>
    BY Zenon DEF Rollback
<1>2. call[q].pc \in Reading
    BY <1>1, Zenon DEF Reading
<1>3. call[q].got = call[q].limit /\ call[q].got < call[q].stmt.rows
    BY <1>1, <1>2, ReaderFacts, ZenonT(30)
<1>4. torn \subseteq torn' /\ torn' \subseteq torn \cup {q}
    BY Zenon
<1> QED
    BY <1>1, <1>2, <1>3, <1>4, CutStep, ZenonT(30)

\* The calls of a Mongo target that end with a result.
LEMMA ScalarStep ==
    ASSUME ExecInv, NEW q \in Calls, Scalar(q)
    PROVE  ExecInv'
<1> DEFINE r == call[q].stmt.rows
           m == call[q].limit
           n == IF r > m THEN m ELSE r
           t == r > m
<1>1. /\ call[q].pc = "command" /\ End(q, Success(n, t)) /\ torn' = torn
      /\ UNCHANGED <<registryVars, cancels, committed, aborted, stray>>
    BY Zenon DEF Scalar, Closed, mongoVars
<1>2. call[q].pc \in Reading
    BY <1>1, Zenon DEF Reading
<1>3. /\ r \in Nat /\ m \in Nat /\ ~call[q].stmt.write
      /\ q \notin torn /\ call[q].pc \notin {"idle", "ended", "opening"}
    BY <1>1, <1>2, ReaderFacts, ZenonT(30)
<1>4. n \in Nat /\ n <= m /\ t \in BOOLEAN /\ n = (IF t THEN m ELSE r)
    BY <1>3
<1>5. t = (r > m \/ q \in torn')
    BY <1>1, <1>3
<1>6. committed \subseteq committed' /\ torn \subseteq torn' /\ torn' \subseteq torn \cup {q}
    BY <1>1, Zenon
<1> HIDE DEF n, t
<1> QED
    BY <1>1, <1>3, <1>4, <1>5, <1>6, SuccessStep, Zenon

LEMMA CursorEndsStep ==
    ASSUME ExecInv, NEW q \in Calls, CursorEnds(q)
    PROVE  ExecInv'
<1>1. /\ call[q].pc = "drain" /\ End(q, Success(call[q].got, FALSE)) /\ torn' = torn
      /\ call[q].got = call[q].stmt.rows
      /\ UNCHANGED <<registryVars, cancels, committed, aborted, stray>>
    BY Zenon DEF CursorEnds, Closed, mongoVars
<1>2. call[q].pc \in Reading
    BY <1>1, Zenon DEF Reading
<1>3. /\ call[q].got \in Nat /\ call[q].limit \in Nat /\ call[q].got <= call[q].limit
      /\ ~call[q].stmt.write /\ q \notin torn /\ call[q].pc \notin {"idle", "ended", "opening"}
    BY <1>1, <1>2, ReaderFacts, ZenonT(30)
<1>4. FALSE = (call[q].stmt.rows > call[q].limit \/ q \in torn')
    BY <1>1, <1>3
<1>5. committed \subseteq committed' /\ torn \subseteq torn' /\ torn' \subseteq torn \cup {q}
    BY <1>1, Zenon
<1> QED
    BY <1>1, <1>3, <1>4, <1>5, SuccessStep, Zenon

LEMMA CursorFailsStep ==
    ASSUME ExecInv, NEW q \in Calls, CursorFails(q)
    PROVE  ExecInv'
<1>1. /\ call[q].pc = "drain" /\ UNCHANGED <<registryVars, cancels, committed, aborted, stray>>
    BY Zenon DEF CursorFails, Closed
<1>2. call[q].pc \in Reading
    BY <1>1, Zenon DEF Reading
<1>3. /\ call[q].got \in Nat /\ call[q].limit \in Nat /\ call[q].got <= call[q].limit
      /\ call[q].pc \notin {"idle", "ended", "opening"}
    BY <1>1, <1>2, ReaderFacts, ZenonT(30)
<1>4. CASE call[q].got >= call[q].limit
    <2>1. End(q, Success(call[q].got, TRUE)) /\ torn' = torn \cup {q}
        BY <1>4, Zenon DEF CursorFails
    <2>2. call[q].got = call[q].limit
        BY <1>3, <1>4
    <2>3. torn \subseteq torn' /\ torn' \subseteq torn \cup {q} /\ q \in torn'
        BY <2>1, ZenonT(30)
    <2> QED
        BY <1>1, <1>2, <2>1, <2>2, <2>3, CutStep, Zenon
<1>5. CASE ~(call[q].got >= call[q].limit)
    <2>1. End(q, Error("unavailable")) /\ UNCHANGED torn
        BY <1>5, Zenon DEF CursorFails
    <2>2. cells' = Unlocked(q) /\ UNCHANGED <<slot, opened, cancels, aborted, stray, torn>>
        BY <1>1, <1>3, <2>1, ZenonT(30) DEF Unlocked, registryVars
    <2>3. committed \subseteq committed'
        BY <1>1, ZenonT(30)
    <2>4. call[q].pc \notin {"idle", "ended", "rollback"}
        BY <1>1, Zenon
    <2> QED
        BY <2>1, <2>2, <2>3, <2>4, ErrorStep, ZenonT(30)
<1> QED
    BY <1>4, <1>5, ZenonT(30)

LEMMA NextDocumentStep ==
    ASSUME ExecInv, NEW q \in Calls, NextDocument(q)
    PROVE  ExecInv'
<1>1. /\ call[q].pc = "drain" /\ call[q].got < call[q].stmt.rows /\ torn' = torn
      /\ RowsRead(call[q]) /\ call[q] \in CallRecord /\ call \in [Calls -> CallRecord]
    BY Zenon DEF NextDocument, mongoVars, ExecInv, ExecTypeOK, CallsInv
<1>2. call[q].pc \in Reading /\ call[q].pc \in Using /\ call[q].pc \notin Connected
    BY <1>1, Zenon DEF Reading, Using, Connected
<1>3. /\ call[q].got \in Nat /\ call[q].limit \in Nat /\ call[q].got <= call[q].limit
      /\ call[q].stmt.rows \in Nat
    BY <1>1, <1>2, ReaderFacts, ZenonT(30)
<1>4. CASE call[q].got >= call[q].limit
    <2>1. /\ End(q, Success(call[q].got, TRUE))
          /\ UNCHANGED <<registryVars, cancels, committed, aborted, stray>>
        BY <1>4, Zenon DEF NextDocument, Closed
    <2>2. call[q].got = call[q].limit
        BY <1>3, <1>4
    <2>3. torn \subseteq torn' /\ torn' \subseteq torn \cup {q}
        BY <1>1, Zenon
    <2> QED
        BY <1>1, <1>2, <2>1, <2>2, <2>3, CutStep, Zenon
<1>5. CASE ~(call[q].got >= call[q].limit)
    <2> DEFINE g == call[q].got + 1
               x == [call[q] EXCEPT !.got = g]
    <2>1. call' = [call EXCEPT ![q] = x] /\ UNCHANGED <<registryVars, pgVars, torn>>
        BY <1>1, <1>5, ZenonT(30) DEF NextDocument, Kept, pgVars
    <2>2. g \in Nat /\ g <= call[q].limit /\ g <= call[q].stmt.rows
        BY <1>1, <1>3, <1>5
    <2> HIDE DEF g
    <2>3. /\ x \in CallRecord /\ x.pc = "drain" /\ x.db = call[q].db /\ x.stmt = call[q].stmt
          /\ x.limit = call[q].limit /\ x.adapter = call[q].adapter /\ x.conn = call[q].conn
          /\ x.got = g
        BY <1>1, <2>2, ZenonT(30) DEF CallRecord
    <2> HIDE DEF x
    <2>4. RowsRead(x)
        BY <1>1, <2>2, <2>3, ZenonT(30) DEF RowsRead, Reading
    <2> QED
        BY <1>1, <1>2, <2>1, <2>3, <2>4, QuietStep, Zenon
<1> QED
    BY <1>4, <1>5, ZenonT(30)

\* A write is refused; a read goes on without a connection of the pool.
LEMMA CommandStep ==
    ASSUME ExecInv, NEW q \in Calls, Command(q)
    PROVE  ExecInv'
<1>1. /\ call[q].pc = "begin" /\ torn' = torn
      /\ RowsRead(call[q]) /\ call[q] \in CallRecord /\ call \in [Calls -> CallRecord]
    BY Zenon DEF Command, ExecInv, ExecTypeOK, CallsInv
<1>2. CASE call[q].stmt.write
    <2>1. /\ End(q, Error("forbidden_sql"))
          /\ UNCHANGED <<registryVars, cancels, committed, aborted, stray>>
        BY <1>2, ZenonT(30) DEF Command, Closed
    <2>2. /\ cells' = Unlocked(q) /\ UNCHANGED <<slot, opened, cancels, aborted, stray, torn>>
          /\ committed \subseteq committed'
        BY <1>1, <2>1, ZenonT(30) DEF Unlocked, registryVars
    <2>3. call[q].pc \notin {"idle", "ended", "rollback"}
        BY <1>1, Zenon
    <2> QED
        BY <2>1, <2>2, <2>3, ErrorStep, ZenonT(30)
<1>3. CASE ~call[q].stmt.write
    <2> DEFINE x == [call[q] EXCEPT !.pc = "command"]
    <2>1. call' = [call EXCEPT ![q] = x] /\ UNCHANGED <<registryVars, pgVars, torn>>
        BY <1>1, <1>3, ZenonT(30) DEF Command, Goto, Kept, pgVars
    <2>2. /\ x \in CallRecord /\ x.pc = "command" /\ x.db = call[q].db /\ x.stmt = call[q].stmt
          /\ x.limit = call[q].limit /\ x.adapter = call[q].adapter /\ x.conn = call[q].conn
          /\ x.got = call[q].got
        BY <1>1, Zenon DEF CallRecord, Stages, Using
    <2> HIDE DEF x
    <2>3. x.got = 0 /\ x.stmt.rows \in Nat /\ x.limit \in Nat
        BY <1>1, <2>2, ExecAssumption, ZenonT(30) DEF RowsRead, Reading
    <2>4. RowsRead(x)
        BY <1>1, <1>3, <2>2, <2>3 DEF RowsRead, Reading
    <2>5. call[q].pc \in Using /\ call[q].pc \notin Connected /\ x.pc \notin Connected /\ x.pc \notin Running
        BY <1>1, <2>2, ZenonT(30) DEF Using, Connected, Running
    <2> QED
        BY <1>1, <2>1, <2>2, <2>4, <2>5, QuietStep, ZenonT(30)
<1> QED
    BY <1>2, <1>3, ZenonT(30)

LEMMA OpenCursorStep ==
    ASSUME ExecInv, NEW q \in Calls, OpenCursor(q)
    PROVE  ExecInv'
<1> DEFINE x == [call[q] EXCEPT !.pc = "drain"]
<1>1. /\ call[q].pc = "command" /\ UNCHANGED <<registryVars, pgVars, torn>>
      /\ RowsRead(call[q]) /\ call[q] \in CallRecord /\ call \in [Calls -> CallRecord]
    BY Zenon DEF OpenCursor, Kept, pgVars, mongoVars, ExecInv, ExecTypeOK, CallsInv
<1>2. call' = [call EXCEPT ![q] = x]
    BY <1>1, Zenon DEF OpenCursor, Goto
<1>3. /\ x \in CallRecord /\ x.pc = "drain" /\ x.db = call[q].db /\ x.stmt = call[q].stmt
      /\ x.limit = call[q].limit /\ x.adapter = call[q].adapter /\ x.conn = call[q].conn
      /\ x.got = call[q].got
    BY <1>1, Zenon DEF CallRecord, Stages, Using
<1> HIDE DEF x
<1>4. RowsRead(x)
    BY <1>1, <1>3, ZenonT(30) DEF RowsRead, Reading
<1>5. call[q].pc \in Using /\ call[q].pc \notin Connected /\ x.pc \notin Connected /\ x.pc \notin Running
    BY <1>1, <1>3, ZenonT(30) DEF Using, Connected, Running
<1> QED
    BY <1>1, <1>2, <1>3, <1>4, <1>5, QuietStep, ZenonT(30)

\* The steps that end a call with an error.
LEMMA FailStep ==
    ASSUME ExecInv, NEW q \in Calls,
           \/ OpenFails(q) /\ UNCHANGED torn
           \/ BeginFails(q) /\ UNCHANGED torn
           \/ StreamFails(q) /\ UNCHANGED torn
           \/ CommitFails(q) /\ UNCHANGED torn
           \/ CommandFails(q)
    PROVE  ExecInv'
<1>1. CASE OpenFails(q) /\ UNCHANGED torn
    <2>1. /\ End(q, Error("unavailable")) /\ call[q].pc \notin {"idle", "ended", "rollback"}
          /\ cells' = Unlocked(q) /\ committed \subseteq committed'
          /\ UNCHANGED <<slot, opened, cancels, aborted, stray, torn>>
        BY <1>1, ZenonT(30) DEF OpenFails
    <2> QED
        BY <2>1, ErrorStep, Zenon
<1>2. CASE BeginFails(q) /\ UNCHANGED torn
    <2>1. /\ End(q, Error("unavailable")) /\ call[q].pc \notin {"idle", "ended", "rollback"}
          /\ cells' = Unlocked(q) /\ committed \subseteq committed'
          /\ UNCHANGED <<slot, opened, cancels, aborted, stray, torn>>
        BY <1>2, Zenon DEF BeginFails, Unlocked, registryVars
    <2> QED
        BY <2>1, ErrorStep, Zenon
<1>3. CASE StreamFails(q) /\ UNCHANGED torn
    <2>1. /\ End(q, Error("failed")) /\ call[q].pc \notin {"idle", "ended", "rollback"}
          /\ cells' = Unlocked(q) /\ committed \subseteq committed'
          /\ UNCHANGED <<slot, opened, cancels, aborted, stray, torn>>
        BY <1>3, ZenonT(30) DEF StreamFails, Unlocked, registryVars
    <2> QED
        BY <2>1, ErrorStep, ZenonT(30)
<1>4. CASE CommitFails(q) /\ UNCHANGED torn
    <2>1. /\ End(q, Error("unavailable")) /\ call[q].pc \notin {"idle", "ended", "rollback"}
          /\ cells' = Unlocked(q) /\ committed \subseteq committed'
          /\ UNCHANGED <<slot, opened, cancels, aborted, stray, torn>>
        BY <1>4, ZenonT(30) DEF CommitFails, Unlocked, registryVars
    <2> QED
        BY <2>1, ErrorStep, Zenon
<1>5. CASE CommandFails(q)
    <2>1. /\ End(q, Error("failed")) /\ call[q].pc \notin {"idle", "ended", "rollback"}
          /\ cells' = Unlocked(q) /\ committed \subseteq committed'
          /\ UNCHANGED <<slot, opened, cancels, aborted, stray, torn>>
        BY <1>5, Zenon DEF CommandFails, Closed, Unlocked, registryVars, mongoVars
    <2> QED
        BY <2>1, ErrorStep, ZenonT(30)
<1> QED
    BY <1>1, <1>2, <1>3, <1>4, <1>5, ZenonT(30)

\* A dropped call leaves a cancel with its own name.
LEMMA DropStep ==
    ASSUME ExecInv, NEW q \in Calls, NEW why \in {"timeout", "gone"},
           (Drop(q, why) /\ UNCHANGED torn) \/ DropCommand(q, why)
    PROVE  ExecInv'
<1>1. Error(why) \in Outcome /\ Error(why).kind = why /\ why # "success"
    BY Outcomes, Zenon
<1>2. CASE Drop(q, why) /\ UNCHANGED torn
    <2>1. /\ End(q, Error(why)) /\ call[q].pc \notin {"idle", "ended"}
          /\ cells' = Unlocked(q) /\ committed \subseteq committed'
          /\ UNCHANGED <<slot, opened, aborted, stray, torn>>
          /\ cancels' = cancels \/ cancels' = cancels \cup {Detached(q)}
        BY <1>2, Zenon DEF Drop
    <2>2. torn \subseteq torn' /\ torn' \subseteq torn \cup {q}
        BY <2>1, Zenon
    <2> QED
        BY <1>1, <2>1, <2>2, EndStep, ZenonT(30)
<1>3. CASE DropCommand(q, why)
    <2>1. /\ End(q, Error(why)) /\ call[q].pc \notin {"idle", "ended"}
          /\ cells' = Unlocked(q) /\ committed \subseteq committed'
          /\ UNCHANGED <<slot, opened, aborted, stray, torn>>
          /\ cancels' = cancels \cup {Detached(q)}
        BY <1>3, Zenon DEF DropCommand, Closed, Unlocked, registryVars, mongoVars
    <2>2. torn \subseteq torn' /\ torn' \subseteq torn \cup {q}
        BY <2>1, Zenon
    <2> QED
        BY <1>1, <2>1, <2>2, EndStep, ZenonT(30)
<1> QED
    BY <1>2, <1>3, ZenonT(30)

\* The steps of the targets end statements that run, and take free connections back.
LEMMA TargetStep ==
    ASSUME ExecInv, UNCHANGED <<registryVars, call, out, committed, aborted, torn>>,
           conn' \in [Conns -> ConnRecord], ConnFrame(None), cancels' \subseteq cancels,
           \A x \in stray' : x \in stray \/ Loose(x.by)
    PROVE  ExecInv'
<1>1. slot' = slot /\ cells' = cells /\ opened' = opened
    BY Zenon DEF registryVars
<1>2. RegistryInv'
    BY <1>1, RegistryStays, Zenon DEF ExecInv
<1>3. ExecTypeOK'
    BY <1>1, Zenon DEF ExecInv, ExecTypeOK, RegistryTypeOK
<1>4. CallsInv'
    <2>1. \A p \in Calls \ {None} : RowsRead(call[p])' /\ OwnConn(p)' /\ Answered(p)'
        BY OthersKeep, Zenon DEF ExecInv
    <2> QED
        BY <2>1, RegistryAssumption, Zenon DEF CallsInv
<1>5. CancelInv'
    BY CancelsKeep, Zenon DEF ExecInv, ExecTypeOK
<1> QED
    BY <1>2, <1>3, <1>4, <1>5, ZenonT(30) DEF ExecInv

LEMMA StatementEnds ==
    ASSUME ExecInv, NEW k \in Conns, NEW st \in {"done", "failed"}, conn[k].st = "busy",
           conn' = [conn EXCEPT ![k].st = st]
    PROVE  conn' \in [Conns -> ConnRecord] /\ ConnFrame(None)
<1> DEFINE w == [conn[k] EXCEPT !.st = st]
<1>1. conn \in [Conns -> ConnRecord] /\ conn[k] \in ConnRecord
    BY Zenon DEF ExecInv, ExecTypeOK
<1>2. w \in ConnRecord /\ w.user = conn[k].user /\ w.of = conn[k].of
    BY <1>1, Zenon DEF ConnRecord
<1>3. conn' = [conn EXCEPT ![k] = w]
    BY Zenon
<1> HIDE DEF w
<1>4. /\ conn' \in [Conns -> ConnRecord] /\ conn'[k] = w
      /\ \A j \in Conns \ {k} : conn'[j] = conn[j]
    BY <1>1, <1>2, <1>3, ZenonT(30)
<1> QED
    BY <1>2, <1>4, Zenon DEF ConnFrame

LEMMA BackendStep ==
    ASSUME ExecInv, NEW k \in Conns, Finish(k) \/ Return(k), UNCHANGED torn
    PROVE  ExecInv'
<1>1. CASE Finish(k)
    <2>1. /\ UNCHANGED <<registryVars, call, out, committed, aborted, torn>>
          /\ cancels' = cancels /\ stray' = stray
        BY <1>1, Zenon DEF Finish
    <2>2. conn' \in [Conns -> ConnRecord] /\ ConnFrame(None)
        BY <1>1, StatementEnds, Zenon DEF Finish
    <2> QED
        BY <2>1, <2>2, TargetStep, ZenonT(30)
<1>2. CASE Return(k)
    <2>1. /\ UNCHANGED <<registryVars, call, out, committed, aborted, torn>>
          /\ cancels' = cancels /\ stray' = stray
          /\ conn[k].user = None /\ conn' = [conn EXCEPT ![k] = FreeConn]
        BY <1>2, Zenon DEF Return
    <2>2. FreeConn \in ConnRecord
        BY Zenon DEF FreeConn, ConnRecord
    <2>3. conn' \in [Conns -> ConnRecord] /\ ConnFrame(None)
        BY <2>1, <2>2, ConnChange, ZenonT(30)
    <2> QED
        BY <2>1, <2>3, TargetStep, ZenonT(30)
<1> QED
    BY <1>1, <1>2, ZenonT(30)

LEMMA CancelArrivesStep ==
    ASSUME ExecInv, NEW c \in cancels,
           (c.conn # None /\ CancelArrives(c) /\ UNCHANGED torn) \/ KillArrives(c)
    PROVE  ExecInv'
<1>0. /\ c.conn \in Conns \cup {None} /\ c.by \in Calls /\ conn \in [Conns -> ConnRecord]
      /\ Sent(c)
    BY Zenon DEF ExecInv, ExecTypeOK, Cancel, CancelInv
<1>1. CASE c.conn # None /\ CancelArrives(c) /\ UNCHANGED torn
    <2>1. /\ UNCHANGED <<registryVars, call, out, committed, aborted, torn>>
          /\ cancels' \subseteq cancels /\ c.conn \in Conns
        BY <1>0, <1>1, ZenonT(30) DEF CancelArrives
    <2>2. CASE UNCHANGED <<conn, stray>>
        <3>1. conn' = conn /\ stray' = stray
            BY <2>2, Zenon
        <3>2. conn' \in [Conns -> ConnRecord] /\ ConnFrame(None)
            BY <1>0, <3>1, ZenonT(30) DEF ConnFrame
        <3> QED
            BY <2>1, <3>1, <3>2, TargetStep, ZenonT(30)
    <2>3. CASE /\ conn[c.conn].st = "busy"
               /\ conn' = [conn EXCEPT ![c.conn].st = "failed"]
               /\ stray' = IF conn[c.conn].of = c.by THEN stray
                           ELSE stray \cup {[by |-> c.by, hit |-> conn[c.conn].of]}
        <3>1. conn' \in [Conns -> ConnRecord] /\ ConnFrame(None)
            BY <2>1, <2>3, StatementEnds, ZenonT(30)
        <3>2. \A x \in stray' : x \in stray \/ (x.by = c.by /\ conn[c.conn].of # c.by)
            BY <2>3
        <3>3. conn[c.conn].of # c.by => Loose(c.by)
            <4>1. call[c.by].pc = "rollback" => conn[call[c.by].conn].of = c.by
                BY <1>0, Zenon DEF ExecInv, CallsInv, OwnConn, Running
            <4> QED
                BY <1>0, <4>1, Zenon DEF Sent, Loose
        <3> QED
            BY <2>1, <3>1, <3>2, <3>3, TargetStep, ZenonT(30)
    <2> QED
        BY <1>1, <2>2, <2>3, ZenonT(30) DEF CancelArrives
<1>2. CASE KillArrives(c)
    <2>1. /\ UNCHANGED <<registryVars, call, out, committed, aborted, torn>>
          /\ cancels' \subseteq cancels /\ conn' = conn /\ stray' = stray
        BY <1>2, Zenon DEF KillArrives
    <2>2. conn' \in [Conns -> ConnRecord] /\ ConnFrame(None)
        BY <1>0, <2>1, ZenonT(30) DEF ConnFrame
    <2> QED
        BY <2>1, <2>2, TargetStep, ZenonT(30)
<1> QED
    BY <1>1, <1>2, ZenonT(30)

LEMMA ExecStays ==
    ASSUME ExecInv, UNCHANGED <<registryVars, call, pgVars, torn>>
    PROVE  ExecInv'
<1>1. /\ UNCHANGED <<registryVars, call, out, committed, aborted, torn>>
      /\ cancels' = cancels /\ stray' = stray /\ conn' = conn
    BY Zenon DEF pgVars
<1>2. conn' \in [Conns -> ConnRecord] /\ ConnFrame(None)
    BY <1>1, ZenonT(30) DEF ConnFrame, ExecInv, ExecTypeOK
<1> QED
    BY <1>1, <1>2, TargetStep, ZenonT(30)

LEMMA ExecStarts == Init => ExecInv
<1> SUFFICES ASSUME Init PROVE ExecInv
    BY Zenon
<1>1. /\ slot = [d \in Databases |-> 0] /\ cells = <<>> /\ opened = <<>>
      /\ call = [q \in Calls |-> Fresh] /\ conn = [k \in Conns |-> FreeConn] /\ cancels = {}
      /\ out = [q \in Calls |-> None] /\ stray = {} /\ torn = {}
    BY Zenon DEF Init, PgInit, RegistryInit
<1>2. Fresh \in CallRecord /\ Fresh.pc = "idle" /\ Fresh.conn = None /\ Fresh.got = 0
    BY Zenon DEF Fresh, CallRecord, Stages
<1>3. FreeConn \in ConnRecord
    BY Zenon DEF FreeConn, ConnRecord
<1>4. RegistryTypeOK /\ TableInv
    BY <1>1 DEF RegistryTypeOK, TableInv
<1>5. ExecTypeOK
    BY <1>1, <1>2, <1>3, <1>4, ZenonT(30) DEF ExecTypeOK
<1>6. \A q \in Calls : call[q] = Fresh /\ out[q] = None
    BY <1>1, Zenon
<1>7. \A q \in Calls : OwnCell(q)
    BY <1>2, <1>6, ZenonT(30) DEF OwnCell, Using, Connected
<1>8. \A q \in Calls : RowsRead(call[q])
    BY <1>2, <1>6, ZenonT(30) DEF RowsRead, Reading
<1>9. \A q \in Calls : OwnConn(q)
    BY <1>2, <1>6, ZenonT(30) DEF OwnConn, Connected, Running
<1>10. \A q \in Calls : Answered(q)
    BY <1>1, <1>6, ZenonT(30) DEF Answered
<1>11. CancelInv
    BY <1>1, ZenonT(30) DEF CancelInv
<1> QED
    BY <1>4, <1>5, <1>7, <1>8, <1>9, <1>10, <1>11 DEF ExecInv, RegistryInv, CallsInv

LEMMA ProceedStep ==
    ASSUME ExecInv, NEW q \in Calls, PgProceed(q), UNCHANGED torn
    PROVE  ExecInv'
<1>1. CASE Lookup(q)
    <2>1. RegistryStep(q) /\ UNCHANGED <<pgVars, torn>>
        BY <1>1, Zenon DEF Lookup
    <2> QED
        BY <2>1, ReadSlotStep, CreateSlotStep, UseAdapterStep, StartOpenStep, OpenDoneStep
        DEF RegistryStep
<1>2. CASE \E k \in Conns : Begin(q, k)
    BY <1>2, BeginStep, ZenonT(30)
<1>3. CASE OpenFails(q) \/ BeginFails(q) \/ StreamFails(q) \/ CommitFails(q)
    BY <1>3, FailStep, ZenonT(30)
<1>4. CASE Pid(q) \/ SetTimeout(q)
    BY <1>4, PidStep, SetTimeoutStep, ZenonT(30)
<1>5. CASE ReadRow(q) \/ StreamEnds(q) \/ Describe(q) \/ TruncateCancel(q)
    BY <1>5, ReadRowStep, StreamEndsStep, DescribeStep, TruncateCancelStep
<1>6. CASE Commit(q) \/ Rollback(q)
    BY <1>6, CommitStep, RollbackStep, ZenonT(30)
<1> QED
    BY <1>1, <1>2, <1>3, <1>4, <1>5, <1>6 DEF PgProceed

LEMMA ConductStep ==
    ASSUME ExecInv, Conduct, UNCHANGED torn
    PROVE  ExecInv'
<1>1. CASE \E q \in Calls, d \in Databases, s \in Stmts, n \in Limits : Call(q, d, s, n)
    BY <1>1, CallStep, ZenonT(30)
<1>2. CASE \E q \in Calls : PgProceed(q)
    BY <1>2, ProceedStep, ZenonT(30)
<1>3. CASE \E q \in Calls, why \in {"timeout", "gone"} : Drop(q, why)
    BY <1>3, DropStep, ZenonT(30)
<1>4. CASE \E k \in Conns : Finish(k) \/ Return(k)
    BY <1>4, BackendStep, ZenonT(30)
<1>5. CASE \E c \in cancels : c.conn # None /\ CancelArrives(c)
    BY <1>5, CancelArrivesStep, ZenonT(30)
<1> QED
    BY <1>1, <1>2, <1>3, <1>4, <1>5, Zenon DEF Conduct

LEMMA ExecStep == ExecInv /\ [Next]_vars => ExecInv'
<1> SUFFICES ASSUME ExecInv, [Next]_vars PROVE ExecInv'
    BY Zenon
<1>1. CASE Conduct /\ UNCHANGED mongoVars
    BY <1>1, ConductStep, ZenonT(30) DEF mongoVars
<1>2. CASE \E q \in Calls : MongoProceed(q)
    <2>1. ASSUME NEW q \in Calls, FetchMore(q) PROVE ExecInv'
        BY <2>1, ExecStays, ZenonT(30) DEF FetchMore, Kept, pgVars
    <2> QED
        BY <1>2, <2>1, CommandStep, ScalarStep, OpenCursorStep, FailStep, NextDocumentStep,
           CursorEndsStep, CursorFailsStep
        DEF MongoProceed
<1>3. CASE \E q \in Calls : OpEnds(q)
    <2>1. UNCHANGED <<registryVars, call, pgVars, torn>>
        BY <1>3, Zenon DEF OpEnds
    <2> QED
        BY <2>1, ExecStays, ZenonT(30)
<1>4. CASE \E q \in Calls, why \in {"timeout", "gone"} : DropCommand(q, why)
    BY <1>4, DropStep, ZenonT(30)
<1>5. CASE \E c \in cancels : KillArrives(c)
    BY <1>5, CancelArrivesStep
<1>6. CASE UNCHANGED vars
    <2>1. UNCHANGED <<registryVars, call, pgVars, torn>>
        BY <1>6, Zenon DEF vars, mongoVars
    <2> QED
        BY <2>1, ExecStays, ZenonT(30)
<1> QED
    BY <1>1, <1>2, <1>3, <1>4, <1>5, <1>6, Zenon DEF Next, Done

LEMMA ExecInvariance == Spec => []ExecInv
    BY ExecStarts, ExecStep, PTL DEF Spec

\* For any number of calls, databases, statements, limits and connections: a success holds
\* as many rows as the statement gives or the limit allows and says truncated exactly when
\* rows were left out, but for a Mongo cursor that breaks just past the limit
\* (run_query_inner, MongoAdapter::dispatch).
THEOREM ResultsAreExact == Spec => []ResultExact
<1>1. ExecInv => ResultExact
    BY Zenon DEF ExecInv, CallsInv, Answered, Exact, ResultExact
<1> QED
    BY <1>1, ExecInvariance, PTL

\* A write whose whole result was returned is committed, unless its describe broke the
\* transaction: nobody else's cancel, timeout or drop can come between (tx.commit).
THEOREM WholeWritesCommit == Spec => []CompleteIsCommitted
<1>1. ExecInv => CompleteIsCommitted
    BY ZenonT(30) DEF ExecInv, CallsInv, Answered, CompleteIsCommitted
<1> QED
    BY <1>1, ExecInvariance, PTL

\* Every cancel on its way, and every one that hit the statement of another call, was left
\* by a call that was dropped or whose result the limit cut: one that returned its whole
\* result or an error has disarmed and sent none (CancelOnDrop, cancel_and_rollback).
THEOREM ReturnsCancelNobody == Spec => []CleanReturnCancelsNobody
<1>1. ExecInv => CleanReturnCancelsNobody
    BY Zenon DEF ExecInv, CancelInv, Sent, Loose, CleanReturnCancelsNobody
<1> QED
    BY <1>1, ExecInvariance, PTL

\* What calls share and do not share: a database is opened at most once at any time, a call
\* runs on an adapter of its own database, and no two calls hold one connection
\* (get_or_open, pool.begin).
SharedOnlyByDatabase ==
    /\ \A i, j \in 1..Len(opened) : opened[i] = opened[j] => i = j
    /\ \A q \in Calls : call[q].pc \in Using => opened[call[q].adapter] = call[q].db
    /\ \A p, q \in Calls : call[p].pc \in Connected /\ call[q].pc \in Connected
                              /\ call[p].conn = call[q].conn => p = q

\* Racing first calls of a database end up on one adapter, also when some of them fail to
\* open it or are dropped while they do (get_or_open).
THEOREM OneAdapterPerDatabase == Spec => []SharedOnlyByDatabase
<1>1. ExecInv => SharedOnlyByDatabase
    <2> SUFFICES ASSUME ExecInv PROVE SharedOnlyByDatabase
        BY Zenon
    <2>1. \A i, j \in 1..Len(opened) : opened[i] = opened[j] => i = j
        BY Zenon DEF ExecInv, RegistryInv, TableInv
    <2>2. \A q \in Calls : call[q].pc \in Using => opened[call[q].adapter] = call[q].db
        BY Zenon DEF ExecInv, RegistryInv, OwnCell
    <2>3. \A q \in Calls : call[q].pc \in Connected => conn[call[q].conn].user = q
        BY Zenon DEF ExecInv, CallsInv, OwnConn
    <2> QED
        BY <2>1, <2>2, <2>3, ZenonT(30) DEF SharedOnlyByDatabase
<1> QED
    BY <1>1, ExecInvariance, PTL

=============================================================================
