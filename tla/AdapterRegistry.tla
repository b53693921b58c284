-------------------------- MODULE AdapterRegistry --------------------------
(***************************************************************************)
(* AdapterRegistry::get_or_open (src/exec/mod.rs): one adapter, and so one *)
(* set of connection pools, for each (server, database), opened by the    *)
(* first call that needs it. Slots are OnceCells that the map hands out:   *)
(* calls of one database share one attempt to open it, and no lock is held *)
(* while the database is being reached.                                    *)
(***************************************************************************)
EXTENDS Naturals, Sequences, FiniteSets

CONSTANTS
    Calls,       \* tool calls
    Databases,   \* (server, database) pairs
    Mongo,       \* those on Mongo servers; the others are on Postgres
    None

ASSUME RegistryAssumption ==
    IsFiniteSet(Calls) /\ None \notin Calls \cup Databases /\ Mongo \subseteq Databases

VARIABLES
    slot,        \* the map: database -> index of its cell, 0 when absent
    cells,       \* the OnceCells made so far: [holder, adapter]
    opened,      \* the adapters opened so far: their databases
    call         \* calls: where they are and what they hold

registryVars == <<slot, cells, opened>>

Adapters == 1 .. Cardinality(Calls)

\* What a call carries: its database and statement, then its cell, adapter and connection.
Fresh == [pc |-> "idle", db |-> None, stmt |-> None, limit |-> 0, cell |-> 0, adapter |-> 0,
          conn |-> None, got |-> 0]

RegistryInit ==
    /\ slot = [d \in Databases |-> 0] /\ cells = <<>> /\ opened = <<>>
    /\ call = [q \in Calls |-> Fresh]

Goto(q, pc) == call' = [call EXCEPT ![q].pc = pc]

\* The read lock: a slot that exists is cloned.
ReadSlot(q) ==
    /\ call[q].pc = "read"
    /\ LET c == slot[call[q].db] IN
        call' = [call EXCEPT ![q].pc = IF c = 0 THEN "create" ELSE "init", ![q].cell = c]
    /\ UNCHANGED registryVars

\* The write lock: entry().or_default() keeps the slot that landed first.
CreateSlot(q) ==
    /\ call[q].pc = "create"
    /\ IF slot[call[q].db] # 0
       THEN UNCHANGED <<slot, cells>>
       ELSE /\ cells' = Append(cells, [holder |-> None, adapter |-> 0])
            /\ slot' = [slot EXCEPT ![call[q].db] = Len(cells')]
    /\ call' = [call EXCEPT ![q].pc = "init", ![q].cell = slot'[call[q].db]]
    /\ UNCHANGED opened

\* get_or_try_init of a cell that is set.
UseAdapter(q) ==
    /\ call[q].pc = "init" /\ cells[call[q].cell].adapter # 0
    /\ call' = [call EXCEPT ![q].pc = "begin", ![q].adapter = cells[call[q].cell].adapter]
    /\ UNCHANGED registryVars

\* One caller at a time holds the permit of an empty cell, and opens.
StartOpen(q) ==
    /\ call[q].pc = "init" /\ cells[call[q].cell] = [holder |-> None, adapter |-> 0]
    /\ cells' = [cells EXCEPT ![call[q].cell].holder = q]
    /\ Goto(q, "opening")
    /\ UNCHANGED <<slot, opened>>

\* PgAdapter::open connects both of its pools; MongoAdapter::open only builds a client.
OpenDone(q) ==
    /\ call[q].pc = "opening"
    /\ opened' = Append(opened, call[q].db)
    /\ cells' = [cells EXCEPT ![call[q].cell] = [holder |-> None, adapter |-> Len(opened')]]
    /\ call' = [call EXCEPT ![q].pc = "begin", ![q].adapter = Len(opened')]
    /\ UNCHANGED slot

\* The permit comes back when an attempt fails or its caller is dropped.
Unlocked(q) ==
    IF call[q].pc = "opening" THEN [cells EXCEPT ![call[q].cell].holder = None] ELSE cells

RegistryStep(q) ==
    ReadSlot(q) \/ CreateSlot(q) \/ UseAdapter(q) \/ StartOpen(q) \/ OpenDone(q)

-----------------------------------------------------------------------------
=============================================================================
