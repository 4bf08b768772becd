----------------------------- MODULE Templates -----------------------------
(***************************************************************************)
(* The message templates of the Spintax Studio (insert_template,           *)
(* update_template, toggle_template and delete_template of                 *)
(* src/dashboard/services.py), each a transaction of the dashboard's       *)
(* thread pool in PostgreSQL's READ COMMITTED: a statement sees the rows   *)
(* committed when it starts, locks each row it writes until its            *)
(* transaction ends, waits for a row another has locked and then writes    *)
(* that row's newest version.                                              *)
(***************************************************************************)
CONSTANTS
    Rows,      \* ids a template may get
    Clients,   \* requests in flight
    Inserting  \* how templates may be created: active, inactive, not at all

ASSUME TemplateAssumption ==
    /\ "none" \notin Rows
    /\ Inserting \subseteq {"on", "off"}

VARIABLES
    committed,   \* is_active of each row as committed, "none" where there is no row
    tx,          \* the transaction of each client
    unseen       \* history: rows inserted beside an activation, see Commit

vars == <<committed, tx, unseen>>

IsActive == {"none", "on", "off"}
Statement == {"idle", "touch", "clear", "clearing", "set", "insert", "commit"}

\* `todo` is what an UPDATE of the whole table has yet to write, `wrote` what
\* the transaction has written and so locked.
NoTx == [at |-> "idle", row |-> "none", to |-> "none", new |-> FALSE,
         todo |-> {}, wrote |-> [row \in Rows |-> "none"]]

TypeOK ==
    /\ committed \in [Rows -> IsActive]
    /\ unseen \subseteq Rows
    /\ tx \in [Clients -> [at : Statement, row : Rows \cup {"none"}, to : IsActive, new : BOOLEAN,
                           todo : SUBSET Rows, wrote : [Rows -> IsActive]]]
    /\ \A c \in Clients : IF tx[c].at = "idle" THEN tx[c] = NoTx ELSE tx[c].row \in Rows

Init ==
    /\ committed \in [Rows -> {"none", "off"}]
    /\ tx = [c \in Clients |-> NoTx]
    /\ unseen = {}

Exists(row) == committed[row] # "none"
Locks(c) == {row \in Rows : tx[c].wrote[row] # "none"}
Free(c, row) == \A d \in Clients \ {c} : row \notin Locks(d)

-----------------------------------------------------------------------------
(* The four services *)

Begin(c, row, to, at) ==
    /\ tx[c].at = "idle"
    /\ tx' = [tx EXCEPT ![c] = [NoTx EXCEPT !.at = at, !.row = row, !.to = to, !.new = ~Exists(row)]]
    /\ UNCHANGED <<committed, unseen>>

\* Mutant: activating does not clear the others.
ToggleAlone(c, row) ==
    /\ Exists(row)
    /\ Begin(c, row, IF committed[row] = "off" THEN "on" ELSE "off", "set")

\* toggle_template: SELECT is_active, then act on what it said.
Toggle(c, row) ==
    /\ Exists(row)
    /\ IF committed[row] = "off" THEN Begin(c, row, "on", "clear")
                                 ELSE Begin(c, row, "off", "set")

\* update_template: SELECT id, then the name or text if given ("touch"),
\* then is_active if given.
Update(c, row) ==
    /\ Exists(row)
    /\ \/ \E to \in {"on", "off", "none"} : Begin(c, row, to, "touch")
       \/ Begin(c, row, "on", "clear")
       \/ Begin(c, row, "off", "set")

\* insert_template takes an id no other has, committed or not.
Insert(c, row) ==
    /\ ~Exists(row)
    /\ \A d \in Clients : tx[d].row # row
    /\ \/ "off" \in Inserting /\ Begin(c, row, "off", "insert")
       \/ "on" \in Inserting /\ Begin(c, row, "on", "clear")

\* delete_template, one statement.
Delete(row) ==
    /\ Exists(row)
    /\ \A c \in Clients : row \notin Locks(c)
    /\ committed' = [committed EXCEPT ![row] = "none"]
    /\ unseen' = unseen \ {row}
    /\ UNCHANGED tx

-----------------------------------------------------------------------------
(* Their statements *)

\* UPDATE .. SET name (or template) WHERE id; no row is no error.
Touch(c) ==
    /\ tx[c].at = "touch"
    /\ Free(c, tx[c].row)
    /\ tx' = [tx EXCEPT ![c].at = IF tx[c].to = "on" THEN "clear"
                                  ELSE IF tx[c].to = "off" THEN "set" ELSE "commit",
                        ![c].wrote[tx[c].row] = committed[tx[c].row]]
    /\ UNCHANGED <<committed, unseen>>

\* UPDATE message_templates SET is_active = FALSE: its snapshot.
Clear(c) ==
    /\ tx[c].at = "clear"
    /\ tx' = [tx EXCEPT ![c].at = "clearing", ![c].todo = {row \in Rows : Exists(row)}]
    /\ UNCHANGED <<committed, unseen>>

\* One row of it; one that has been deleted since is passed over.
ClearRow(c, row) ==
    /\ tx[c].at = "clearing"
    /\ row \in tx[c].todo
    /\ Free(c, row)
    /\ tx' = [tx EXCEPT ![c].todo = @ \ {row}, ![c].wrote[row] = IF Exists(row) THEN "off" ELSE @]
    /\ UNCHANGED <<committed, unseen>>

\* Mutant: the clearing is a transaction of its own.
ClearCommits(c) ==
    /\ tx[c].at = "clearing"
    /\ tx[c].todo = {}
    /\ committed' = [row \in Rows |->
          IF row \in Locks(c) THEN tx[c].wrote[row] ELSE committed[row]]
    /\ tx' = [tx EXCEPT ![c].at = IF tx[c].new THEN "insert" ELSE "set", ![c].wrote = NoTx.wrote]
    /\ UNCHANGED unseen

ClearDone(c) ==
    /\ tx[c].at = "clearing"
    /\ tx[c].todo = {}
    /\ tx' = [tx EXCEPT ![c].at = IF tx[c].new THEN "insert" ELSE "set"]
    /\ UNCHANGED <<committed, unseen>>

\* UPDATE .. SET is_active WHERE id.
SetActive(c) ==
    /\ tx[c].at = "set"
    /\ Free(c, tx[c].row)
    /\ tx' = [tx EXCEPT ![c].at = "commit",
                        ![c].wrote[tx[c].row] = IF Exists(tx[c].row) THEN tx[c].to ELSE @]
    /\ UNCHANGED <<committed, unseen>>

InsertRow(c) ==
    /\ tx[c].at = "insert"
    /\ tx' = [tx EXCEPT ![c].at = "commit", ![c].wrote[tx[c].row] = tx[c].to]
    /\ UNCHANGED <<committed, unseen>>

\* An activation that has taken its snapshot does not see a row that is
\* inserted from here on, whether it is inserted active or activated next.
Activating(d) == tx[d].to = "on" /\ tx[d].at \in {"clearing", "set", "insert", "commit"}

Commit(c) ==
    /\ tx[c].at = "commit"
    /\ committed' = [row \in Rows |->
          IF row \in Locks(c) THEN tx[c].wrote[row] ELSE committed[row]]
    /\ tx' = [tx EXCEPT ![c] = NoTx]
    /\ unseen' = IF \E d \in Clients \ {c} : Activating(d)
                   THEN unseen \cup {row \in {tx[c].row} : tx[c].new}
                   ELSE {row \in unseen : committed'[row] = "on"}

\* Mutants: the connection is not given back, or given back as it is.
ConflictLeaks(c) ==
    /\ tx[c].at \in {"touch", "insert"}
    /\ tx' = [tx EXCEPT ![c].at = "aborted"]
    /\ UNCHANGED <<committed, unseen>>
ConflictKeepsOpen(c) ==
    /\ tx[c].at \in {"touch", "insert"}
    /\ tx' = [tx EXCEPT ![c].at = "idle"]
    /\ UNCHANGED <<committed, unseen>>

\* The name is taken, and get_db_connection's putconn rolls back.
Conflict(c) ==
    /\ tx[c].at \in {"touch", "insert"}
    /\ tx' = [tx EXCEPT ![c] = NoTx]
    /\ UNCHANGED <<committed, unseen>>

-----------------------------------------------------------------------------
(* Deadlock: the server kills one of the transactions in a cycle. *)

Wants(c) == CASE tx[c].at = "clearing" -> tx[c].todo
              [] tx[c].at \in {"touch", "set"} -> {tx[c].row}
              [] OTHER -> {}

\* c is stuck behind d: no row it could go on with is free.
WaitsFor(c, d) ==
    /\ Wants(c) # {} /\ \A row \in Wants(c) : ~Free(c, row)
    /\ d # c /\ Wants(c) \cap Locks(d) # {}

Deadlocked(c) ==
    \E cycle \in SUBSET Clients :
        /\ c \in cycle
        /\ \A d \in cycle : \E e \in cycle : WaitsFor(d, e)

Victim(c) ==
    /\ Deadlocked(c)
    /\ tx' = [tx EXCEPT ![c] = NoTx]
    /\ UNCHANGED <<committed, unseen>>

-----------------------------------------------------------------------------

Run(c) ==
    \/ Touch(c) \/ Clear(c) \/ ClearDone(c) \/ SetActive(c) \/ InsertRow(c)
    \/ \E row \in Rows : ClearRow(c, row)
    \/ Commit(c)

Next ==
    \/ \E c \in Clients :
          \/ \E row \in Rows : Toggle(c, row) \/ Update(c, row) \/ Insert(c, row)
          \/ Run(c) \/ Conflict(c) \/ Victim(c)
    \/ \E row \in Rows : Delete(row)

Spec == Init /\ [][Next]_vars

\* The server runs every statement that is not waiting for a lock, and looks
\* for deadlocks after a second of waiting.
FairSpec == Spec /\ \A c \in Clients : SF_vars(Run(c)) /\ SF_vars(Victim(c))

-----------------------------------------------------------------------------
(* Properties *)

Active == {row \in Rows : committed[row] = "on"}

\* The seeder has one active template to read ("exactly one active source",
\* update_template). Toggles, edits, insertions and deletions in any overlap
\* keep it, but for a template inserted beside an activation that has already
\* decided what to clear.
AtMostOneActive == \A row, other \in Active \ unseen : row = other

\* The active template is switched off only for another that is on, at the
\* request to switch it off, or for one that was deleted under its activation.
NoAccidentalSilence ==
    [][\A row \in Active :
         committed'[row] = "off" =>
            \/ \E other \in Rows : committed'[other] = "on"
            \/ \E c \in Clients : /\ tx[c].at = "commit"
                                  /\ \/ tx[c].to = "off" /\ tx[c].row = row
                                     \/ tx[c].to = "on" /\ tx[c].row \notin Locks(c)]_vars

\* Every request is answered: what deadlocks is killed.
RequestEnds == \A c \in Clients : tx[c].at # "idle" ~> tx[c].at = "idle"

=============================================================================
