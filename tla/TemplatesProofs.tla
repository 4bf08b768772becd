-------------------------- MODULE TemplatesProofs --------------------------
(* Proofs about Templates, for any number of templates and of requests. *)
EXTENDS Templates, TLAPS

-----------------------------------------------------------------------------
(* Type correctness *)

Tx == [at : Statement, row : Rows \cup {"none"}, to : IsActive, new : BOOLEAN,
       todo : SUBSET Rows, wrote : [Rows -> IsActive]]

LEMMA NoTxType == NoTx \in Tx /\ NoTx.at = "idle"
  BY DEF NoTx, Tx, Statement, IsActive

\* A transaction that begins.
LEMMA BeginType ==
  ASSUME TypeOK, NEW c \in Clients, NEW row \in Rows, NEW to \in IsActive,
         NEW at \in Statement \ {"idle"}, Begin(c, row, to, at)
  PROVE  TypeOK'
  <1> DEFINE after == [NoTx EXCEPT !.at = at, !.row = row, !.to = to, !.new = ~Exists(row)]
  <1>1. after \in Tx /\ after.at = at /\ after.row = row
    <2>1. (~Exists(row)) \in BOOLEAN
      BY DEF Exists
    <2> QED
      BY <2>1, NoTxType DEF Tx
  <1>2. tx' = [tx EXCEPT ![c] = after]
    BY DEF Begin
  <1> HIDE DEF after
  <1> QED
    BY <1>1, <1>2 DEF Begin, TypeOK, Tx

\* A transaction that goes on.
LEMMA GoOnType ==
  ASSUME TypeOK, NEW c \in Clients, NEW t \in Tx, t.at # "idle", t.row \in Rows, tx' = [tx EXCEPT ![c] = t],
         UNCHANGED <<committed, unseen>>
  PROVE  TypeOK'
  BY DEF TypeOK, Tx

\* One that ends without a trace.
LEMMA AbortType ==
  ASSUME TypeOK, NEW c \in Clients, tx' = [tx EXCEPT ![c] = NoTx], UNCHANGED <<committed, unseen>>
  PROVE  TypeOK'
  BY NoTxType DEF TypeOK, Tx

LEMMA RunType ==
  ASSUME TypeOK, NEW c \in Clients, Run(c)
  PROVE  TypeOK'
  <1>t. /\ tx[c] \in Tx /\ tx \in [Clients -> Tx] /\ committed \in [Rows -> IsActive]
        /\ tx[c].row \in Rows
    BY DEF TypeOK, Tx, Run, Touch, Clear, ClearRow, ClearDone, SetActive, InsertRow, Commit
  <1>1. CASE Touch(c)
    <2> DEFINE next == IF tx[c].to = "on" THEN "clear" ELSE IF tx[c].to = "off" THEN "set" ELSE "commit"
               wrote == [tx[c].wrote EXCEPT ![tx[c].row] = committed[tx[c].row]]
               t == [tx[c] EXCEPT !.at = next, !.wrote = wrote]
    <2>1. wrote \in [Rows -> IsActive]
      BY <1>t DEF Tx
    <2>2. t \in Tx /\ t.at # "idle" /\ t.row \in Rows
      BY <1>t, <2>1 DEF Tx, Statement
    <2>3. tx' = [tx EXCEPT ![c] = t]
      BY <1>t, <1>1 DEF Touch, Tx
    <2> QED
      BY <1>1, <2>2, <2>3, GoOnType DEF Touch
  <1>2. CASE Clear(c)
    <2> DEFINE t == [tx[c] EXCEPT !.at = "clearing", !.todo = {row \in Rows : Exists(row)}]
    <2>1. t \in Tx /\ t.at # "idle" /\ t.row \in Rows
      BY <1>t DEF Tx, Statement
    <2>2. tx' = [tx EXCEPT ![c] = t]
      BY <1>t, <1>2 DEF Clear, Tx
    <2> QED
      BY <1>2, <2>1, <2>2, GoOnType DEF Clear
  <1>3. CASE \E row \in Rows : ClearRow(c, row)
    <2>1. PICK row \in Rows : ClearRow(c, row)
      BY <1>3
    <2> DEFINE wrote == [tx[c].wrote EXCEPT ![row] = IF Exists(row) THEN "off" ELSE @]
               t == [tx[c] EXCEPT !.todo = @ \ {row}, !.wrote = wrote]
    <2>2. wrote \in [Rows -> IsActive]
      BY <1>t DEF Tx, IsActive
    <2>3. t \in Tx /\ t.at # "idle" /\ t.row \in Rows
      BY <1>t, <2>1, <2>2 DEF Tx, ClearRow
    <2>4. tx' = [tx EXCEPT ![c] = t]
      BY <1>t, <2>1 DEF ClearRow, Tx
    <2> QED
      BY <2>1, <2>3, <2>4, GoOnType DEF ClearRow
  <1>4. CASE ClearDone(c)
    <2> DEFINE t == [tx[c] EXCEPT !.at = IF tx[c].new THEN "insert" ELSE "set"]
    <2>1. t \in Tx /\ t.at # "idle" /\ t.row \in Rows
      BY <1>t DEF Tx, Statement
    <2>2. tx' = [tx EXCEPT ![c] = t]
      BY <1>t, <1>4 DEF ClearDone, Tx
    <2> QED
      BY <1>4, <2>1, <2>2, GoOnType DEF ClearDone
  <1>5. CASE SetActive(c) \/ InsertRow(c)
    <2>1. PICK value \in IsActive :
            tx' = [tx EXCEPT ![c].at = "commit", ![c].wrote[tx[c].row] = value]
      <3>1. CASE SetActive(c)
        <4> DEFINE value == IF Exists(tx[c].row) THEN tx[c].to ELSE tx[c].wrote[tx[c].row]
        <4>1. value \in IsActive
          BY <1>t DEF Tx
        <4> QED
          BY <1>t, <3>1, <4>1 DEF SetActive, Tx
      <3>2. CASE InsertRow(c)
        BY <1>t, <3>2 DEF InsertRow, Tx
      <3> QED
        BY <1>5, <3>1, <3>2
    <2> DEFINE wrote == [tx[c].wrote EXCEPT ![tx[c].row] = value]
               t == [tx[c] EXCEPT !.at = "commit", !.wrote = wrote]
    <2>2. wrote \in [Rows -> IsActive]
      BY <1>t, <2>1 DEF Tx
    <2>3. t \in Tx /\ t.at # "idle" /\ t.row \in Rows
      BY <1>t, <2>2 DEF Tx, Statement
    <2>4. tx' = [tx EXCEPT ![c] = t]
      BY <1>t, <2>1 DEF Tx
    <2> QED
      BY <1>5, <2>3, <2>4, GoOnType DEF SetActive, InsertRow
  <1>6. CASE Commit(c)
    <2>1. committed' \in [Rows -> IsActive]
      BY <1>t, <1>6 DEF Commit, Tx
    <2>2. unseen' \subseteq Rows
      BY <1>t, <1>6 DEF Commit, TypeOK
    <2>3. tx' = [tx EXCEPT ![c] = NoTx]
      BY <1>6 DEF Commit
    <2> QED
      BY <2>1, <2>2, <2>3, NoTxType DEF TypeOK, Tx
  <1> QED
    BY <1>1, <1>2, <1>3, <1>4, <1>5, <1>6 DEF Run

LEMMA NextType == TypeOK /\ [Next]_vars => TypeOK'
  <1> SUFFICES ASSUME TypeOK, [Next]_vars
               PROVE  TypeOK'
    OBVIOUS
  <1> USE DEF Statement, IsActive
  <1>1. ASSUME NEW c \in Clients, NEW row \in Rows, Toggle(c, row) \/ Update(c, row) \/ Insert(c, row)
        PROVE  TypeOK'
    BY <1>1, BeginType DEF Toggle, Update, Insert
  <1>2. ASSUME NEW c \in Clients, Run(c)
        PROVE  TypeOK'
    BY <1>2, RunType
  <1>3. ASSUME NEW c \in Clients, Conflict(c) \/ Victim(c)
        PROVE  TypeOK'
    BY <1>3, AbortType DEF Conflict, Victim
  <1>4. ASSUME NEW row \in Rows, Delete(row)
        PROVE  TypeOK'
    BY <1>4 DEF Delete, TypeOK
  <1>5. CASE UNCHANGED vars
    BY <1>5 DEF vars, TypeOK
  <1> QED
    BY <1>1, <1>2, <1>3, <1>4, <1>5 DEF Next

\* Rows and transactions have their types, for any number of either.
THEOREM TypeCorrect == Spec => []TypeOK
  <1>1. Init => TypeOK
    BY NoTxType DEF Init, TypeOK, Tx, IsActive, NoTx
  <1>2. TypeOK /\ [Next]_vars => TypeOK'
    BY NextType
  <1> QED
    BY <1>1, <1>2, PTL DEF Spec

-----------------------------------------------------------------------------
(* One active template *)

\* No two transactions have written the same row. What they have written are
\* rows that exist or the one they are about to add, which nobody else has.
Locking ==
    /\ \A c, d \in Clients : \A row \in Rows : row \in Locks(c) /\ row \in Locks(d) => c = d
    /\ \A c \in Clients : \A row \in Locks(c) : Exists(row) \/ (tx[c].new /\ row = tx[c].row)
    /\ \A c \in Clients : tx[c].new =>
          /\ ~Exists(tx[c].row)
          /\ \A d \in Clients \ {c} : tx[d].row # tx[c].row

\* A transaction switches on its own row only, and only if that is asked for.
Switching ==
    \A c \in Clients : \A row \in Locks(c) :
        /\ row # tx[c].row => tx[c].wrote[row] = "off"
        /\ tx[c].wrote[row] = "on" => tx[c].to = "on" \/ committed[row] = "on"

\* An activation that has taken its snapshot has cleared every template or has
\* yet to, but for those inserted since.
Covering ==
    \A c \in Clients : Activating(c) =>
        \A row \in Rows : Exists(row) => row \in tx[c].todo \/ row \in Locks(c) \/ row \in unseen

\* The order of the statements.
Shape(t) ==
    /\ t.at # "clearing" => t.todo = {}
    /\ t.at \in {"clear", "clearing"} => t.to = "on"
    /\ t.at = "insert" => t.new
    /\ t.at \in {"touch", "set"} => ~t.new
Shaped == \A c \in Clients : Shape(tx[c])

OneInv == Locking /\ Switching /\ Covering /\ Shaped /\ AtMostOneActive

\* A step of one transaction that is not its end.
LEMMA StepOne ==
  ASSUME TypeOK, OneInv, NEW c \in Clients,
         tx' \in [Clients -> Tx], \A d \in Clients \ {c} : tx'[d] = tx[d],
         UNCHANGED <<committed, unseen>>,
         tx'[c].row = tx[c].row, tx'[c].new = tx[c].new, tx'[c].to = tx[c].to,
         \A row \in Locks(c)' : \/ row \in Locks(c)
                                \/ Exists(row) /\ Free(c, row)
                                \/ tx[c].new /\ row = tx[c].row,
         \A row \in Locks(c)' : /\ row # tx[c].row => tx'[c].wrote[row] = "off"
                                /\ tx'[c].wrote[row] = "on" => tx[c].to = "on" \/ committed[row] = "on",
         Activating(c)' =>
            \A row \in Rows : Exists(row) => row \in tx'[c].todo \/ row \in Locks(c)' \/ row \in unseen,
         Shape(tx'[c])
  PROVE  OneInv'
  <1>1. \A d \in Clients \ {c} : Locks(d)' = Locks(d) /\ (Activating(d)' <=> Activating(d))
    BY DEF Locks, Activating
  <1>2. \A row \in Rows : Exists(row)' <=> Exists(row)
    BY DEF Exists
  <1>3. Locking'
    <2>1. ASSUME NEW d \in Clients \ {c}, NEW row \in Rows, row \in Locks(c)', row \in Locks(d)
          PROVE  FALSE
      <3>1. CASE row \in Locks(c)
        BY <2>1, <3>1 DEF OneInv, Locking
      <3>2. CASE Free(c, row)
        BY <2>1, <3>2 DEF Free
      <3>3. CASE tx[c].new /\ row = tx[c].row
        BY <2>1, <3>3 DEF OneInv, Locking
      <3> QED
        BY <2>1, <3>1, <3>2, <3>3
    <2>2. \A d, e \in Clients : \A row \in Rows : row \in Locks(d)' /\ row \in Locks(e)' => d = e
      BY <1>1, <2>1 DEF OneInv, Locking
    <2>3. \A d \in Clients : \A row \in Locks(d)' : Exists(row) \/ (tx'[d].new /\ row = tx'[d].row)
      BY <1>1 DEF OneInv, Locking
    <2>4. \A d \in Clients : tx'[d].new => /\ ~Exists(tx'[d].row)
                                           /\ \A e \in Clients \ {d} : tx'[e].row # tx'[d].row
      BY DEF OneInv, Locking
    <2> QED
      BY <1>2, <2>2, <2>3, <2>4 DEF Locking, Exists
  <1>4. Switching'
    BY <1>1 DEF OneInv, Switching
  <1>5. Covering'
    BY <1>1, <1>2 DEF OneInv, Covering
  <1>6. Shaped'
    BY DEF OneInv, Shaped
  <1>7. AtMostOneActive'
    BY DEF OneInv, AtMostOneActive, Active
  <1> QED
    BY <1>3, <1>4, <1>5, <1>6, <1>7 DEF OneInv

\* A transaction that has written nothing yet, or nothing any more.
LEMMA StepNone ==
  ASSUME TypeOK, OneInv, NEW c \in Clients, NEW t \in Tx, tx' = [tx EXCEPT ![c] = t],
         UNCHANGED <<committed, unseen>>,
         \A row \in Rows : t.wrote[row] = "none",
         t.at \notin {"clearing", "insert", "commit"} \/ t.to # "on", t.at = "set" => t.to # "on",
         t.new => /\ ~Exists(t.row)
                  /\ \A d \in Clients \ {c} : tx[d].row # t.row,
         \A d \in Clients \ {c} : tx[d].new => tx[d].row # t.row,
         Shape(t)
  PROVE  OneInv'
  <1>1. tx \in [Clients -> Tx]
    BY DEF TypeOK, Tx
  <1>2. tx'[c] = t /\ \A d \in Clients \ {c} : tx'[d] = tx[d]
    BY <1>1
  <1>3. Locks(c)' = {} /\ ~Activating(c)'
    BY <1>2 DEF Locks, Activating
  <1>4. \A d \in Clients \ {c} : Locks(d)' = Locks(d) /\ (Activating(d)' <=> Activating(d))
    BY <1>2 DEF Locks, Activating
  <1>5. \A row \in Rows : Exists(row)' <=> Exists(row)
    BY DEF Exists
  <1>6. Locking'
    <2>1. \A d, e \in Clients : \A row \in Rows : row \in Locks(d)' /\ row \in Locks(e)' => d = e
      BY <1>3, <1>4 DEF OneInv, Locking
    <2>2. \A d \in Clients : \A row \in Locks(d)' : Exists(row) \/ (tx'[d].new /\ row = tx'[d].row)
      BY <1>2, <1>3, <1>4 DEF OneInv, Locking
    <2>3. \A d \in Clients : tx'[d].new => /\ ~Exists(tx'[d].row)
                                           /\ \A e \in Clients \ {d} : tx'[e].row # tx'[d].row
      BY <1>2 DEF OneInv, Locking
    <2> QED
      BY <1>5, <2>1, <2>2, <2>3 DEF Locking, Exists
  <1>7. Switching'
    BY <1>2, <1>3, <1>4 DEF OneInv, Switching
  <1>8. Covering'
    BY <1>2, <1>3, <1>4, <1>5 DEF OneInv, Covering
  <1>9. Shaped'
    BY <1>2 DEF OneInv, Shaped
  <1>10. AtMostOneActive'
    BY DEF OneInv, AtMostOneActive, Active
  <1> QED
    BY <1>6, <1>7, <1>8, <1>9, <1>10 DEF OneInv

LEMMA BeginOne ==
  ASSUME TypeOK, OneInv, NEW c \in Clients, NEW row \in Rows, NEW to \in IsActive,
         NEW at \in Statement \ {"idle"}, Begin(c, row, to, at),
         Exists(row) \/ \A d \in Clients : tx[d].row # row,
         \/ at = "touch" /\ Exists(row)
         \/ at = "clear" /\ to = "on"
         \/ at = "set" /\ to = "off" /\ Exists(row)
         \/ at = "insert" /\ to = "off" /\ ~Exists(row)
  PROVE  OneInv'
  <1> DEFINE after == [NoTx EXCEPT !.at = at, !.row = row, !.to = to, !.new = ~Exists(row)]
  <1>1. /\ after \in Tx /\ after.at = at /\ after.row = row /\ after.to = to
        /\ after.new = ~Exists(row) /\ after.todo = {}
        /\ \A r \in Rows : after.wrote[r] = "none"
    <2>1. (~Exists(row)) \in BOOLEAN
      BY DEF Exists
    <2>2. NoTx.todo = {} /\ \A r \in Rows : NoTx.wrote[r] = "none"
      BY DEF NoTx
    <2> QED
      BY <2>1, <2>2, NoTxType DEF Tx
  <1>2. tx' = [tx EXCEPT ![c] = after]
    BY DEF Begin
  <1> HIDE DEF after
  <1>3. Shape(after)
    BY <1>1 DEF Shape
  <1>4. \A d \in Clients \ {c} : tx[d].new => tx[d].row # row
    BY DEF OneInv, Locking
  <1>5. after.at \notin {"clearing", "insert", "commit"} \/ after.to # "on"
    BY <1>1
  <1>6. after.at = "set" => after.to # "on"
    BY <1>1
  <1>7. after.new => ~Exists(after.row) /\ \A d \in Clients \ {c} : tx[d].row # after.row
    BY <1>1
  <1>8. \A d \in Clients \ {c} : tx[d].new => tx[d].row # after.row
    BY <1>1, <1>4
  <1> QED
    BY <1>1, <1>2, <1>3, <1>5, <1>6, <1>7, <1>8, StepNone DEF Begin

LEMMA EndOne ==
  ASSUME TypeOK, OneInv, NEW c \in Clients, tx' = [tx EXCEPT ![c] = NoTx],
         UNCHANGED <<committed, unseen>>
  PROVE  OneInv'
  <1>1. /\ NoTx.todo = {} /\ NoTx.row = "none" /\ NoTx.to = "none" /\ ~NoTx.new
        /\ \A row \in Rows : NoTx.wrote[row] = "none"
    BY DEF NoTx
  <1>2. \A d \in Clients : tx[d].new => tx[d].row # "none"
    BY TemplateAssumption DEF TypeOK, NoTx
  <1>3. Shape(NoTx)
    BY <1>1, NoTxType DEF Shape
  <1>4. \A d \in Clients \ {c} : tx[d].new => tx[d].row # NoTx.row
    BY <1>1, <1>2
  <1> QED
    BY <1>1, <1>3, <1>4, NoTxType, StepNone

LEMMA RunOne ==
  ASSUME TypeOK, TypeOK', OneInv, NEW c \in Clients, Run(c), ~Commit(c)
  PROVE  OneInv'
  <1>t. /\ tx \in [Clients -> Tx] /\ tx' \in [Clients -> Tx] /\ tx[c] \in Tx
        /\ committed \in [Rows -> IsActive] /\ tx[c].row \in Rows
    BY DEF TypeOK, Tx, Run, Touch, Clear, ClearRow, ClearDone, SetActive, InsertRow, Commit
  <1>s. Shape(tx[c])
    BY DEF OneInv, Shaped
  <1>w. \A row \in Locks(c) : /\ row # tx[c].row => tx[c].wrote[row] = "off"
                              /\ tx[c].wrote[row] = "on" => tx[c].to = "on" \/ committed[row] = "on"
    BY DEF OneInv, Switching
  <1>1. CASE Touch(c)
    <2>1. /\ \A d \in Clients \ {c} : tx'[d] = tx[d]
          /\ tx'[c].row = tx[c].row /\ tx'[c].new = tx[c].new /\ tx'[c].to = tx[c].to
          /\ tx'[c].todo = tx[c].todo
          /\ tx'[c].at = IF tx[c].to = "on" THEN "clear" ELSE IF tx[c].to = "off" THEN "set" ELSE "commit"
          /\ tx'[c].wrote = [tx[c].wrote EXCEPT ![tx[c].row] = committed[tx[c].row]]
      BY <1>t, <1>1 DEF Touch, Tx
    <2>2. \A row \in Locks(c)' : \/ row \in Locks(c)
                                 \/ Exists(row) /\ Free(c, row)
                                 \/ tx[c].new /\ row = tx[c].row
      BY <1>t, <1>1, <2>1 DEF Touch, Locks, Exists, Tx
    <2>3. \A row \in Locks(c)' :
            /\ row # tx[c].row => tx'[c].wrote[row] = "off"
            /\ tx'[c].wrote[row] = "on" => tx[c].to = "on" \/ committed[row] = "on"
      BY <1>t, <1>w, <2>1 DEF Locks, Tx
    <2>4. ~Activating(c)'
      BY <2>1 DEF Activating
    <2>5. tx[c].at = "touch"
      BY <1>1 DEF Touch
    <2>6. tx[c].todo = {} /\ ~tx[c].new
      BY <1>s, <2>5 DEF Shape
    <2>7. Shape(tx'[c])
      BY <2>1, <2>6 DEF Shape
    <2> QED
      BY <1>t, <1>1, <2>1, <2>2, <2>3, <2>4, <2>7, StepOne DEF Touch
  <1>2. CASE Clear(c)
    <2>1. /\ \A d \in Clients \ {c} : tx'[d] = tx[d]
          /\ tx'[c].row = tx[c].row /\ tx'[c].new = tx[c].new /\ tx'[c].to = tx[c].to
          /\ tx'[c].todo = {row \in Rows : Exists(row)}
          /\ tx'[c].at = "clearing" /\ tx'[c].wrote = tx[c].wrote
      BY <1>t, <1>2 DEF Clear, Tx
    <2>2. Locks(c)' = Locks(c)
      BY <2>1 DEF Locks
    <2>3. Shape(tx'[c])
      BY <1>s, <1>2, <2>1 DEF Shape, Clear
    <2>4. \A row \in Locks(c)' :
            /\ row # tx[c].row => tx'[c].wrote[row] = "off"
            /\ tx'[c].wrote[row] = "on" => tx[c].to = "on" \/ committed[row] = "on"
      BY <1>w, <2>1, <2>2
    <2>5. \A row \in Rows : Exists(row) => row \in tx'[c].todo
      BY <2>1
    <2> QED
      BY <1>t, <1>2, <2>1, <2>2, <2>3, <2>4, <2>5, StepOne DEF Clear
  <1>3. ASSUME NEW row \in Rows, ClearRow(c, row)
        PROVE  OneInv'
    <2>1. /\ \A d \in Clients \ {c} : tx'[d] = tx[d]
          /\ tx'[c].row = tx[c].row /\ tx'[c].new = tx[c].new /\ tx'[c].to = tx[c].to
          /\ tx'[c].todo = tx[c].todo \ {row} /\ tx'[c].at = tx[c].at
          /\ tx'[c].wrote = [tx[c].wrote EXCEPT ![row] = IF Exists(row) THEN "off" ELSE @]
      BY <1>t, <1>3 DEF ClearRow, Tx
    <2>2. \A r \in Rows : tx'[c].wrote[r] = IF r = row /\ Exists(row) THEN "off" ELSE tx[c].wrote[r]
      BY <1>t, <2>1 DEF Tx
    <2>3. Locks(c)' = IF Exists(row) THEN Locks(c) \cup {row} ELSE Locks(c)
      BY <2>2 DEF Locks
    <2>4. \A r \in Locks(c)' : \/ r \in Locks(c)
                               \/ Exists(r) /\ Free(c, r)
                               \/ tx[c].new /\ r = tx[c].row
      BY <1>3, <2>3 DEF ClearRow
    <2>5. \A r \in Locks(c)' :
            /\ r # tx[c].row => tx'[c].wrote[r] = "off"
            /\ tx'[c].wrote[r] = "on" => tx[c].to = "on" \/ committed[r] = "on"
      BY <1>w, <2>2, <2>3 DEF Locks
    <2>6. Activating(c)
      BY <1>s, <1>3 DEF Activating, ClearRow, Shape
    <2>7. \A r \in Rows : Exists(r) => r \in tx'[c].todo \/ r \in Locks(c)' \/ r \in unseen
      BY <2>1, <2>3, <2>6 DEF OneInv, Covering
    <2>8. Shape(tx'[c])
      BY <1>s, <1>3, <2>1 DEF Shape, ClearRow
    <2> QED
      BY <1>t, <1>3, <2>1, <2>4, <2>5, <2>7, <2>8, StepOne DEF ClearRow
  <1>4. CASE ClearDone(c)
    <2>1. /\ \A d \in Clients \ {c} : tx'[d] = tx[d]
          /\ tx'[c].row = tx[c].row /\ tx'[c].new = tx[c].new /\ tx'[c].to = tx[c].to
          /\ tx'[c].todo = tx[c].todo /\ tx'[c].wrote = tx[c].wrote
          /\ tx'[c].at = IF tx[c].new THEN "insert" ELSE "set"
      BY <1>t, <1>4 DEF ClearDone, Tx
    <2>2. Locks(c)' = Locks(c)
      BY <2>1 DEF Locks
    <2>3. Activating(c) /\ Shape(tx'[c])
      BY <1>s, <1>4, <2>1 DEF Activating, Shape, ClearDone
    <2>4. \A r \in Rows : Exists(r) => r \in tx'[c].todo \/ r \in Locks(c)' \/ r \in unseen
      BY <2>1, <2>2, <2>3 DEF OneInv, Covering
    <2> QED
      BY <1>t, <1>w, <1>4, <2>1, <2>2, <2>3, <2>4, StepOne DEF ClearDone
  <1>5. CASE SetActive(c) \/ InsertRow(c)
    <2> DEFINE value == IF InsertRow(c) \/ Exists(tx[c].row) THEN tx[c].to ELSE tx[c].wrote[tx[c].row]
    <2>1. /\ \A d \in Clients \ {c} : tx'[d] = tx[d]
          /\ tx'[c].row = tx[c].row /\ tx'[c].new = tx[c].new /\ tx'[c].to = tx[c].to
          /\ tx'[c].todo = tx[c].todo /\ tx'[c].at = "commit"
          /\ tx'[c].wrote = [tx[c].wrote EXCEPT ![tx[c].row] = value]
      <3>1. CASE InsertRow(c)
        BY <1>t, <3>1 DEF InsertRow, Tx
      <3>2. CASE SetActive(c)
        <4>1. ~InsertRow(c)
          BY <3>2 DEF SetActive, InsertRow
        <4> QED
          BY <1>t, <3>2, <4>1 DEF SetActive, Tx
      <3> QED
        BY <1>5, <3>1, <3>2
    <2>2. \A r \in Rows : tx'[c].wrote[r] = IF r = tx[c].row THEN value ELSE tx[c].wrote[r]
      BY <1>t, <2>1 DEF Tx
    <2>3. \A r \in Locks(c)' : \/ r \in Locks(c)
                               \/ Exists(r) /\ Free(c, r)
                               \/ tx[c].new /\ r = tx[c].row
      BY <1>s, <1>5, <2>2 DEF Locks, SetActive, InsertRow, Shape
    <2>4. \A r \in Locks(c)' :
            /\ r # tx[c].row => tx'[c].wrote[r] = "off"
            /\ tx'[c].wrote[r] = "on" => tx[c].to = "on" \/ committed[r] = "on"
      BY <1>w, <2>2 DEF Locks
    <2>5. Activating(c)' => Activating(c)
      BY <1>5, <2>1 DEF Activating, SetActive, InsertRow
    <2>6. Activating(c) => Locks(c) \subseteq Locks(c)'
      <3>1. Activating(c) /\ tx[c].row \in Locks(c) => value # "none"
        BY DEF Activating, Locks
      <3> QED
        BY <2>2, <3>1 DEF Locks
    <2>7. Activating(c)' => \A r \in Rows : Exists(r) => r \in tx'[c].todo \/ r \in Locks(c)' \/ r \in unseen
      BY <2>1, <2>5, <2>6 DEF OneInv, Covering
    <2>8. Shape(tx'[c])
      BY <1>s, <1>5, <2>1 DEF Shape, SetActive, InsertRow
    <2> QED
      BY <1>t, <1>5, <2>1, <2>3, <2>4, <2>7, <2>8, StepOne DEF SetActive, InsertRow
  <1> QED
    BY <1>1, <1>2, <1>3, <1>4, <1>5 DEF Run

LEMMA CommitOne ==
  ASSUME TypeOK, OneInv, NEW c \in Clients, Commit(c)
  PROVE  OneInv'
  <1>t. /\ tx \in [Clients -> Tx] /\ tx[c] \in Tx /\ committed \in [Rows -> IsActive]
        /\ tx[c].at = "commit" /\ tx[c].row \in Rows
    BY DEF TypeOK, Tx, Commit
  <1>1. tx'[c] = NoTx /\ \A d \in Clients \ {c} : tx'[d] = tx[d]
    BY <1>t DEF Commit
  <1>2. \A row \in Rows : committed'[row] = IF row \in Locks(c) THEN tx[c].wrote[row] ELSE committed[row]
    BY DEF Commit
  <1>n. NoTx.row = "none" /\ NoTx.todo = {} /\ ~NoTx.new /\ \A row \in Rows : NoTx.wrote[row] = "none"
    BY DEF NoTx
  <1>3. Locks(c)' = {} /\ ~Activating(c)'
    BY <1>1, <1>n, NoTxType DEF Locks, Activating
  <1>4. \A d \in Clients \ {c} : Locks(d)' = Locks(d) /\ (Activating(d)' <=> Activating(d))
    BY <1>1 DEF Locks, Activating
  <1>5. \A row \in Rows : Exists(row) => Exists(row)'
    BY <1>2 DEF Exists, Locks
  <1>6. \A row \in Rows : Exists(row)' => Exists(row) \/ (tx[c].new /\ row = tx[c].row)
    BY <1>2 DEF Exists, OneInv, Locking
  <1>7. Locking'
    <2>1. \A d, e \in Clients : \A row \in Rows : row \in Locks(d)' /\ row \in Locks(e)' => d = e
      BY <1>3, <1>4 DEF OneInv, Locking
    <2>2. \A d \in Clients : \A row \in Locks(d)' : Exists(row)' \/ (tx'[d].new /\ row = tx'[d].row)
      <3> SUFFICES ASSUME NEW d \in Clients \ {c}, NEW row \in Locks(d)
                   PROVE  Exists(row)' \/ (tx[d].new /\ row = tx[d].row)
        BY <1>1, <1>3, <1>4
      <3>1. row \in Rows
        BY DEF Locks
      <3> QED
        BY <1>5, <3>1 DEF OneInv, Locking
    <2>3. ASSUME NEW d \in Clients, tx'[d].new
          PROVE  /\ committed'[tx'[d].row] = "none"
                 /\ \A e \in Clients \ {d} : tx'[e].row # tx'[d].row
      <3>1. d \in Clients \ {c} /\ tx'[d] = tx[d] /\ tx[d].new
        BY <1>1, <1>n, <2>3
      <3>2. tx[d].row \in Rows
        BY <3>1 DEF TypeOK, NoTx
      <3>3. ~Exists(tx[d].row) /\ \A e \in Clients \ {d} : tx[e].row # tx[d].row
        BY <3>1 DEF OneInv, Locking
      <3>4. committed'[tx[d].row] = "none"
        BY <1>6, <3>1, <3>2, <3>3 DEF Exists
      <3>5. \A e \in Clients \ {d} : tx'[e].row # tx[d].row
        BY <1>1, <1>n, <3>2, <3>3, TemplateAssumption
      <3> QED
        BY <3>1, <3>4, <3>5
    <2> QED
      BY <2>1, <2>2, <2>3 DEF Locking, Exists
  <1>8. Switching'
    <2> SUFFICES ASSUME NEW d \in Clients \ {c}, NEW row \in Locks(d)
                 PROVE  /\ row # tx[d].row => tx[d].wrote[row] = "off"
                        /\ tx[d].wrote[row] = "on" => tx[d].to = "on" \/ committed'[row] = "on"
      BY <1>1, <1>3, <1>4 DEF Switching
    <2>1. row \in Rows /\ row \notin Locks(c)
      BY DEF Locks, OneInv, Locking
    <2> QED
      BY <1>2, <2>1 DEF OneInv, Switching
  <1>9. Covering'
    <2> SUFFICES ASSUME NEW d \in Clients \ {c}, Activating(d), NEW row \in Rows, Exists(row)'
                 PROVE  row \in tx[d].todo \/ row \in Locks(d) \/ row \in unseen'
      BY <1>1, <1>3, <1>4 DEF Covering
    <2>1. unseen' = unseen \cup {r \in {tx[c].row} : tx[c].new}
      BY DEF Commit
    <2>2. CASE Exists(row)
      BY <2>1, <2>2 DEF OneInv, Covering
    <2>3. CASE tx[c].new /\ row = tx[c].row
      BY <2>1, <2>3
    <2> QED
      BY <1>6, <2>2, <2>3
  <1>10. Shaped'
    BY <1>1, <1>n, NoTxType DEF OneInv, Shaped, Shape
  <1>11. AtMostOneActive'
    <2>1. ASSUME NEW row \in Rows, committed'[row] = "on", row \notin unseen'
          PROVE  IF tx[c].to = "on" THEN row = tx[c].row ELSE row \in Active \ unseen
      <3>1. row \notin unseen
        BY <2>1 DEF Commit
      <3>2. CASE row \in Locks(c)
        BY <1>2, <2>1, <3>1, <3>2 DEF OneInv, Switching, Active
      <3>3. CASE row \notin Locks(c)
        <4>1. committed[row] = "on"
          BY <1>2, <2>1, <3>3
        <4>2. CASE tx[c].to = "on"
          <5>1. Activating(c) /\ tx[c].todo = {}
            BY <1>t, <4>2 DEF Activating, OneInv, Shaped, Shape
          <5> QED
            BY <3>1, <3>3, <4>1, <5>1 DEF OneInv, Covering, Exists
        <4> QED
          BY <3>1, <4>1, <4>2 DEF Active
      <3> QED
        BY <3>2, <3>3
    <2> QED
      BY <2>1 DEF OneInv, AtMostOneActive, Active
  <1> QED
    BY <1>7, <1>8, <1>9, <1>10, <1>11 DEF OneInv

LEMMA DeleteOne ==
  ASSUME TypeOK, OneInv, NEW row \in Rows, Delete(row)
  PROVE  OneInv'
  <1>1. /\ committed' = [committed EXCEPT ![row] = "none"] /\ unseen' = unseen \ {row} /\ tx' = tx
        /\ \A c \in Clients : row \notin Locks(c)
        /\ committed \in [Rows -> IsActive]
    BY DEF Delete, TypeOK
  <1>2. \A c \in Clients : Locks(c)' = Locks(c) /\ (Activating(c)' <=> Activating(c))
    BY <1>1 DEF Locks, Activating
  <1>3. \A r \in Rows : committed'[r] = IF r = row THEN "none" ELSE committed[r]
    BY <1>1
  <1>4. \A c \in Clients : \A r \in Locks(c) : r \in Rows /\ committed'[r] = committed[r]
    BY <1>1, <1>3 DEF Locks
  <1>5. Locking'
    <2>1. ASSUME NEW c \in Clients, tx[c].new
          PROVE  committed'[tx[c].row] = "none"
      BY <1>3, <2>1 DEF OneInv, Locking, Exists, TypeOK, NoTx
    <2> QED
      BY <1>1, <1>2, <1>4, <2>1 DEF OneInv, Locking, Exists
  <1>6. Switching'
    BY <1>1, <1>2, <1>4 DEF OneInv, Switching
  <1>7. Covering'
    BY <1>1, <1>2, <1>3 DEF OneInv, Covering, Exists
  <1>8. Shaped'
    BY <1>1 DEF OneInv, Shaped
  <1>9. AtMostOneActive'
    BY <1>1, <1>3 DEF OneInv, AtMostOneActive, Active
  <1> QED
    BY <1>5, <1>6, <1>7, <1>8, <1>9 DEF OneInv

LEMMA NextOne == TypeOK /\ TypeOK' /\ OneInv /\ [Next]_vars => OneInv'
  <1> SUFFICES ASSUME TypeOK, TypeOK', OneInv, [Next]_vars
               PROVE  OneInv'
    OBVIOUS
  <1>1. ASSUME NEW c \in Clients, NEW row \in Rows, Toggle(c, row) \/ Update(c, row) \/ Insert(c, row)
        PROVE  OneInv'
    BY <1>1, BeginOne DEF Toggle, Update, Insert, Statement, IsActive
  <1>2. ASSUME NEW c \in Clients, Run(c)
        PROVE  OneInv'
    BY <1>2, RunOne, CommitOne
  <1>3. ASSUME NEW c \in Clients, Conflict(c) \/ Victim(c)
        PROVE  OneInv'
    BY <1>3, EndOne DEF Conflict, Victim
  <1>4. ASSUME NEW row \in Rows, Delete(row)
        PROVE  OneInv'
    BY <1>4, DeleteOne
  <1>5. CASE UNCHANGED vars
    BY <1>5 DEF vars, OneInv, Locking, Switching, Covering, Shaped, AtMostOneActive, Locks, Activating,
                Exists, Active
  <1> QED
    BY <1>1, <1>2, <1>3, <1>4, <1>5 DEF Next

LEMMA OneHolds == Spec => []OneInv
  <1>1. Init => OneInv
    <2> SUFFICES ASSUME Init
                 PROVE  OneInv
      OBVIOUS
    <2>1. \A c \in Clients : tx[c] = NoTx /\ Locks(c) = {} /\ ~Activating(c)
      BY DEF Init, Locks, NoTx, Activating
    <2>2. Shape(NoTx) /\ ~NoTx.new
      BY DEF Shape, NoTx
    <2>3. Active = {}
      BY DEF Init, Active
    <2> QED
      BY <2>1, <2>2, <2>3 DEF OneInv, Locking, Switching, Covering, Shaped, AtMostOneActive
  <1>2. TypeOK /\ TypeOK' /\ OneInv /\ [Next]_vars => OneInv'
    BY NextOne
  <1> QED
    BY <1>1, <1>2, TypeCorrect, PTL DEF Spec

\* Any number of operators, any overlap of their statements, deadlocks and
\* conflicts included: one template is active, but for those inserted beside
\* an activation.
THEOREM OneActive == Spec => []AtMostOneActive
  <1>1. OneInv => AtMostOneActive
    BY DEF OneInv
  <1> QED
    BY <1>1, OneHolds, PTL

-----------------------------------------------------------------------------
(* No accidental silence *)

\* An activation that has written its own row has switched it on; a
\* transaction that activates nothing has written no other.
Decided(t) ==
    /\ t.at = "commit" /\ t.to = "on" /\ t.wrote[t.row] # "none" => t.wrote[t.row] = "on"
    /\ t.to # "on" => \A row \in Rows \ {t.row} : t.wrote[row] = "none"

\* An edit of the name or the text alone writes the row as it is.
Keeping(t) == t.to = "none" => \A row \in Rows : t.wrote[row] \in {"none", committed[row]}

SilenceInv == \A c \in Clients : Decided(tx[c]) /\ Keeping(tx[c])

\* A transaction that has written nothing.
LEMMA NothingWritten ==
  ASSUME NEW t, t.at # "commit", \A row \in Rows : t.wrote[row] = "none"
  PROVE  Decided(t) /\ Keeping(t)
  BY DEF Decided, Keeping

\* A step of one transaction.
LEMMA StepSilence ==
  ASSUME TypeOK, SilenceInv, NEW c \in Clients, NEW t, tx' = [tx EXCEPT ![c] = t],
         Decided(t), Keeping(t), UNCHANGED committed
  PROVE  SilenceInv'
  <1>1. \A d \in Clients : tx'[d] = IF d = c THEN t ELSE tx[d]
    BY DEF TypeOK
  <1> QED
    BY <1>1 DEF SilenceInv, Decided, Keeping

LEMMA RunSilence ==
  ASSUME TypeOK, OneInv, SilenceInv, NEW c \in Clients, Run(c), ~Commit(c)
  PROVE  SilenceInv'
  <1>t. /\ tx \in [Clients -> Tx] /\ tx[c] \in Tx
        /\ committed \in [Rows -> IsActive] /\ tx[c].row \in Rows
    BY DEF TypeOK, Tx, Run, Touch, Clear, ClearRow, ClearDone, SetActive, InsertRow, Commit
  <1>s. Shape(tx[c]) /\ Decided(tx[c]) /\ Keeping(tx[c])
    BY DEF OneInv, Shaped, SilenceInv
  <1>1. CASE Touch(c)
    <2> DEFINE next == IF tx[c].to = "on" THEN "clear" ELSE IF tx[c].to = "off" THEN "set" ELSE "commit"
               wrote == [tx[c].wrote EXCEPT ![tx[c].row] = committed[tx[c].row]]
               t == [tx[c] EXCEPT !.at = next, !.wrote = wrote]
    <2>1. tx' = [tx EXCEPT ![c] = t]
      BY <1>t, <1>1 DEF Touch, Tx
    <2>2. /\ t.at = next /\ t.to = tx[c].to /\ t.row = tx[c].row
          /\ \A row \in Rows : t.wrote[row] = IF row = tx[c].row THEN committed[row] ELSE tx[c].wrote[row]
      BY <1>t DEF Tx
    <2> HIDE DEF t
    <2>3. Decided(t) /\ Keeping(t)
      BY <1>s, <2>2 DEF Decided, Keeping
    <2> QED
      BY <1>1, <2>1, <2>3, StepSilence DEF Touch
  <1>2. CASE Clear(c) \/ ClearDone(c)
    <2> DEFINE t == [tx[c] EXCEPT !.at = tx'[c].at, !.todo = tx'[c].todo]
    <2>1. tx' = [tx EXCEPT ![c] = t] /\ tx'[c].at # "commit"
      <3>1. CASE Clear(c)
        BY <1>t, <3>1 DEF Clear, Tx
      <3>2. CASE ClearDone(c)
        BY <1>t, <3>2 DEF ClearDone, Tx
      <3> QED
        BY <1>2, <3>1, <3>2
    <2>2. t.at = tx'[c].at /\ t.to = tx[c].to /\ t.row = tx[c].row /\ t.wrote = tx[c].wrote
      BY <1>t DEF Tx
    <2> HIDE DEF t
    <2>3. Decided(t) /\ Keeping(t)
      BY <1>s, <2>1, <2>2 DEF Decided, Keeping
    <2> QED
      BY <1>2, <2>1, <2>3, StepSilence DEF Clear, ClearDone
  <1>3. ASSUME NEW row \in Rows, ClearRow(c, row)
        PROVE  SilenceInv'
    <2> DEFINE wrote == [tx[c].wrote EXCEPT ![row] = IF Exists(row) THEN "off" ELSE @]
               t == [tx[c] EXCEPT !.todo = @ \ {row}, !.wrote = wrote]
    <2>1. tx' = [tx EXCEPT ![c] = t]
      BY <1>t, <1>3 DEF ClearRow, Tx
    <2>2. t.at = "clearing" /\ t.to = "on"
      BY <1>t, <1>s, <1>3 DEF ClearRow, Shape, Tx
    <2> HIDE DEF t
    <2>3. Decided(t) /\ Keeping(t)
      BY <2>2 DEF Decided, Keeping
    <2> QED
      BY <1>3, <2>1, <2>3, StepSilence DEF ClearRow
  <1>4. CASE SetActive(c)
    <2> DEFINE value == IF Exists(tx[c].row) THEN tx[c].to ELSE tx[c].wrote[tx[c].row]
               wrote == [tx[c].wrote EXCEPT ![tx[c].row] = value]
               t == [tx[c] EXCEPT !.at = "commit", !.wrote = wrote]
    <2>1. tx' = [tx EXCEPT ![c] = t]
      BY <1>t, <1>4 DEF SetActive, Tx
    <2>2. /\ t.to = tx[c].to /\ t.row = tx[c].row
          /\ \A row \in Rows : t.wrote[row] = IF row = tx[c].row THEN value ELSE tx[c].wrote[row]
      BY <1>t DEF Tx
    \* A row that it has touched is locked, and so still there.
    <2>3. ~Exists(tx[c].row) => tx[c].wrote[tx[c].row] = "none"
      BY <1>t, <1>s, <1>4 DEF OneInv, Locking, Locks, Shape, SetActive
    <2> HIDE DEF t
    <2>4. Decided(t) /\ Keeping(t)
      BY <1>t, <1>s, <2>2, <2>3 DEF Decided, Keeping
    <2> QED
      BY <1>4, <2>1, <2>4, StepSilence DEF SetActive
  <1>5. CASE InsertRow(c)
    <2> DEFINE wrote == [tx[c].wrote EXCEPT ![tx[c].row] = tx[c].to]
               t == [tx[c] EXCEPT !.at = "commit", !.wrote = wrote]
    <2>1. tx' = [tx EXCEPT ![c] = t]
      BY <1>t, <1>5 DEF InsertRow, Tx
    <2>2. /\ t.to = tx[c].to /\ t.row = tx[c].row
          /\ \A row \in Rows : t.wrote[row] = IF row = tx[c].row THEN tx[c].to ELSE tx[c].wrote[row]
      BY <1>t DEF Tx
    <2> HIDE DEF t
    <2>3. Decided(t) /\ Keeping(t)
      BY <1>t, <1>s, <2>2 DEF Decided, Keeping
    <2> QED
      BY <1>5, <2>1, <2>3, StepSilence DEF InsertRow
  <1> QED
    BY <1>1, <1>2, <1>3, <1>4, <1>5 DEF Run

LEMMA NextSilence == TypeOK /\ OneInv /\ SilenceInv /\ [Next]_vars => SilenceInv'
  <1> SUFFICES ASSUME TypeOK, OneInv, SilenceInv, [Next]_vars
               PROVE  SilenceInv'
    OBVIOUS
  <1>n. Decided(NoTx) /\ Keeping(NoTx)
    <2>1. NoTx.at = "idle" /\ \A row \in Rows : NoTx.wrote[row] = "none"
      BY DEF NoTx
    <2> QED
      BY <2>1, NothingWritten
  <1>1. ASSUME NEW c \in Clients, NEW row \in Rows, Toggle(c, row) \/ Update(c, row) \/ Insert(c, row)
        PROVE  SilenceInv'
    <2>1. PICK to \in IsActive, at \in Statement \ {"commit"} : Begin(c, row, to, at)
      BY <1>1 DEF Toggle, Update, Insert, Statement, IsActive
    <2> DEFINE t == [NoTx EXCEPT !.at = at, !.row = row, !.to = to, !.new = ~Exists(row)]
    <2>2. tx' = [tx EXCEPT ![c] = t]
      BY <2>1 DEF Begin
    <2>3. t.at # "commit" /\ \A r \in Rows : t.wrote[r] = "none"
      BY DEF NoTx
    <2> HIDE DEF t
    <2>4. Decided(t) /\ Keeping(t)
      BY <2>3, NothingWritten
    <2> QED
      BY <2>1, <2>2, <2>4, StepSilence DEF Begin
  <1>2. ASSUME NEW c \in Clients, Run(c), ~Commit(c)
        PROVE  SilenceInv'
    BY <1>2, RunSilence
  <1>3. ASSUME NEW c \in Clients, Conflict(c) \/ Victim(c)
        PROVE  SilenceInv'
    BY <1>n, <1>3, StepSilence DEF Conflict, Victim
  \* What others have written is locked: the row they keep is as it was.
  <1>4. ASSUME NEW c \in Clients, Commit(c)
        PROVE  SilenceInv'
    <2>1. \A d \in Clients : tx'[d] = IF d = c THEN NoTx ELSE tx[d]
      BY <1>4 DEF Commit, TypeOK
    <2>2. \A d \in Clients \ {c} : \A row \in Rows :
             tx[d].wrote[row] # "none" => committed'[row] = committed[row]
      BY <1>4 DEF Commit, OneInv, Locking, Locks
    <2>3. Decided(NoTx)' /\ Keeping(NoTx)'
      BY <1>n, NoTxType DEF Decided, Keeping, NoTx
    <2> QED
      BY <2>1, <2>2, <2>3 DEF SilenceInv, Decided, Keeping
  <1>5. ASSUME NEW row \in Rows, Delete(row)
        PROVE  SilenceInv'
    <2>1. /\ tx' = tx /\ \A c \in Clients : tx[c].wrote[row] = "none"
          /\ \A r \in Rows \ {row} : committed'[r] = committed[r]
      BY <1>5 DEF Delete, Locks, TypeOK
    <2> QED
      BY <2>1 DEF SilenceInv, Decided, Keeping
  <1>6. CASE UNCHANGED vars
    BY <1>6 DEF vars, SilenceInv, Decided, Keeping
  <1> QED
    BY <1>1, <1>2, <1>3, <1>4, <1>5, <1>6 DEF Next

\* What a commit that switches a template off has been asked for.
LEMMA CommitSilence ==
  ASSUME TypeOK, SilenceInv, NEW c \in Clients, Commit(c),
         NEW row \in Active, committed'[row] = "off"
  PROVE  \/ \E other \in Rows : committed'[other] = "on"
         \/ /\ tx[c].at = "commit"
            /\ \/ tx[c].to = "off" /\ tx[c].row = row
               \/ tx[c].to = "on" /\ tx[c].row \notin Locks(c)
  <1>1. /\ tx[c] \in Tx /\ tx[c].at = "commit" /\ tx[c].row \in Rows
        /\ row \in Rows /\ committed[row] = "on"
    BY DEF Commit, TypeOK, Tx, Active
  <1>2. \A r \in Rows : committed'[r] = IF r \in Locks(c) THEN tx[c].wrote[r] ELSE committed[r]
    BY DEF Commit
  <1>3. row \in Locks(c) /\ tx[c].wrote[row] = "off"
    BY <1>1, <1>2
  <1>4. Decided(tx[c]) /\ Keeping(tx[c])
    BY DEF SilenceInv
  <1>5. CASE tx[c].to = "on"
    <2>1. tx[c].row \in Locks(c) => committed'[tx[c].row] = "on"
      BY <1>1, <1>2, <1>4, <1>5 DEF Decided, Locks
    <2> QED
      BY <1>1, <1>5, <2>1
  <1>6. CASE tx[c].to # "on"
    <2>1. row = tx[c].row
      BY <1>1, <1>3, <1>4, <1>6 DEF Decided
    <2>2. tx[c].to # "none"
      BY <1>1, <1>3, <1>4 DEF Keeping
    <2> QED
      BY <1>1, <1>6, <2>1, <2>2 DEF Tx, IsActive
  <1> QED
    BY <1>5, <1>6

\* However many operators overlap, and whatever is deleted, killed or refused
\* meanwhile: the active template goes off only for another that is on, for
\* who asked for it, or for one deleted under its activation.
THEOREM SilenceAsked == Spec => NoAccidentalSilence
  <1>1. Init => SilenceInv
    <2>1. \A row \in Rows : NoTx.wrote[row] = "none"
      BY DEF NoTx
    <2>2. Decided(NoTx) /\ Keeping(NoTx)
      BY <2>1, NoTxType, NothingWritten
    <2> QED
      BY <2>2 DEF Init, SilenceInv
  <1>2. TypeOK /\ OneInv /\ SilenceInv /\ [Next]_vars => SilenceInv'
    BY NextSilence
  <1>3. TypeOK /\ SilenceInv /\ [Next]_vars =>
          [\A row \in Active :
             committed'[row] = "off" =>
                \/ \E other \in Rows : committed'[other] = "on"
                \/ \E c \in Clients : /\ tx[c].at = "commit"
                                      /\ \/ tx[c].to = "off" /\ tx[c].row = row
                                         \/ tx[c].to = "on" /\ tx[c].row \notin Locks(c)]_vars
    <2> SUFFICES ASSUME TypeOK, SilenceInv, [Next]_vars, NEW row \in Active, committed'[row] = "off"
                 PROVE  \/ \E other \in Rows : committed'[other] = "on"
                        \/ \E c \in Clients : /\ tx[c].at = "commit"
                                              /\ \/ tx[c].to = "off" /\ tx[c].row = row
                                                 \/ tx[c].to = "on" /\ tx[c].row \notin Locks(c)
      OBVIOUS
    <2>1. committed'[row] # committed[row]
      BY DEF Active
    <2>2. ~Delete(row) /\ \A other \in Rows : ~Delete(other)
      BY <2>1 DEF Delete, TypeOK, Active
    <2>3. PICK c \in Clients : Commit(c)
      BY <2>1, <2>2
      DEF Next, Run, Toggle, Update, Insert, Begin, Touch, Clear, ClearRow, ClearDone, SetActive,
          InsertRow, Conflict, Victim, vars
    <2> QED
      BY <2>3, CommitSilence
  <1> QED
    BY <1>1, <1>2, <1>3, TypeCorrect, OneHolds, PTL DEF Spec, NoAccidentalSilence

=============================================================================
