-------------------------------- MODULE Store --------------------------------
(***************************************************************************)
(* What the server promises about POST /data/samples: a request becomes    *)
(* visible in three atomic steps, one per table and in a fixed order, and  *)
(* it may be cut short between any two of them.  Nothing else changes the  *)
(* tables: no route updates or deletes a row otherwise.                    *)
(***************************************************************************)
EXTENDS Tables

VARIABLES
  db,      \* the committed contents of the three tables
  stage,   \* stage[r]: the next table of request r, or its outcome
  stored   \* stored[r]: the <<table, id>> pairs of r that are in db

vars == <<db, stage, stored>>

Init ==
  /\ db     = [t \in TableNames |-> EmptyTable]
  /\ stage  = [r \in Requests |-> "new"]
  /\ stored = [r \in Requests |-> {}]

Receive(r) ==
  /\ stage[r] = "new"
  /\ stage' = [stage EXCEPT ![r] = "stack_node_data"]
  /\ UNCHANGED <<db, stored>>

(* One transaction takes effect; the handler may not learn of it.          *)
Transact(r) ==
  \E t \in TableNames : \E K \in Statements(r, t) :
    /\ stage[r] = t
    /\ db' = [db EXCEPT ![t] = Upsert(t, @, Restrict(Payload[r][t], K))]
    /\ ForeignKeysHold(db')
    /\ stored' = [stored EXCEPT ![r] = @ \cup ({t} \X K)]
    /\ \E s \in {NextStage(t), "failed"} : stage' = [stage EXCEPT ![r] = s]

(* Requests end with an error: one of them, or all at once in a crash.     *)
Fail(F) ==
  /\ F # {} /\ \A r \in F : stage[r] \in TableNames
  /\ stage' = [r \in Requests |-> IF r \in F THEN "failed" ELSE stage[r]]
  /\ UNCHANGED <<db, stored>>

Next ==
  \/ \E r \in Requests : Receive(r) \/ Transact(r)
  \/ \E F \in SUBSET Requests : Fail(F)

Spec == Init /\ [][Next]_vars
=============================================================================
