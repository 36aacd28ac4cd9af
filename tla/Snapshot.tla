------------------------------ MODULE Snapshot ------------------------------
(***************************************************************************)
(* What the reading routes of the server promise: an answer shows the      *)
(* tables as they were at one moment while the request was served, however *)
(* many queries it takes to build.  Requests that store (Store) go on.     *)
(***************************************************************************)
EXTENDS Store

CONSTANTS
  Gets,       \* the GET requests
  Ids,        \* the ids they may ask for
  Junk        \* the id 123: a chart of made-up data, and a dummy of the index

VARIABLES
  ask,     \* ask[g]: [route, id] of request g, None before it comes
  phase,   \* phase[g]: "new", "asked", "looked" (has its view) or "answered"
  view,    \* view[g]: what the tables showed at its moment, None before
  reply    \* reply[g]: its answer, None before

reads == <<ask, phase, view, reply>>

Routes == {"dag", "data", "index"}

(* An answer has a status and a body; the 500s are told apart by cause.    *)
Ok(body) == [status |-> 200, body |-> body]
Error    == [status |-> 500, cause |-> "no row"]
Failure  == [status |-> 500, cause |-> "resources"]

Show(d, q) ==
  CASE q.route = "dag"   -> Ok(IF q.id = Junk THEN Junk ELSE Graph(d, q.id))
    [] q.route = "data"  -> IF q.id \in DOMAIN d["executable"] THEN Ok(d["executable"][q.id])
                                                               ELSE Error
    [] q.route = "index" -> Ok(DOMAIN d["executable"] \cup {Junk})

SnapshotInit ==
  /\ Init
  /\ ask   = [g \in Gets |-> None]
  /\ phase = [g \in Gets |-> "new"]
  /\ view  = [g \in Gets |-> None]
  /\ reply = [g \in Gets |-> None]

Ask(g, q) ==
  /\ phase[g] = "new" /\ ask' = [ask EXCEPT ![g] = q]
  /\ IF q.route = "dag" /\ q.id = Junk
     THEN phase' = [phase EXCEPT ![g] = "answered"] /\ reply' = [reply EXCEPT ![g] = Ok(Junk)]
     ELSE phase' = [phase EXCEPT ![g] = "asked"] /\ UNCHANGED reply
  /\ UNCHANGED <<vars, view>>

Look(g) ==
  /\ phase[g] = "asked" /\ phase' = [phase EXCEPT ![g] = "looked"]
  /\ view' = [view EXCEPT ![g] = Show(db, ask[g])]
  /\ UNCHANGED <<vars, ask, reply>>

(* A request is answered with w; its view is no longer needed.             *)
AnswerWith(g, w) ==
  /\ phase' = [phase EXCEPT ![g] = "answered"]
  /\ view' = [view EXCEPT ![g] = None]
  /\ reply' = [reply EXCEPT ![g] = w]
  /\ UNCHANGED <<vars, ask>>
AnswerNow(g) == phase[g] = "asked" /\ AnswerWith(g, Show(db, ask[g]))

(* The answer is the view.  A chart without a node may be that of an       *)
(* executable nobody knows, an error.                                      *)
Reply(g) ==
  /\ phase[g] = "looked"
  /\ \/ AnswerWith(g, view[g])
     \/ view[g].body.nodes = {} /\ AnswerWith(g, Error)
GiveUp(g) == phase[g] \in {"asked", "looked"} /\ AnswerWith(g, Failure)

SnapshotNext ==
  \/ Next /\ UNCHANGED reads
  \/ \E g \in Gets : Look(g) \/ AnswerNow(g) \/ Reply(g) \/ GiveUp(g)
                     \/ \E q \in [route : Routes, id : Ids] : Ask(g, q)

SnapshotSpec == SnapshotInit /\ [][SnapshotNext]_<<vars, reads>>
=============================================================================
