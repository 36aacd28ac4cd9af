-------------------------------- MODULE Page --------------------------------
(***************************************************************************)
(* The script of the web page (index.tera): it loads the chart of id 123   *)
(* when it starts, and at every click on the button asks for the chart and *)
(* for the data of the selected profile, in two requests that are answered *)
(* in any order.  A chart or a table is named by the id it belongs to.     *)
(*                                                                         *)
(* The server answers as in ReadRoutes: every listed profile has a chart   *)
(* and data, but for the dummy entry 123, which has a chart only.          *)
(***************************************************************************)
EXTENDS Naturals

CONSTANTS
  Listed,     \* the entries of the selector, the dummy included or not
  Junk,       \* 123
  None,       \* nothing shown yet
  MaxClicks   \* bound: clicks

VARIABLES
  selector,  \* dataSelector.value
  clicks,    \* the number of clicks
  pending,   \* requests without an answer: <<kind, id, click>>
  chart,     \* whose flame graph #chart shows
  table,     \* whose row #binaryinfo shows
  failed     \* history: a request of the last click has failed

vars == <<selector, clicks, pending, chart, table, failed>>

Init ==
  /\ selector \in Listed /\ clicks = 0
  /\ pending = {<<"dag", Junk, 0>>}
  /\ chart = None /\ table = None /\ failed = FALSE

Select(id) ==
  /\ id # selector /\ selector' = id
  /\ UNCHANGED <<clicks, pending, chart, table, failed>>

(* $("#dataBtn").click: term is read once, both requests go out.           *)
Click ==
  /\ clicks < MaxClicks
  /\ clicks' = clicks + 1
  /\ pending' = pending \cup {<<"dag", selector, clicks'>>, <<"data", selector, clicks'>>}
  /\ failed' = FALSE
  /\ UNCHANGED <<selector, chart, table>>

Take(kind, r) == r \in pending /\ r[1] = kind /\ pending' = pending \ {r}

(* d3.json(..).then: the chart is redrawn, whatever was asked for since.   *)
DagArrives(r) ==
  /\ Take("dag", r) /\ chart' = r[2]
  /\ UNCHANGED <<selector, clicks, table, failed>>

(* axios.get(..).then: the table is replaced.  There is no data of 123.    *)
DataArrives(r) ==
  /\ Take("data", r) /\ r[2] # Junk /\ table' = r[2]
  /\ UNCHANGED <<selector, clicks, chart, failed>>

(* No connection, or an error of the server: a failed chart is logged,     *)
(* failed data is not even caught, and what is shown stays.                *)
RequestFails(r) ==
  /\ r \in pending
  /\ pending' = pending \ {r}
  /\ failed' = (failed \/ r[3] = clicks)
  /\ UNCHANGED <<selector, clicks, chart, table>>

Arrives(r) == DagArrives(r) \/ DataArrives(r) \/ RequestFails(r)
Next ==
  \/ Click \/ \E id \in Listed : Select(id)
  \/ \E r \in pending : Arrives(r)

Spec == Init /\ [][Next]_vars

-----------------------------------------------------------------------------
Settled == pending = {}

(* Once all answers are there, and both of the last click were good, chart *)
(* and table belong to one profile.  README: "The UI (...) shows these     *)
(* stored profiles, along with the capacity savings".                      *)
SameProfile == Settled /\ clicks > 0 /\ ~failed => chart = table
=============================================================================
