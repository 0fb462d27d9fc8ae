------------------------------ MODULE BatchRun ------------------------------
(***************************************************************************)
(* What run_pipeline promises the code that calls it (do_download): every  *)
(* item of dl_list is resolved at most once, either published or reported  *)
(* as failed; the call returns only when every item is resolved, and then  *)
(* returns exactly the failed ones.  If it raises instead, whatever was    *)
(* not resolved stays unresolved, and the caller keeps its pending queue.  *)
(* Only a run cancelled again in its abort handler can leave workers that  *)
(* resolve items after it (each still at most once).                       *)
(***************************************************************************)
EXTENDS Naturals

CONSTANT Items

VARIABLES published,   \* items whose outputs reached every storage
          failures,    \* items in failed_tasks
          result       \* "running", then "returned", "raised" or "abandoned"

bvars == <<published, failures, result>>

Init == published = {} /\ failures = {} /\ result = "running"

Publish(i) ==
  /\ result \in {"running", "abandoned"}
  /\ i \notin published \cup failures
  /\ published' = published \cup {i}
  /\ UNCHANGED <<failures, result>>

Fail(i) ==
  /\ result \in {"running", "abandoned"}
  /\ i \notin published \cup failures
  /\ failures' = failures \cup {i}
  /\ UNCHANGED <<published, result>>

Return ==
  /\ result = "running"
  /\ published \cup failures = Items
  /\ result' = "returned"
  /\ UNCHANGED <<published, failures>>

Raise ==
  /\ result = "running"
  /\ result' = "raised"
  /\ UNCHANGED <<published, failures>>

Abandon ==
  /\ result = "running"
  /\ result' = "abandoned"
  /\ UNCHANGED <<published, failures>>

Next == (\E i \in Items : Publish(i) \/ Fail(i)) \/ Return \/ Raise \/ Abandon

Spec == Init /\ [][Next]_bvars
=============================================================================
