------------------------------ MODULE LogStore ------------------------------
(***************************************************************************)
(* What the log pipeline promises its users when nothing fails: a delivery  *)
(* is acknowledged only once its events are in the store, and an event      *)
(* leaves the store only after KeepDays days and once a snapshot holds it.  *)
(* Indices, aliases and the four functions are not visible here.            *)
(***************************************************************************)
EXTENDS Naturals

CONSTANTS Event, Batch, Content, KeepDays

VARIABLES
  day,      \* the calendar
  status,   \* "absent", "stored" or "expired", for each event
  at,       \* the day each event was first stored
  saved,    \* the events some snapshot holds
  acked     \* the deliveries acknowledged

storeVars == <<day, status, at, saved, acked>>

StoreInit ==
  /\ day = 0
  /\ status = [e \in Event |-> "absent"]
  /\ at = [e \in Event |-> 0]
  /\ saved = {} /\ acked = {}

\* Events are stored and deliveries acknowledged, never ahead of their events.
Store(events, batches) ==
  /\ status' = [e \in Event |-> IF e \in events THEN "stored" ELSE status[e]]
  /\ at' = [e \in Event |-> IF e \in events /\ status[e] = "absent"
                            THEN day ELSE at[e]]
  /\ acked' = acked \cup batches
  /\ \A b \in batches : \A e \in Content[b] : status'[e] # "absent"
  /\ UNCHANGED <<day, saved>>

Expire(events) ==
  /\ \A e \in events :
       status[e] = "stored" /\ e \in saved /\ day - at[e] >= KeepDays
  /\ status' = [e \in Event |-> IF e \in events THEN "expired" ELSE status[e]]
  /\ UNCHANGED <<day, at, saved, acked>>

Save ==
  /\ saved' = saved \cup {e \in Event : status[e] = "stored"}
  /\ UNCHANGED <<day, status, at, acked>>

Tomorrow == day' = day + 1 /\ UNCHANGED <<status, at, saved, acked>>

StoreNext ==
  \/ \E events \in SUBSET Event, batches \in SUBSET Batch : Store(events, batches)
  \/ \E events \in SUBSET Event : Expire(events)
  \/ Save
  \/ Tomorrow

StoreSpec == StoreInit /\ [][StoreNext]_storeVars
=============================================================================
