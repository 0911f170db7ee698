------------------------------ MODULE MCESLogs ------------------------------
(***************************************************************************)
(* Small instances of ESLogs for TLC.                                       *)
(***************************************************************************)
EXTENDS ESLogs, TLC

CONSTANTS a1, a2, e1, e2, f1, p1, b1, b2

\* Calendar: one service, two events in deliveries of their own.
CalAlias == {a1}
CalEvent == {e1, e2}
CalOwner == [e \in CalEvent |-> a1]
CalContent == (b1 :> {e1}) @@ (b2 :> {e2})

\* Delivery: two services, an event of each and one of a filtered namespace in
\* one delivery, and a delivery that holds a malformed event.
DelEvent == {e1, e2, f1, p1}
DelAlias == {a1, a2}
DelOwner == [e \in DelEvent |-> IF e = e2 THEN a2 ELSE a1]
DelForeign == {f1}
DelMalformed == {p1}
DelContent == (b1 :> {e1, e2, f1}) @@ (b2 :> {p1})
MCBatch == {b1, b2}
=============================================================================
