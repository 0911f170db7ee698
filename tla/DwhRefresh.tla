----------------------------- MODULE DwhRefresh -----------------------------
(***************************************************************************)
(* The state machine RefreshDWH that reloads the data warehouse, and the    *)
(* Lambda functions and stored procedures it runs.                          *)
(*                                                                          *)
(*   Clean       in parallel, one Lambda call for each table: truncate.     *)
(*   RefreshDWH  one Lambda call: begin; call prc_load_dwh(); commit.       *)
(*   RenameAlmis one Lambda call: gives the extract that the load unloaded  *)
(*               to S3 its final name and logs the fact.                    *)
(*                                                                          *)
(* An execution may start while another is under way: the schedule does not *)
(* look, and an operator may start one.  The contents of a reloaded table    *)
(* count how many times the source is in it: 0 is empty, 1 is right, 2 is    *)
(* doubled (a procedure skips an empty source: it has rows here).  Of each   *)
(* table that is only appended to, one row of its source is followed: one   *)
(* currency, and one application in that currency, whose contents may       *)
(* change at any time in the data lake.                                     *)
(* Redshift's part (external): TRUNCATE commits at once and waits for the   *)
(* transactions that wrote the table; a transaction sees what was committed *)
(* at its first statement and its own rows; an error inside a procedure     *)
(* undoes the whole transaction and reaches the caller whatever EXCEPTION   *)
(* blocks it passes; of two loads that overlap, each of which reads tables  *)
(* the other writes, the later to commit fails (serializable isolation).    *)
(***************************************************************************)
EXTENDS Naturals, FiniteSets

CONSTANTS
  Run,          \* executions of the state machine
  Reloaded,     \* tables that Clean truncates and the load fills again
  Joined,       \* dimcustomer, dimproduct: prc_load_factapplication joins them
  AddressLines, \* addresslines_fscs, filled by a procedure with no guard
  DimCurrency, FactApplication, \* never truncated
  Value,        \* contents of a row: a currency's name, an application's state
  MaxChanges,   \* bound: changes of the source
  MaxCalls,     \* bound: calls of prc_addresslines by hand
  MaxCopies,    \* bound: how many times the source is in a table
  MaxFaults     \* bound: failed Lambda calls and procedures

Appended == {DimCurrency, FactApplication}
Table == Reloaded \cup Appended

ASSUME TableAssumption ==
  /\ Reloaded \cap Appended = {} /\ DimCurrency # FactApplication
  /\ AddressLines \in Reloaded /\ Joined \subseteq Reloaded \ {AddressLines}
ASSUME ValueAssumption == Value # {}
ASSUME BoundAssumption ==
  MaxChanges \in Nat /\ MaxCalls \in Nat /\ MaxCopies \in Nat /\ MaxFaults \in Nat

\* Numbers of rows are told apart up to one.
Several == 2
Plus(m, n) == IF m + n < Several THEN m + n ELSE Several

VARIABLES
  source,    \* the data lake's row for each appended table
  changes,   \* changes of the source
  copies,    \* committed: how many times the source is in each reloaded table
  rows,      \* committed: the rows of each appended table
  phase,     \* of each execution
  branches,  \* the truncations each execution has still to make
  txn,       \* the tables each execution's open transaction has loaded
  seen,      \* what its loads of the appended tables found in the source
  adds,      \* and how many rows with it they insert
  opened,    \* executions with an open transaction
  doomed,    \* those that can no longer commit
  extract,   \* the extract in S3: "none", "ssi000", "ssi" or "both"
  calls,     \* calls of prc_addresslines by hand
  faults,    \* faults spent
  company    \* history: executions another, or a call by hand, came between

lake == <<source, changes>>
transactions == <<txn, seen, adds, opened, doomed>>
warehouse == <<copies, rows, transactions>>
vars == <<lake, warehouse, phase, branches, extract, calls, faults, company>>

Fault == faults < MaxFaults /\ faults' = faults + 1

\* An execution, or a Lambda call it left behind, may still write.
Active(x) == phase[x] \in {"clean", "refresh", "rename"} \/ branches[x] # {}
             \/ x \in opened

Init ==
  /\ source \in [Appended -> Value] /\ changes = 0
  /\ copies = [t \in Reloaded |-> 0]
  /\ rows = [t \in Appended |-> [v \in Value |-> 0]]
  /\ phase = [x \in Run |-> "none"]
  /\ branches = [x \in Run |-> {}]
  /\ txn = [x \in Run |-> {}]
  /\ seen = [x \in Run |-> source]
  /\ adds = [x \in Run |-> [t \in Appended |-> 0]]
  /\ opened = {} /\ doomed = {}
  /\ extract = "none"
  /\ calls = 0 /\ faults = 0
  /\ company = {}

-----------------------------------------------------------------------------
(* The data lake                                                            *)

\* A currency is renamed, an application's status or amount changes.
SourceChanges(t) ==
  /\ changes < MaxChanges /\ changes' = changes + 1
  /\ \E v \in Value \ {source[t]} : source' = [source EXCEPT ![t] = v]
  /\ UNCHANGED <<warehouse, phase, branches, extract, calls, faults, company>>

-----------------------------------------------------------------------------
(* Clean                                                                    *)

\* The schedule or an operator starts the state machine.
StartExecution(x) ==
  /\ phase[x] = "none"
  /\ phase' = [phase EXCEPT ![x] = "clean"]
  /\ branches' = [branches EXCEPT ![x] = Reloaded]
  /\ company' = LET others == {y \in Run \ {x} : Active(y)}
                IN  IF others = {} THEN company ELSE company \cup others \cup {x}
  /\ UNCHANGED <<lake, warehouse, extract, calls, faults>>

\* A branch truncates its table.  Branches that run when the state fails are
\* not recalled, so this happens in a failed execution too.
Truncate(x, t) ==
  /\ t \in branches[x] /\ \A y \in opened : t \notin txn[y]
  /\ copies' = [copies EXCEPT ![t] = 0]
  /\ branches' = [branches EXCEPT ![x] = @ \ {t}]
  /\ UNCHANGED <<lake, rows, transactions, phase, extract, calls, faults, company>>

\* A branch fails, and the Parallel state with it.
TruncateFails(x, t) ==
  /\ t \in branches[x] /\ Fault
  /\ branches' = [branches EXCEPT ![x] = @ \ {t}]
  /\ phase' = [phase EXCEPT ![x] = IF @ = "clean" THEN "failed" ELSE @]
  /\ UNCHANGED <<lake, warehouse, extract, calls, company>>

\* Mutated form of CleanDone: the load starts with the first table truncated.
CleanDoneEarly(x) ==
  /\ phase[x] = "clean" /\ branches[x] # Reloaded
  /\ phase' = [phase EXCEPT ![x] = "refresh"]
  /\ opened' = opened \cup {x}
  /\ UNCHANGED <<lake, copies, rows, txn, seen, adds, doomed, branches, extract, calls,
                 faults, company>>

\* All branches are done: the load begins its transaction.
CleanDone(x) ==
  /\ phase[x] = "clean" /\ branches[x] = {}
  /\ phase' = [phase EXCEPT ![x] = "refresh"]
  /\ opened' = opened \cup {x}
  /\ UNCHANGED <<lake, copies, rows, txn, seen, adds, doomed, branches, extract, calls,
                 faults, company>>

-----------------------------------------------------------------------------
(* RefreshDWH: prc_load_dwh and the procedures it calls                     *)

\* The rows of an appended table that x's transaction sees: the committed ones
\* and its own.
Visible(x, t) ==
  [v \in Value |-> IF v = seen[x][t] THEN Plus(rows[t][v], adds[x][t]) ELSE rows[t][v]]

\* Mutated form of MissingCurrencies: the anti-join is dropped.
AllCurrencies(x) == 1

\* prc_load_dimcurrency inserts the source's row if dimcurrency has none with
\* its name; the row of a renamed currency stays beside the new one.
MissingCurrencies(x) ==
  IF rows[DimCurrency][source[DimCurrency]] = 0 THEN 1 ELSE 0

\* How often one application comes out of prc_load_factapplication's joins with
\* the customer, the product (by now with the load's own rows) and the currency.
Matches(x) ==
  IF /\ \A t \in Joined : copies[t] = 0
     /\ \A v, w \in Value :
          LET names == Visible(x, DimCurrency)
          IN  names[v] > 0 /\ names[w] > 0 => v = w /\ names[v] = 1
  THEN 1 ELSE Several

\* Mutated form of MissingApplications: the anti-join is dropped.
AllApplications(x) == Matches(x)

\* The first insert: applications that factapplication has no row of.
MissingApplications(x) ==
  IF \A v \in Value : rows[FactApplication][v] = 0 THEN Matches(x) ELSE 0

\* Mutated form of RevisedApplications: the second insert is dropped.
NoRevisedApplications(x) == 0

\* The second insert: joined with the rows of factapplication that differ from
\* it in status or amount, the application is inserted once more for each of
\* them.  Nothing is deleted, so those rows differ at the next load too.
RevisedApplications(x) ==
  LET outdated == {v \in Value \ {source[FactApplication]} : rows[FactApplication][v] > 0}
  IN  IF outdated = {} THEN 0
      ELSE IF /\ \A v, w \in outdated : v = w /\ rows[FactApplication][v] = 1
              /\ Matches(x) = 1
      THEN 1 ELSE Several

\* What a procedure inserts into an appended table.
Inserts(x, t) ==
  IF t = DimCurrency THEN MissingCurrencies(x)
  ELSE Plus(MissingApplications(x), RevisedApplications(x))

\* A load procedure fills its table, with what the source is by then.  Of the
\* order of prc_load_dwh only what factapplication joins matters.
Load(x, t) ==
  /\ x \in opened /\ t \notin txn[x]
  /\ t = FactApplication => Joined \cup {DimCurrency} \subseteq txn[x]
  /\ txn' = [txn EXCEPT ![x] = @ \cup {t}]
  /\ IF t \in Appended
     THEN /\ seen' = [seen EXCEPT ![x][t] = source[t]]
          /\ adds' = [adds EXCEPT ![x][t] = Inserts(x, t)]
     ELSE UNCHANGED <<seen, adds>>
  /\ UNCHANGED <<lake, copies, rows, opened, doomed, phase, branches, extract, calls,
                 faults, company>>

\* The end of x's transaction.
Ends(x) ==
  /\ opened' = opened \ {x}
  /\ txn' = [txn EXCEPT ![x] = {}]
  /\ adds' = [adds EXCEPT ![x] = [t \in Appended |-> 0]]
  /\ UNCHANGED seen

\* prc_unload_almis is the last call; its file is there whether or not the
\* transaction commits.
Unloaded == IF extract \in {"ssi", "both"} THEN "both" ELSE "ssi000"

\* The load's last call and its COMMIT.  The other loads under way have seen
\* none of its rows, unless they have only begun.
Commit(x) ==
  /\ x \in opened \ doomed /\ txn[x] = Table
  /\ \A t \in Reloaded : copies[t] < MaxCopies
  /\ copies' = [t \in Reloaded |-> copies[t] + 1]
  /\ rows' = [t \in Appended |-> Visible(x, t)]
  /\ Ends(x)
  /\ doomed' = doomed \cup {y \in opened \ {x} : txn[y] # {}}
  /\ extract' = Unloaded
  /\ phase' = [phase EXCEPT ![x] = IF @ = "refresh" THEN "rename" ELSE @]
  /\ UNCHANGED <<lake, branches, calls, faults, company>>

\* Mutated form of LoadFails: the error does not reach the state machine.
LoadFailsSilently(x) ==
  /\ x \in opened /\ Fault
  /\ Ends(x)
  /\ UNCHANGED <<lake, copies, rows, phase, doomed, extract, branches, calls, company>>

\* Mutated form of LoadFails: what was loaded so far stays.
LoadFailsKeeping(x) ==
  /\ x \in opened /\ Fault
  /\ copies' = [t \in Reloaded |-> IF t \in txn[x] /\ copies[t] < MaxCopies
                                   THEN copies[t] + 1 ELSE copies[t]]
  /\ rows' = [t \in Appended |-> Visible(x, t)]
  /\ Ends(x)
  /\ phase' = [phase EXCEPT ![x] = IF @ = "refresh" THEN "failed" ELSE @]
  /\ UNCHANGED <<lake, doomed, extract, branches, calls, company>>

\* A procedure fails, or the commit of a doomed transaction: all is undone, the
\* error passes the EXCEPTION blocks and fails the Lambda call.
LoadFails(x) ==
  /\ x \in opened
  /\ \/ Fault
     \/ x \in doomed /\ txn[x] = Table /\ UNCHANGED faults
  /\ Ends(x)
  /\ phase' = [phase EXCEPT ![x] = IF @ = "refresh" THEN "failed" ELSE @]
  /\ extract' \in {extract} \cup (IF txn[x] = Table THEN {Unloaded} ELSE {})
  /\ UNCHANGED <<lake, copies, rows, doomed, branches, calls, company>>

\* The Lambda call times out; Redshift goes on with the statements it was sent.
LoadTimesOut(x) ==
  /\ phase[x] = "refresh" /\ x \in opened /\ Fault
  /\ phase' = [phase EXCEPT ![x] = "failed"]
  /\ UNCHANGED <<lake, warehouse, branches, extract, calls, company>>

\* An operator calls prc_addresslines, as the procedures' readme describes: it
\* adds the join of the customer tables as they are committed.
CallAddressLines ==
  /\ calls < MaxCalls /\ copies[AddressLines] < MaxCopies
  /\ \A y \in opened : AddressLines \notin txn[y]
  /\ calls' = calls + 1
  /\ \A t \in Reloaded \ {AddressLines} : copies[t] > 0
  /\ copies' = [copies EXCEPT ![AddressLines] = @ + 1]
  /\ company' = company \cup {x \in Run : Active(x)}
  /\ UNCHANGED <<lake, rows, transactions, phase, branches, extract, faults>>

-----------------------------------------------------------------------------
(* RenameAlmis                                                              *)

\* Mutated form of Rename: without a file to rename there is no answer.
RenameWaiting(x) ==
  /\ phase[x] = "rename" /\ extract \in {"ssi000", "both"}
  /\ phase' = [phase EXCEPT ![x] = "succeeded"]
  /\ extract' = "ssi"
  /\ UNCHANGED <<lake, warehouse, faults, branches, calls, company>>

\* Every .ssi000 is copied, deleted and logged.  Whatever fails, the function
\* returns success: a copy or a deletion that fails is to be logged as Failed
\* by an insert with a value too few, whose error the outer except swallows.
\* Only the function's timeout fails the execution.
Rename(x) ==
  /\ phase[x] = "rename"
  /\ \/ /\ extract' = IF extract \in {"ssi000", "both"} THEN "ssi" ELSE extract
        /\ phase' = [phase EXCEPT ![x] = "succeeded"]
        /\ UNCHANGED faults
     \/ /\ Fault
        /\ extract' \in IF extract \in {"ssi000", "both"} THEN {extract, "both"}
                        ELSE {extract}
        /\ phase' \in {[phase EXCEPT ![x] = r] : r \in {"succeeded", "failed"}}
  /\ UNCHANGED <<lake, warehouse, branches, calls, company>>

-----------------------------------------------------------------------------

Executing(x) ==
  \/ \E t \in Table : Truncate(x, t) \/ Load(x, t)
  \/ CleanDone(x) \/ Commit(x) \/ LoadFails(x) \/ Rename(x)

Next ==
  \/ \E x \in Run :
       \/ StartExecution(x)
       \/ Executing(x)
       \/ \E t \in Table : TruncateFails(x, t)
       \/ LoadTimesOut(x)
  \/ CallAddressLines
  \/ \E t \in Appended : SourceChanges(t)

Spec == Init /\ [][Next]_vars

\* Step Functions, Lambda and Redshift carry on with what they started.
FairSpec == Spec /\ \A x \in Run : WF_vars(Executing(x))

-----------------------------------------------------------------------------
(* Properties                                                               *)

\* The state has its type, an execution in RefreshDWH has its transaction open
\* and a transaction that has written something is open.
TypeOK ==
  /\ source \in [Appended -> Value] /\ changes \in 0 .. MaxChanges
  /\ copies \in [Reloaded -> 0 .. MaxCopies]
  /\ rows \in [Appended -> [Value -> 0 .. Several]]
  /\ phase \in [Run -> {"none", "clean", "refresh", "rename", "failed", "succeeded"}]
  /\ branches \in [Run -> SUBSET Reloaded]
  /\ txn \in [Run -> SUBSET Table]
  /\ seen \in [Run -> [Appended -> Value]]
  /\ adds \in [Run -> [Appended -> 0 .. Several]]
  /\ opened \in SUBSET Run /\ doomed \in SUBSET Run
  /\ extract \in {"none", "ssi000", "ssi", "both"}
  /\ calls \in 0 .. MaxCalls /\ faults \in 0 .. MaxFaults
  /\ company \in SUBSET Run
  /\ \A x \in Run : phase[x] = "refresh" \/ txn[x] # {} => x \in opened

\* The transaction of x commits.
Commits(x) == x \in opened \ opened' /\ copies' # copies

\* An execution that had the warehouse to itself leaves every reloaded table
\* with the source once: the truncations of Clean and the procedures, which no
\* longer truncate, cover the same tables.
LoadedOnce ==
  [][\A x \in Run \ company :
       Commits(x) =>
         \A t \in Reloaded : copies'[t] = 1]_vars

\* The load is all or nothing: whatever procedure fails, in whatever execution,
\* no reloaded table gets rows that the others do not get in the same step.
AllOrNothing ==
  [][calls' = calls =>
       \A t, u \in Reloaded :
         copies'[t] > copies[t] => copies'[u] = copies[u] + 1]_vars

\* dimcurrency has no name twice, though prc_load_dimcurrency looks for it long
\* before the load commits, and executions overlap, time out and commit later.
CurrencyOnce == \A v \in Value : rows[DimCurrency][v] <= 1

\* While executions do not overlap and the source stands, factapplication has an
\* application once: the tables it joins are empty when the load reads them.
ApplicationOnce ==
  company = {} /\ changes = 0 => \A v \in Value : rows[FactApplication][v] <= 1

\* A load that commits leaves the currency and the application as it found them
\* in the source, in tables that had other contents or none when it began.
LoadIsCurrent ==
  [][\A x \in Run : Commits(x) =>
       \A t \in Appended : rows'[t][seen[x][t]] > 0]_vars

\* An execution that starts ends, and leaves no transaction open.
ExecutionsEnd ==
  \A x \in Run : phase[x] = "clean" ~>
    phase[x] \in {"failed", "succeeded"} /\ x \notin opened

=============================================================================
