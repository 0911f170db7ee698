-------------------------- MODULE DwhRefreshProofs --------------------------
(***************************************************************************)
(* Proofs about DwhRefresh, for any number of executions, tables, calls by  *)
(* hand and faults.                                                         *)
(*                                                                          *)
(* CurrencyOnce and LoadIsCurrent rest on StillMissing and StillCurrent:    *)
(* what a transaction that may yet commit has found in the appended tables  *)
(* is still so.  LoadedOnce rests on Solitude: an execution that has met no *)
(* other is the only active one.  What it has truncated is then still empty *)
(* when its transaction, the only one open, commits.                        *)
(***************************************************************************)
EXTENDS DwhRefresh, TLAPS

\* The disjuncts of Next, as the proofs split it.
LEMMA Steps ==
  ASSUME Next
  PROVE  \/ \E x \in Run : StartExecution(x)
         \/ \E x \in Run, t \in Table : Truncate(x, t)
         \/ \E x \in Run, t \in Table : Load(x, t)
         \/ \E x \in Run, t \in Table : TruncateFails(x, t)
         \/ \E x \in Run : CleanDone(x)
         \/ \E x \in Run : Commit(x)
         \/ \E x \in Run : LoadFails(x)
         \/ \E x \in Run : LoadTimesOut(x)
         \/ \E x \in Run : Rename(x)
         \/ CallAddressLines
         \/ \E t \in Appended : SourceChanges(t)
BY DEF Next, Executing

-----------------------------------------------------------------------------
(* Types                                                                    *)

\* The initial state has the type.
LEMMA TypeInit == Init => TypeOK
<1>1. 0 \in 0 .. MaxFaults /\ 0 \in 0 .. MaxCalls /\ 0 \in 0 .. MaxCopies
      /\ 0 \in 0 .. MaxChanges /\ 0 \in 0 .. Several
  BY BoundAssumption DEF Several
<1>2. QED BY <1>1 DEF Init, TypeOK

\* Counts of rows stay within Several.
LEMMA PlusType ==
  ASSUME NEW m \in 0 .. Several, NEW n \in 0 .. Several
  PROVE  Plus(m, n) \in 0 .. Several /\ (Plus(m, n) = 0 <=> m = 0 /\ n = 0)
         /\ (Plus(m, n) <= 1 <=> m + n <= 1) /\ (m > 0 => Plus(m, n) > 0)
         /\ (n > 0 => Plus(m, n) > 0) /\ (n = 0 => Plus(m, n) = m)
BY DEF Plus, Several

\* What a transaction sees of an appended table are counts of rows.
LEMMA VisibleType ==
  ASSUME TypeOK, NEW x \in Run, NEW t \in Appended
  PROVE  Visible(x, t) \in [Value -> 0 .. Several]
<1>1. \A v \in Value : rows[t][v] \in 0 .. Several
  BY DEF TypeOK
<1>2. adds[x][t] \in 0 .. Several
  BY DEF TypeOK
<1>3. QED BY <1>1, <1>2, PlusType DEF Visible

\* What a procedure inserts is a count of rows.
LEMMA InsertsType ==
  ASSUME NEW x, NEW t PROVE Inserts(x, t) \in 0 .. Several
<1>1. Matches(x) \in 0 .. Several
  BY DEF Matches, Several
<1>2. MissingApplications(x) \in 0 .. Several
  BY <1>1 DEF MissingApplications, Several
<1>3. RevisedApplications(x) \in 0 .. Several
  BY DEF RevisedApplications, Several
<1>4. MissingCurrencies(x) \in 0 .. Several
  BY DEF MissingCurrencies, Several
<1>5. QED BY <1>2, <1>3, <1>4, PlusType DEF Inserts

\* Every step keeps the type.
LEMMA TypeStep == TypeOK /\ [Next]_vars => TypeOK'
<1> SUFFICES ASSUME TypeOK, [Next]_vars PROVE TypeOK'
  OBVIOUS
<1> USE DEF TypeOK, lake, warehouse, transactions
<1>f. ASSUME Fault PROVE faults' \in 0 .. MaxFaults
  BY <1>f, BoundAssumption DEF Fault
<1>e. ASSUME NEW x \in Run, Ends(x)
      PROVE  /\ adds' \in [Run -> [Appended -> 0 .. Several]]
             /\ txn' \in [Run -> SUBSET Table] /\ opened' \in SUBSET Run
             /\ seen' \in [Run -> [Appended -> Value]]
             /\ \A y \in Run : txn'[y] # {} => y \in opened'
  <2>1. [t \in Appended |-> 0] \in [Appended -> 0 .. Several]
    BY DEF Several
  <2>2. QED BY <1>e, <2>1 DEF Ends
<1>1. ASSUME NEW x \in Run, StartExecution(x) PROVE TypeOK'
  BY <1>1 DEF StartExecution
<1>2. ASSUME NEW x \in Run, NEW t \in Table, Truncate(x, t) PROVE TypeOK'
  BY <1>2, BoundAssumption DEF Truncate
<1>3. ASSUME NEW x \in Run, NEW t \in Table, Load(x, t) PROVE TypeOK'
  <2>1. CASE t \in Appended
    <3>1. seen' = [seen EXCEPT ![x][t] = source[t]]
          /\ adds' = [adds EXCEPT ![x][t] = Inserts(x, t)]
      BY <1>3, <2>1 DEF Load
    <3>2. source[t] \in Value /\ Inserts(x, t) \in 0 .. Several
      BY <2>1, InsertsType
    <3>3. seen' \in [Run -> [Appended -> Value]]
          /\ adds' \in [Run -> [Appended -> 0 .. Several]]
      BY <2>1, <3>1, <3>2
    <3>4. QED BY <1>3, <3>3 DEF Load
  <2>2. CASE t \notin Appended
    BY <1>3, <2>2 DEF Load
  <2>3. QED BY <2>1, <2>2
<1>4. ASSUME NEW x \in Run, NEW t \in Table, TruncateFails(x, t) PROVE TypeOK'
  BY <1>4, <1>f DEF TruncateFails
<1>5. ASSUME NEW x \in Run, CleanDone(x) PROVE TypeOK'
  BY <1>5 DEF CleanDone
<1>6. ASSUME NEW x \in Run, Commit(x) PROVE TypeOK'
  <2>1. copies' \in [Reloaded -> 0 .. MaxCopies]
    BY <1>6, BoundAssumption DEF Commit
  <2>2. rows' \in [Appended -> [Value -> 0 .. Several]]
    BY <1>6, VisibleType DEF Commit
  <2>3. Ends(x)
    BY <1>6 DEF Commit
  <2>4. phase' = [phase EXCEPT ![x] = IF @ = "refresh" THEN "rename" ELSE @]
        /\ opened' = opened \ {x}
    BY <1>6 DEF Commit, Ends
  <2>5. \A y \in Run : phase'[y] = "refresh" => y \in opened'
    BY <2>4
  <2>6. extract' \in {"none", "ssi000", "ssi", "both"}
    BY <1>6 DEF Commit, Unloaded
  <2>7. UNCHANGED <<source, changes, branches, calls, faults, company>>
        /\ doomed' = doomed \cup {y \in opened \ {x} : txn[y] # {}}
    BY <1>6 DEF Commit
  <2>8. QED BY <1>e, <2>1, <2>2, <2>3, <2>4, <2>5, <2>6, <2>7
<1>7. ASSUME NEW x \in Run, LoadFails(x) PROVE TypeOK'
  <2>1. faults' \in 0 .. MaxFaults
    BY <1>7, <1>f DEF LoadFails
  <2>2. extract' \in {"none", "ssi000", "ssi", "both"}
    BY <1>7 DEF LoadFails, Unloaded
  <2>3. Ends(x)
    BY <1>7 DEF LoadFails
  <2>4. phase' = [phase EXCEPT ![x] = IF @ = "refresh" THEN "failed" ELSE @]
        /\ opened' = opened \ {x}
    BY <1>7 DEF LoadFails, Ends
  <2>5. \A y \in Run : phase'[y] = "refresh" => y \in opened'
    BY <2>4
  <2>6. UNCHANGED <<source, changes, copies, rows, doomed, branches, calls, company>>
    BY <1>7 DEF LoadFails
  <2>7. QED BY <1>e, <2>1, <2>2, <2>3, <2>4, <2>5, <2>6
<1>8. ASSUME NEW x \in Run, LoadTimesOut(x) PROVE TypeOK'
  BY <1>8, <1>f DEF LoadTimesOut
<1>9. ASSUME NEW x \in Run, Rename(x) PROVE TypeOK'
  <2>1. faults' \in 0 .. MaxFaults
    BY <1>9, <1>f DEF Rename
  <2>2. extract' \in {"none", "ssi000", "ssi", "both"}
    BY <1>9 DEF Rename
  <2>3. phase' = [phase EXCEPT ![x] = "succeeded"]
        \/ phase' = [phase EXCEPT ![x] = "failed"]
    BY <1>9 DEF Rename
  <2>4. QED BY <1>9, <2>1, <2>2, <2>3 DEF Rename
<1>10. ASSUME CallAddressLines PROVE TypeOK'
  <2>1. calls' \in 0 .. MaxCalls
    BY <1>10, BoundAssumption DEF CallAddressLines
  <2>2. copies' \in [Reloaded -> 0 .. MaxCopies]
    <3>1. copies[AddressLines] + 1 \in 0 .. MaxCopies
      BY <1>10, BoundAssumption, TableAssumption DEF CallAddressLines
    <3>2. QED BY <1>10, <3>1 DEF CallAddressLines
  <2>3. company' \in SUBSET Run
    BY <1>10 DEF CallAddressLines
  <2>4. QED BY <1>10, <2>1, <2>2, <2>3 DEF CallAddressLines
<1>11. ASSUME NEW t \in Appended, SourceChanges(t) PROVE TypeOK'
  <2>1. changes' \in 0 .. MaxChanges
    BY <1>11, BoundAssumption DEF SourceChanges
  <2>2. source' \in [Appended -> Value]
    BY <1>11 DEF SourceChanges
  <2>3. QED BY <1>11, <2>1, <2>2 DEF SourceChanges
<1>12. CASE UNCHANGED vars
  BY <1>12 DEF vars
<1>13. QED
  BY <1>1, <1>2, <1>3, <1>4, <1>5, <1>6, <1>7, <1>8, <1>9, <1>10, <1>11, <1>12, Steps

\* Every state of the refresh has its type: an execution in RefreshDWH has its
\* transaction, and no transaction writes without being open.
THEOREM RefreshTypeCorrect == Spec => []TypeOK
BY TypeInit, TypeStep, PTL DEF Spec

-----------------------------------------------------------------------------
(* Solitude                                                                 *)

\* What is not started holds nothing; an open transaction has no truncation
\* left to make and is past Clean.
Phases ==
  \A x \in Run :
    /\ phase[x] = "none" => branches[x] = {} /\ x \notin opened
    /\ x \in opened => branches[x] = {} /\ phase[x] \in {"refresh", "failed"}

\* An execution that has met no other is alone.
Alone ==
  \A x \in Run \ company : Active(x) => \A y \in Run \ {x} : ~Active(y)

\* What it has truncated is empty, until its transaction commits.
StillEmpty ==
  \A x \in Run \ company :
    phase[x] = "clean" \/ x \in opened =>
      \A t \in Reloaded \ branches[x] : copies[t] = 0

Solitude == TypeOK /\ Phases /\ Alone /\ StillEmpty

\* No execution is active at first.
LEMMA SolitudeInit == Init => Solitude
BY TypeInit DEF Init, Solitude, Phases, Alone, StillEmpty, Active

\* Active executions are those that were, and the one that starts.
LEMMA ActiveStep ==
  ASSUME TypeOK, Phases, [Next]_vars
  PROVE  \/ \E x \in Run : StartExecution(x)
         \/ \A y \in Run : Active(y)' => Active(y)
<1> USE DEF TypeOK, Active, warehouse, lake, transactions
<1>2. ASSUME NEW x \in Run, NEW t \in Table, Truncate(x, t)
      PROVE \A y \in Run : Active(y)' => Active(y)
  BY <1>2 DEF Truncate
<1>3. ASSUME NEW x \in Run, NEW t \in Table, Load(x, t)
      PROVE \A y \in Run : Active(y)' => Active(y)
  BY <1>3 DEF Load
<1>4. ASSUME NEW x \in Run, NEW t \in Table, TruncateFails(x, t)
      PROVE \A y \in Run : Active(y)' => Active(y)
  BY <1>4 DEF TruncateFails
<1>5. ASSUME NEW x \in Run, CleanDone(x)
      PROVE \A y \in Run : Active(y)' => Active(y)
  BY <1>5 DEF CleanDone
<1>6. ASSUME NEW x \in Run, Commit(x)
      PROVE \A y \in Run : Active(y)' => Active(y)
  BY <1>6 DEF Commit, Ends
<1>7. ASSUME NEW x \in Run, LoadFails(x)
      PROVE \A y \in Run : Active(y)' => Active(y)
  BY <1>7 DEF LoadFails, Ends
<1>8. ASSUME NEW x \in Run, LoadTimesOut(x)
      PROVE \A y \in Run : Active(y)' => Active(y)
  BY <1>8 DEF LoadTimesOut
<1>9. ASSUME NEW x \in Run, Rename(x)
      PROVE \A y \in Run : Active(y)' => Active(y)
  <2>1. phase' = [phase EXCEPT ![x] = "succeeded"]
        \/ phase' = [phase EXCEPT ![x] = "failed"]
    BY <1>9 DEF Rename
  <2>2. QED BY <1>9, <2>1 DEF Rename
<1>10. ASSUME CallAddressLines PROVE \A y \in Run : Active(y)' => Active(y)
  BY <1>10 DEF CallAddressLines
<1>11. ASSUME NEW u \in Appended, SourceChanges(u)
      PROVE  \A y \in Run : Active(y)' => Active(y)
  BY <1>11 DEF SourceChanges
<1>12. CASE UNCHANGED vars
  BY <1>12 DEF vars
<1>13. QED
  BY <1>2, <1>3, <1>4, <1>5, <1>6, <1>7, <1>8, <1>9, <1>10, <1>11, <1>12, Steps

\* company only grows.
LEMMA CompanyGrows == ASSUME [Next]_vars PROVE company \subseteq company'
BY Steps DEF vars, StartExecution, Truncate, Load, TruncateFails, CleanDone, Commit,
             LoadFails, LoadTimesOut, Rename, CallAddressLines, SourceChanges

\* Every step keeps the phases in line with branches and transactions.
LEMMA PhasesStep == TypeOK /\ Phases /\ [Next]_vars => Phases'
<1> SUFFICES ASSUME TypeOK, Phases, [Next]_vars PROVE Phases'
  OBVIOUS
<1> USE DEF TypeOK, Phases, warehouse, lake, transactions
<1>1. ASSUME NEW x \in Run, StartExecution(x) PROVE Phases'
  BY <1>1 DEF StartExecution
<1>2. ASSUME NEW x \in Run, NEW t \in Table, Truncate(x, t) PROVE Phases'
  BY <1>2 DEF Truncate
<1>3. ASSUME NEW x \in Run, NEW t \in Table, Load(x, t) PROVE Phases'
  BY <1>3 DEF Load
<1>4. ASSUME NEW x \in Run, NEW t \in Table, TruncateFails(x, t) PROVE Phases'
  BY <1>4 DEF TruncateFails
<1>5. ASSUME NEW x \in Run, CleanDone(x) PROVE Phases'
  BY <1>5 DEF CleanDone
<1>6. ASSUME NEW x \in Run, Commit(x) PROVE Phases'
  BY <1>6 DEF Commit, Ends
<1>7. ASSUME NEW x \in Run, LoadFails(x) PROVE Phases'
  BY <1>7 DEF LoadFails, Ends
<1>8. ASSUME NEW x \in Run, LoadTimesOut(x) PROVE Phases'
  BY <1>8 DEF LoadTimesOut
<1>9. ASSUME NEW x \in Run, Rename(x) PROVE Phases'
  <2>1. phase' = [phase EXCEPT ![x] = "succeeded"]
        \/ phase' = [phase EXCEPT ![x] = "failed"]
    BY <1>9 DEF Rename
  <2>2. phase[x] = "rename" /\ UNCHANGED <<opened, branches>>
    BY <1>9 DEF Rename
  <2>3. QED BY <2>1, <2>2
<1>10. ASSUME CallAddressLines PROVE Phases'
  BY <1>10 DEF CallAddressLines
<1>11. ASSUME NEW u \in Appended, SourceChanges(u)
      PROVE  Phases'
  BY <1>11 DEF SourceChanges
<1>12. CASE UNCHANGED vars
  BY <1>12 DEF vars
<1>13. QED
  BY <1>1, <1>2, <1>3, <1>4, <1>5, <1>6, <1>7, <1>8, <1>9, <1>10, <1>11, <1>12, Steps

\* Every step leaves an execution that met no other the only active one.
LEMMA AloneStep == Solitude /\ [Next]_vars => Alone'
<1> SUFFICES ASSUME Solitude, [Next]_vars PROVE Alone'
  OBVIOUS
<1> USE DEF Solitude, TypeOK
<1>1. ASSUME NEW z \in Run, StartExecution(z) PROVE Alone'
  <2>1. ~Active(z)
    BY <1>1 DEF StartExecution, Active, Phases
  <2>2. \A y \in Run \ {z} : Active(y)' <=> Active(y)
    BY <1>1 DEF StartExecution, Active, warehouse, lake, transactions
  <2>3. \A y \in Run \ {z} : Active(y) => y \in company' /\ z \in company'
    BY <1>1 DEF StartExecution
  <2>4. QED BY <2>1, <2>2, <2>3 DEF Alone
<1>2. CASE \A y \in Run : Active(y)' => Active(y)
  BY <1>2, CompanyGrows DEF Alone
<1>3. QED BY <1>1, <1>2, ActiveStep

\* What such an execution has truncated stays empty until it commits.
LEMMA StillEmptyStep == Solitude /\ [Next]_vars => StillEmpty'
<1> SUFFICES ASSUME Solitude, [Next]_vars,
                    NEW x \in Run \ company',
                    phase'[x] = "clean" \/ x \in opened',
                    NEW t \in Reloaded \ branches'[x]
             PROVE  copies'[t] = 0
  BY DEF StillEmpty
<1> USE DEF Solitude, TypeOK, warehouse, lake, transactions
<1>a. x \in Run \ company
  BY CompanyGrows
<1>e. ASSUME phase[x] = "clean" \/ x \in opened, t \notin branches[x]
      PROVE  copies[t] = 0
  BY <1>a, <1>e DEF StillEmpty
<1>1. ASSUME NEW z \in Run, StartExecution(z) PROVE copies'[t] = 0
  <2>1. x # z
    BY <1>1 DEF StartExecution, Phases
  <2>2. QED BY <1>1, <1>e, <2>1 DEF StartExecution
<1>2. ASSUME NEW z \in Run, NEW u \in Table, Truncate(z, u) PROVE copies'[t] = 0
  <2>1. CASE t = u
    BY <1>2, <2>1 DEF Truncate, Table
  <2>2. CASE t # u
    <3>1. copies'[t] = copies[t] /\ t \notin branches[x]
      BY <1>2, <2>2 DEF Truncate, Table
    <3>2. QED BY <1>2, <1>e, <3>1 DEF Truncate
  <2>3. QED BY <2>1, <2>2
<1>3. ASSUME NEW z \in Run, NEW u \in Table, Load(z, u) PROVE copies'[t] = 0
  BY <1>3, <1>e DEF Load
<1>4. ASSUME NEW z \in Run, NEW u \in Table, TruncateFails(z, u)
      PROVE  copies'[t] = 0
  <2>1. x # z \/ phase[z] # "clean"
    BY <1>4 DEF TruncateFails, Phases
  <2>2. x # z
    BY <1>4, <2>1 DEF TruncateFails, Phases
  <2>3. QED BY <1>4, <1>e, <2>2 DEF TruncateFails
<1>5. ASSUME NEW z \in Run, CleanDone(z) PROVE copies'[t] = 0
  BY <1>5, <1>e DEF CleanDone
<1>6. ASSUME NEW z \in Run, Commit(z) PROVE copies'[t] = 0
  <2>1. x # z /\ (phase[x] = "clean" \/ x \in opened)
    BY <1>6 DEF Commit, Ends, Phases
  <2>2. Active(x) /\ Active(z)
    BY <1>6, <2>1 DEF Commit, Ends, Active
  <2>3. QED BY <1>a, <2>1, <2>2 DEF Alone
<1>7. ASSUME NEW z \in Run, LoadFails(z) PROVE copies'[t] = 0
  BY <1>7, <1>e DEF LoadFails, Ends
<1>8. ASSUME NEW z \in Run, LoadTimesOut(z) PROVE copies'[t] = 0
  BY <1>8, <1>e DEF LoadTimesOut
<1>9. ASSUME NEW z \in Run, Rename(z) PROVE copies'[t] = 0
  BY <1>9, <1>e DEF Rename
<1>10. ASSUME CallAddressLines PROVE copies'[t] = 0
  <2>1. phase[x] = "clean" \/ x \in opened
    BY <1>10 DEF CallAddressLines
  <2>2. QED BY <1>10, <2>1 DEF CallAddressLines, Active
<1>11. ASSUME NEW u \in Appended, SourceChanges(u)
      PROVE  copies'[t] = 0
  BY <1>11, <1>e DEF SourceChanges
<1>12. CASE UNCHANGED vars
  BY <1>12, <1>e DEF vars
<1>13. QED
  BY <1>1, <1>2, <1>3, <1>4, <1>5, <1>6, <1>7, <1>8, <1>9, <1>10, <1>11, <1>12, Steps

\* The invariant of a lone execution is inductive.
LEMMA SolitudeStep == Solitude /\ [Next]_vars => Solitude'
BY TypeStep, PhasesStep, AloneStep, StillEmptyStep DEF Solitude

-----------------------------------------------------------------------------
(* The appended tables                                                      *)

\* Of the transactions that may still commit: a currency to be inserted is still
\* missing, and the source's row that was found is in the table or on its way.
StillMissing ==
  \A x \in opened \ doomed :
    DimCurrency \in txn[x] => Visible(x, DimCurrency)[seen[x][DimCurrency]] <= 1
StillCurrent ==
  \A x \in opened \ doomed : \A t \in txn[x] \cap Appended :
    Visible(x, t)[seen[x][t]] > 0

\* What they load is not disturbed by others: a commit dooms the transactions
\* that have begun to load.
Serial == TypeOK /\ StillMissing /\ StillCurrent /\ CurrencyOnce

\* A step that leaves the rows, the source's among them, alone.
LEMMA VisibleSame ==
  ASSUME NEW x, NEW t \in Appended, rows' = rows,
         seen'[x][t] = seen[x][t], adds'[x][t] = adds[x][t]
  PROVE  Visible(x, t)' = Visible(x, t) /\ seen'[x][t] = seen[x][t]
BY DEF Visible

\* A load of an appended table makes the row of the source visible, and a
\* currency once.
LEMMA LoadShows ==
  ASSUME Serial, NEW x \in Run, NEW t \in Appended, Load(x, t)
  PROVE  /\ Visible(x, t)'[seen'[x][t]] > 0
         /\ t = DimCurrency => Visible(x, t)'[seen'[x][t]] <= 1
<1> DEFINE v == source[t]
<1>1. /\ rows' = rows /\ seen'[x][t] = v /\ adds'[x][t] = Inserts(x, t)
      /\ v \in Value /\ rows[t][v] \in 0 .. Several
  BY DEF Load, Serial, TypeOK
<1>2. Visible(x, t)'[v] = Plus(rows[t][v], Inserts(x, t))
  BY <1>1 DEF Visible
<1>3. CASE t = DimCurrency
  <2>1. Inserts(x, t) = IF rows[t][v] = 0 THEN 1 ELSE 0
    BY <1>3 DEF Inserts, MissingCurrencies
  <2>2. rows[t][v] <= 1
    BY <1>1, <1>3 DEF Serial, CurrencyOnce
  <2>3. QED BY <1>1, <1>2, <2>1, <2>2 DEF Plus, Several
<1>4. CASE t # DimCurrency
  <2>1. t = FactApplication /\ Inserts(x, t) =
          Plus(MissingApplications(x), RevisedApplications(x))
    BY <1>4 DEF Inserts, Appended
  <2>2. Matches(x) \in 1 .. Several
    BY DEF Matches, Several
  <2>3. MissingApplications(x) \in 0 .. Several /\ RevisedApplications(x) \in 0 .. Several
    BY <2>2 DEF MissingApplications, RevisedApplications, Several
  <2>4. rows[t][v] > 0 \/ MissingApplications(x) > 0 \/ RevisedApplications(x) > 0
    <3>1. CASE \A w \in Value : rows[t][w] = 0
      BY <2>1, <2>2, <3>1 DEF MissingApplications, Several
    <3>2. CASE rows[t][v] > 0
      BY <3>2
    <3>3. CASE rows[t][v] = 0 /\ \E w \in Value : rows[t][w] # 0
      <4>1. PICK w \in Value : rows[t][w] # 0
        BY <3>3
      <4>2. w # v /\ rows[t][w] > 0
        BY <3>3, <4>1 DEF Serial, TypeOK
      <4>3. {u \in Value \ {source[FactApplication]} : rows[FactApplication][u] > 0} # {}
        BY <2>1, <4>2
      <4>4. QED BY <4>3 DEF RevisedApplications, Several
    <3>4. QED BY <1>1, <3>1, <3>2, <3>3
  <2>5. Inserts(x, t) \in 0 .. Several /\ (rows[t][v] > 0 \/ Inserts(x, t) > 0)
    BY <2>1, <2>3, <2>4, PlusType
  <2>6. Visible(x, t)'[v] > 0
    BY <1>1, <1>2, <2>5, PlusType
  <2>7. QED BY <1>1, <1>4, <2>6
<1>5. QED BY <1>1, <1>3, <1>4

\* No transaction is open at first, and no appended table has rows.
LEMMA SerialInit == Init => Serial
BY TypeInit DEF Init, Serial, StillMissing, StillCurrent, CurrencyOnce, Appended

\* The invariant of overlapping loads is inductive.
LEMMA SerialStep == Serial /\ [Next]_vars => Serial'
<1> SUFFICES ASSUME Serial, [Next]_vars
             PROVE  StillMissing' /\ StillCurrent' /\ CurrencyOnce'
  BY TypeStep DEF Serial
<1> USE DEF warehouse, lake, transactions
<1>t. TypeOK /\ DimCurrency \in Appended
  BY DEF Serial, Appended
\* What another transaction does leaves what x has found as it was.
<1>s. ASSUME rows' = rows,
             \A x \in opened' \ doomed' :
               /\ x \in opened \ doomed
               /\ \A t \in txn'[x] \cap Appended :
                    t \in txn[x] /\ seen'[x][t] = seen[x][t] /\ adds'[x][t] = adds[x][t]
      PROVE  StillMissing' /\ StillCurrent' /\ CurrencyOnce'
  <2>1. ASSUME NEW x \in opened' \ doomed', NEW t \in txn'[x] \cap Appended
        PROVE  /\ x \in opened \ doomed /\ t \in txn[x]
               /\ Visible(x, t)' = Visible(x, t) /\ seen'[x][t] = seen[x][t]
    BY <1>s, <2>1, VisibleSame
  <2>2. StillMissing'
    BY <1>t, <2>1 DEF Serial, StillMissing
  <2>3. StillCurrent'
    BY <2>1 DEF Serial, StillCurrent
  <2>4. QED BY <1>s, <2>2, <2>3 DEF Serial, CurrencyOnce
<1>1. ASSUME NEW x \in Run, StartExecution(x)
      PROVE StillMissing' /\ StillCurrent' /\ CurrencyOnce'
  BY <1>1, <1>s DEF StartExecution
<1>2. ASSUME NEW x \in Run, NEW t \in Table, Truncate(x, t)
      PROVE StillMissing' /\ StillCurrent' /\ CurrencyOnce'
  BY <1>2, <1>s DEF Truncate
<1>3. ASSUME NEW x \in Run, NEW t \in Table, Load(x, t)
      PROVE StillMissing' /\ StillCurrent' /\ CurrencyOnce'
  <2>1. rows' = rows /\ opened' = opened /\ doomed' = doomed
        /\ txn' = [txn EXCEPT ![x] = @ \cup {t}]
    BY <1>3 DEF Load
  <2>2. CASE t \notin Appended
    <3>1. UNCHANGED <<seen, adds>>
      BY <1>3, <2>2 DEF Load
    <3>2. \A y \in Run : txn'[y] \cap Appended = txn[y] \cap Appended
      BY <1>t, <2>1, <2>2 DEF TypeOK
    <3>3. opened \subseteq Run
      BY <1>t DEF TypeOK
    <3>4. QED BY <1>s, <2>1, <3>1, <3>2, <3>3
  <2>3. CASE t \in Appended
    <3>1. ASSUME NEW y \in opened' \ doomed', NEW u \in txn'[y] \cap Appended,
                 ~(y = x /\ u = t)
          PROVE  /\ y \in opened \ doomed /\ u \in txn[y]
                 /\ Visible(y, u)' = Visible(y, u) /\ seen'[y][u] = seen[y][u]
      <4>1. y \in opened \ doomed /\ u \in txn[y] /\ y \in Run
        BY <1>t, <2>1, <3>1 DEF TypeOK
      <4>2. seen' = [seen EXCEPT ![x][t] = source[t]]
            /\ adds' = [adds EXCEPT ![x][t] = Inserts(x, t)]
        BY <1>3, <2>3 DEF Load
      <4>3. seen'[y][u] = seen[y][u] /\ adds'[y][u] = adds[y][u]
        BY <1>t, <3>1, <4>1, <4>2 DEF TypeOK
      <4>4. QED BY <2>1, <3>1, <4>1, <4>3, VisibleSame
    <3>2. /\ Visible(x, t)'[seen'[x][t]] > 0
          /\ t = DimCurrency => Visible(x, t)'[seen'[x][t]] <= 1
      BY <1>3, <2>3, LoadShows
    <3>3. StillCurrent'
      <4> SUFFICES ASSUME NEW y \in opened' \ doomed', NEW u \in txn'[y] \cap Appended
                   PROVE  Visible(y, u)'[seen'[y][u]] > 0
        BY DEF StillCurrent
      <4>1. CASE y = x /\ u = t
        BY <3>2, <4>1
      <4>2. CASE ~(y = x /\ u = t)
        BY <3>1, <4>2 DEF Serial, StillCurrent
      <4>3. QED BY <4>1, <4>2
    <3>4. StillMissing'
      <4> SUFFICES ASSUME NEW y \in opened' \ doomed', DimCurrency \in txn'[y]
                   PROVE  Visible(y, DimCurrency)'[seen'[y][DimCurrency]] <= 1
        BY DEF StillMissing
      <4>1. CASE y = x /\ t = DimCurrency
        BY <3>2, <4>1
      <4>2. CASE ~(y = x /\ t = DimCurrency)
        <5>1. /\ y \in opened \ doomed /\ DimCurrency \in txn[y]
              /\ Visible(y, DimCurrency)' = Visible(y, DimCurrency)
              /\ seen'[y][DimCurrency] = seen[y][DimCurrency]
          BY <1>t, <3>1, <4>2
        <5>2. QED BY <5>1 DEF Serial, StillMissing
      <4>3. QED BY <4>1, <4>2
    <3>5. QED BY <2>1, <3>3, <3>4 DEF Serial, CurrencyOnce
  <2>4. QED BY <2>2, <2>3
<1>4. ASSUME NEW x \in Run, NEW t \in Table, TruncateFails(x, t)
      PROVE StillMissing' /\ StillCurrent' /\ CurrencyOnce'
  BY <1>4, <1>s DEF TruncateFails
<1>5. ASSUME NEW x \in Run, CleanDone(x)
      PROVE StillMissing' /\ StillCurrent' /\ CurrencyOnce'
  <2>1. /\ UNCHANGED <<rows, txn, seen, adds, doomed>> /\ opened' = opened \cup {x}
        /\ phase[x] = "clean"
    BY <1>5 DEF CleanDone
  <2>2. CASE x \in opened
    BY <1>s, <2>1, <2>2
  <2>3. CASE x \notin opened
    <3>1. txn[x] = {}
      BY <1>t, <2>3 DEF TypeOK
    <3>2. ASSUME NEW y \in opened' \ doomed', NEW t \in txn'[y] \cap Appended
          PROVE  /\ y \in opened \ doomed /\ t \in txn[y]
                 /\ Visible(y, t)' = Visible(y, t) /\ seen'[y][t] = seen[y][t]
      BY <2>1, <3>1, <3>2, VisibleSame
    <3>3. StillMissing'
      BY <1>t, <3>2 DEF Serial, StillMissing
    <3>4. StillCurrent'
      BY <3>2 DEF Serial, StillCurrent
    <3>5. QED BY <2>1, <3>3, <3>4 DEF Serial, CurrencyOnce
  <2>4. QED BY <2>2, <2>3
<1>6. ASSUME NEW x \in Run, Commit(x)
      PROVE StillMissing' /\ StillCurrent' /\ CurrencyOnce'
  <2>1. \A y \in opened' \ doomed' : txn'[y] = {}
    BY <1>6, <1>t DEF Commit, Ends, TypeOK
  <2>2. StillMissing' /\ StillCurrent'
    BY <2>1 DEF StillMissing, StillCurrent
  <2>3. x \in opened \ doomed /\ DimCurrency \in txn[x]
        /\ rows'[DimCurrency] = Visible(x, DimCurrency)
    BY <1>6, <1>t DEF Commit, Table
  <2>4. Visible(x, DimCurrency)[seen[x][DimCurrency]] <= 1
    BY <2>3 DEF Serial, StillMissing
  <2>5. CurrencyOnce'
    <3> SUFFICES ASSUME NEW v \in Value PROVE rows'[DimCurrency][v] <= 1
      BY DEF CurrencyOnce
    <3>1. CASE v = seen[x][DimCurrency]
      BY <2>3, <2>4, <3>1
    <3>2. CASE v # seen[x][DimCurrency]
      BY <2>3, <3>2 DEF Visible, Serial, CurrencyOnce
    <3>3. QED BY <3>1, <3>2
  <2>6. QED BY <2>2, <2>5
<1>7. ASSUME NEW x \in Run, LoadFails(x)
      PROVE StillMissing' /\ StillCurrent' /\ CurrencyOnce'
  <2>1. /\ rows' = rows /\ opened' = opened \ {x} /\ doomed' = doomed
        /\ seen' = seen /\ \A y \in Run \ {x} : txn'[y] = txn[y] /\ adds'[y] = adds[y]
    BY <1>7, <1>t DEF LoadFails, Ends, TypeOK
  <2>2. opened \subseteq Run
    BY <1>t DEF TypeOK
  <2>3. QED BY <1>s, <2>1, <2>2
<1>8. ASSUME NEW x \in Run, LoadTimesOut(x)
      PROVE StillMissing' /\ StillCurrent' /\ CurrencyOnce'
  BY <1>8, <1>s DEF LoadTimesOut
<1>9. ASSUME NEW x \in Run, Rename(x)
      PROVE StillMissing' /\ StillCurrent' /\ CurrencyOnce'
  BY <1>9, <1>s DEF Rename
<1>10. ASSUME CallAddressLines
       PROVE StillMissing' /\ StillCurrent' /\ CurrencyOnce'
  BY <1>10, <1>s DEF CallAddressLines
<1>11. ASSUME NEW u \in Appended, SourceChanges(u)
       PROVE StillMissing' /\ StillCurrent' /\ CurrencyOnce'
  BY <1>11, <1>s DEF SourceChanges
<1>12. CASE UNCHANGED vars
  BY <1>12, <1>s DEF vars
<1>13. QED
  BY <1>1, <1>2, <1>3, <1>4, <1>5, <1>6, <1>7, <1>8, <1>9, <1>10, <1>11, <1>12, Steps

-----------------------------------------------------------------------------
(* A warehouse whose source stands                                          *)

\* The contents of an appended table that is as its source.
AsSource(t, contents) ==
  \A v \in Value : contents[v] <= 1 /\ (contents[v] > 0 => v = source[t])

\* While executions do not overlap and the source stands, the appended tables
\* are as their source for everyone, and so is what is found in it.
Settled ==
  company = {} /\ changes = 0 =>
    /\ \A t \in Appended : AsSource(t, rows[t])
    /\ \A x \in opened : \A t \in txn[x] \cap Appended :
         seen[x][t] = source[t] /\ AsSource(t, Visible(x, t))

\* A load then inserts what is missing, once: the joined tables are empty.
LEMMA LoadKeepsSource ==
  ASSUME Solitude, Settled, company = {}, changes = 0,
         NEW x \in Run, NEW t \in Appended, Load(x, t)
  PROVE  seen'[x][t] = source[t] /\ AsSource(t, Visible(x, t)')
<1> DEFINE v == source[t]
<1>1. /\ rows' = rows /\ seen'[x][t] = v /\ adds'[x][t] = Inserts(x, t)
      /\ v \in Value /\ AsSource(t, rows[t])
      /\ \A w \in Value : rows[t][w] \in 0 .. Several
  BY DEF Load, Solitude, TypeOK, Settled
<1>2. \A w \in Value : Visible(x, t)'[w] =
        IF w = v THEN Plus(rows[t][v], Inserts(x, t)) ELSE rows[t][w]
  BY <1>1 DEF Visible
<1>3. Inserts(x, t) = IF rows[t][v] = 0 THEN 1 ELSE 0
  <2>1. CASE t = DimCurrency
    BY <2>1 DEF Inserts, MissingCurrencies
  <2>2. CASE t # DimCurrency
    <3>1. t = FactApplication
      BY <2>2 DEF Appended
    <3>2. {w \in Value \ {source[t]} : rows[t][w] > 0} = {}
      BY <1>1 DEF AsSource
    <3>3. RevisedApplications(x) = 0
      BY <3>1, <3>2 DEF RevisedApplications
    <3>4. rows[t][v] = 0 <=> \A w \in Value : rows[t][w] = 0
      BY <1>1 DEF AsSource, Several
    <3>5. Matches(x) = 1
      <4>1. x \in opened /\ Joined \cup {DimCurrency} \subseteq txn[x]
        BY <3>1 DEF Load
      <4>2. \A u \in Joined : copies[u] = 0
        BY <4>1, TableAssumption DEF Solitude, StillEmpty, Phases
      <4>3. AsSource(DimCurrency, Visible(x, DimCurrency))
        BY <4>1 DEF Settled, Appended
      <4>4. \A w \in Value : Visible(x, DimCurrency)[w] \in 0 .. Several
        BY VisibleType DEF Solitude, Appended
      <4>5. QED BY <4>2, <4>3, <4>4 DEF Matches, AsSource, Several
    <3>6. MissingApplications(x) = IF rows[t][v] = 0 THEN 1 ELSE 0
      BY <3>1, <3>4, <3>5 DEF MissingApplications
    <3>7. QED BY <2>2, <3>3, <3>6 DEF Inserts, Plus, Several
  <2>3. QED BY <2>1, <2>2
<1>4. ASSUME NEW w \in Value
      PROVE Visible(x, t)'[w] <= 1 /\ (Visible(x, t)'[w] > 0 => w = source[t])
  <2>1. rows[t][w] <= 1 /\ (rows[t][w] > 0 => w = v) /\ rows[t][w] \in 0 .. Several
    BY <1>1 DEF AsSource
  <2>2. CASE w = v
    BY <1>2, <1>3, <2>1, <2>2 DEF Plus, Several
  <2>3. CASE w # v
    BY <1>2, <2>1, <2>3
  <2>4. QED BY <2>2, <2>3
<1>5. QED BY <1>1, <1>4 DEF AsSource

\* The appended tables are empty at first.
LEMMA SettledInit == Init => Settled
BY DEF Init, Settled, AsSource

\* While executions do not overlap and the source stands, no row is doubled.
LEMMA SettledStep == Solitude /\ Settled /\ [Next]_vars => Settled'
<1> SUFFICES ASSUME Solitude, Settled, [Next]_vars, company' = {}, changes' = 0
             PROVE  /\ \A t \in Appended : AsSource(t, rows[t])'
                    /\ \A x \in opened' : \A t \in txn'[x] \cap Appended :
                         seen'[x][t] = source'[t] /\ AsSource(t, Visible(x, t))'
  BY DEF Settled
<1> DEFINE Kept == /\ \A t \in Appended : AsSource(t, rows[t])'
                   /\ \A x \in opened' : \A t \in txn'[x] \cap Appended :
                        seen'[x][t] = source'[t] /\ AsSource(t, Visible(x, t))'
<1> HIDE DEF Kept
<1> USE DEF warehouse, lake, transactions
<1>t. TypeOK
  BY DEF Solitude
<1>c. company = {}
  BY CompanyGrows
<1>0. ASSUME NEW t \in Appended, SourceChanges(t) PROVE FALSE
  BY <1>t, <1>0, BoundAssumption DEF SourceChanges, TypeOK
<1>n. changes = 0 /\ source' = source
  BY <1>0, Steps DEF vars, StartExecution, Truncate, Load, TruncateFails, CleanDone,
       Commit, LoadFails, LoadTimesOut, Rename, CallAddressLines
<1>r. /\ \A t \in Appended : AsSource(t, rows[t])
      /\ \A x \in opened : \A t \in txn[x] \cap Appended :
           seen[x][t] = source[t] /\ AsSource(t, Visible(x, t))
  BY <1>c, <1>n DEF Settled
<1>s. ASSUME rows' = rows,
             \A x \in opened' : \A t \in txn'[x] \cap Appended :
               /\ x \in opened /\ t \in txn[x]
               /\ seen'[x][t] = seen[x][t] /\ adds'[x][t] = adds[x][t]
      PROVE  Kept
  <2>1. \A t \in Appended : AsSource(t, rows[t])'
    BY <1>n, <1>r, <1>s DEF AsSource
  <2>2. ASSUME NEW x \in opened', NEW t \in txn'[x] \cap Appended
        PROVE  seen'[x][t] = source'[t] /\ AsSource(t, Visible(x, t))'
    <3>1. Visible(x, t)' = Visible(x, t) /\ seen'[x][t] = seen[x][t]
      BY <1>s, <2>2, VisibleSame
    <3>2. x \in opened /\ t \in txn[x]
      BY <1>s, <2>2
    <3>3. QED BY <1>n, <1>r, <3>1, <3>2 DEF AsSource
  <2>3. QED BY <2>1, <2>2 DEF Kept
<1>1. ASSUME NEW x \in Run, StartExecution(x) PROVE Kept
  BY <1>1, <1>s DEF StartExecution
<1>2. ASSUME NEW x \in Run, NEW t \in Table, Truncate(x, t) PROVE Kept
  BY <1>2, <1>s DEF Truncate
<1>3. ASSUME NEW x \in Run, NEW t \in Table, Load(x, t) PROVE Kept
  <2>1. rows' = rows /\ opened' = opened /\ txn' = [txn EXCEPT ![x] = @ \cup {t}]
    BY <1>3 DEF Load
  <2>2. CASE t \notin Appended
    <3>1. UNCHANGED <<seen, adds>>
      BY <1>3, <2>2 DEF Load
    <3>2. \A y \in Run : txn'[y] \cap Appended = txn[y] \cap Appended
      BY <1>t, <2>1, <2>2 DEF TypeOK
    <3>3. opened \subseteq Run
      BY <1>t DEF TypeOK
    <3>4. QED BY <1>s, <2>1, <3>1, <3>2, <3>3
  <2>3. CASE t \in Appended
    <3>1. ASSUME NEW y \in opened', NEW u \in txn'[y] \cap Appended
          PROVE  seen'[y][u] = source'[u] /\ AsSource(u, Visible(y, u))'
      <4>1. CASE y = x /\ u = t
        <5>1. seen'[x][t] = source[t] /\ AsSource(t, Visible(x, t)')
          BY <1>3, <1>c, <1>n, <2>3, LoadKeepsSource
        <5>2. QED BY <1>n, <4>1, <5>1 DEF AsSource
      <4>2. CASE ~(y = x /\ u = t)
        <5>1. y \in opened /\ u \in txn[y] /\ y \in Run
          BY <1>t, <2>1, <3>1, <4>2 DEF TypeOK
        <5>2. seen' = [seen EXCEPT ![x][t] = source[t]]
              /\ adds' = [adds EXCEPT ![x][t] = Inserts(x, t)]
          BY <1>3, <2>3 DEF Load
        <5>3. seen'[y][u] = seen[y][u] /\ adds'[y][u] = adds[y][u]
          BY <1>t, <3>1, <4>2, <5>1, <5>2 DEF TypeOK
        <5>4. Visible(y, u)' = Visible(y, u)
          BY <2>1, <3>1, <5>3, VisibleSame
        <5>5. QED BY <1>n, <1>r, <3>1, <5>1, <5>3, <5>4 DEF AsSource
      <4>3. QED BY <4>1, <4>2
    <3>2. \A u \in Appended : AsSource(u, rows[u])'
      BY <1>n, <1>r, <2>1 DEF AsSource
    <3>3. QED BY <3>1, <3>2 DEF Kept
  <2>4. QED BY <2>2, <2>3
<1>4. ASSUME NEW x \in Run, NEW t \in Table, TruncateFails(x, t) PROVE Kept
  BY <1>4, <1>s DEF TruncateFails
<1>5. ASSUME NEW x \in Run, CleanDone(x) PROVE Kept
  <2>1. /\ UNCHANGED <<rows, txn, seen, adds>> /\ opened' = opened \cup {x}
        /\ phase[x] = "clean"
    BY <1>5 DEF CleanDone
  <2>2. txn[x] = {}
    BY <1>t, <2>1 DEF Solitude, Phases, TypeOK
  <2>3. QED BY <1>s, <2>1, <2>2
<1>6. ASSUME NEW x \in Run, Commit(x) PROVE Kept
  <2>1. opened' = {}
    <3> SUFFICES ASSUME NEW y \in opened, y # x PROVE FALSE
      BY <1>6 DEF Commit, Ends
    <3>1. Active(x) /\ Active(y) /\ y \in Run
      BY <1>6, <1>t DEF Commit, Active, TypeOK
    <3>2. QED BY <1>c, <3>1 DEF Solitude, Alone
  <2>2. ASSUME NEW t \in Appended PROVE AsSource(t, rows[t])'
    <3>1. rows'[t] = Visible(x, t) /\ x \in opened /\ t \in txn[x]
      BY <1>6 DEF Commit, Table
    <3>2. QED BY <1>n, <1>r, <3>1 DEF AsSource
  <2>3. QED BY <2>1, <2>2 DEF Kept
<1>7. ASSUME NEW x \in Run, LoadFails(x) PROVE Kept
  <2>1. /\ rows' = rows /\ opened' = opened \ {x}
        /\ seen' = seen /\ \A y \in Run \ {x} : txn'[y] = txn[y] /\ adds'[y] = adds[y]
    BY <1>7, <1>t DEF LoadFails, Ends, TypeOK
  <2>2. opened \subseteq Run
    BY <1>t DEF TypeOK
  <2>3. QED BY <1>s, <2>1, <2>2
<1>8. ASSUME NEW x \in Run, LoadTimesOut(x) PROVE Kept
  BY <1>8, <1>s DEF LoadTimesOut
<1>9. ASSUME NEW x \in Run, Rename(x) PROVE Kept
  BY <1>9, <1>s DEF Rename
<1>10. ASSUME CallAddressLines PROVE Kept
  BY <1>10, <1>s DEF CallAddressLines
<1>12. ASSUME UNCHANGED vars PROVE Kept
  <2>1. UNCHANGED <<rows, txn, seen, adds, opened>>
    BY <1>12 DEF vars
  <2>2. QED BY <1>s, <2>1
<1>13. Kept
  <2>1. ASSUME Next PROVE Kept
    BY <1>0, <1>1, <1>2, <1>3, <1>4, <1>5, <1>6, <1>7, <1>8, <1>9, <1>10, <2>1, Steps
  <2>2. QED BY <1>12, <2>1
<1>14. QED BY <1>13 DEF Kept

-----------------------------------------------------------------------------
(* The properties of the load                                               *)

\* A transaction that ends with other copies has committed.
LEMMA CommitsIsCommit ==
  ASSUME TypeOK, Next, NEW x \in Run, Commits(x)
  PROVE  Commit(x)
BY Steps DEF Commits, StartExecution, Truncate, Load, TruncateFails, CleanDone, Commit,
             LoadFails, LoadTimesOut, Rename, CallAddressLines, SourceChanges, Ends,
             warehouse, lake, transactions

\* The tables only the load of one execution touches hold the source once when
\* it has committed, in any interleaving and after any earlier failure.
THEOREM LoneRunLoadsOnce == Spec => LoadedOnce
<1>1. Solitude /\ [Next]_vars =>
        [\A x \in Run \ company :
           Commits(x) =>
             \A t \in Reloaded : copies'[t] = 1]_vars
  <2> SUFFICES ASSUME Solitude, Next,
                      NEW x \in Run \ company,
                      Commits(x),
                      NEW t \in Reloaded
               PROVE  copies'[t] = 1
    BY DEF vars, warehouse, lake, transactions
  <2>1. Commit(x)
    BY CommitsIsCommit DEF Solitude
  <2>2. copies[t] = 0
    BY <2>1 DEF Commit, Solitude, StillEmpty, Phases
  <2>3. QED
    BY <2>1, <2>2 DEF Commit
<1>2. QED
  BY <1>1, SolitudeInit, SolitudeStep, PTL DEF Spec, LoadedOnce

\* No procedure's failure leaves some tables with a load and others without.
THEOREM LoadIsAtomic == Spec => AllOrNothing
<1>1. TypeOK /\ [Next]_vars =>
        [calls' = calls =>
           \A t, u \in Reloaded :
             copies'[t] > copies[t] => copies'[u] = copies[u] + 1]_vars
  <2> SUFFICES ASSUME TypeOK, Next, calls' = calls,
                      NEW t \in Reloaded, NEW u \in Reloaded,
                      copies'[t] > copies[t]
               PROVE  copies'[u] = copies[u] + 1
    BY DEF vars, warehouse, lake, transactions
  <2> USE DEF TypeOK, warehouse, lake, transactions
  <2>1. ASSUME copies' = copies PROVE FALSE
    BY <2>1
  <2>2. ASSUME NEW x \in Run, NEW s \in Table, Truncate(x, s) PROVE FALSE
    BY <2>2 DEF Truncate
  <2>3. ASSUME CallAddressLines PROVE FALSE
    BY <2>3 DEF CallAddressLines
  <2>4. PICK x \in Run : Commit(x)
    BY <2>1, <2>2, <2>3, Steps DEF StartExecution, Load, TruncateFails, CleanDone,
         LoadFails, LoadTimesOut, Rename, SourceChanges
  <2>5. QED BY <2>4 DEF Commit
<1>2. QED
  BY <1>1, RefreshTypeCorrect, PTL DEF Spec, AllOrNothing

\* No currency's name is in dimcurrency twice, in any interleaving of executions
\* and of the failures and late commits of their loads.
THEOREM CurrenciesAreOnce == Spec => []CurrencyOnce
BY SerialInit, SerialStep, PTL DEF Spec, Serial

\* What a committed load found in the source is in the appended tables, whatever
\* was there before and whoever loads at the same time.
THEOREM LoadsAreCurrent == Spec => LoadIsCurrent
<1>1. Serial /\ [Next]_vars =>
        [\A x \in Run : Commits(x) =>
           \A t \in Appended : rows'[t][seen[x][t]] > 0]_vars
  <2> SUFFICES ASSUME Serial, Next, NEW x \in Run, Commits(x), NEW t \in Appended
               PROVE  rows'[t][seen[x][t]] > 0
    BY DEF vars, warehouse, lake, transactions
  <2>1. Commit(x)
    BY CommitsIsCommit DEF Serial
  <2>2. x \in opened \ doomed /\ t \in txn[x] /\ rows'[t] = Visible(x, t)
    BY <2>1 DEF Commit, Table
  <2>3. QED BY <2>2 DEF Serial, StillCurrent
<1>2. QED
  BY <1>1, SerialInit, SerialStep, PTL DEF Spec, LoadIsCurrent

\* A source that stands is in factapplication once while executions keep apart.
THEOREM ApplicationsAreOnce == Spec => []ApplicationOnce
<1>1. Settled => ApplicationOnce
  BY DEF Settled, ApplicationOnce, AsSource, Appended
<1>2. QED
  BY <1>1, SolitudeInit, SolitudeStep, SettledInit, SettledStep, PTL DEF Spec

=============================================================================
