--------------------------- MODULE CustomResource ---------------------------
(***************************************************************************)
(* The functions behind the custom resources, by kind.                      *)
(*                                                                          *)
(*   "sql"         mysql-db-init: runs init.sql                             *)
(*   "dwh"         redshift-db-init: runs the scripts of the warehouse      *)
(*   "grant"       redshift-prod-config: snapshot copy grant, then copying  *)
(*   "domain"      userpool-getcustomdomain: looks a domain up              *)
(*   "delivery"    ns-logdeliverystatus: attributes of a topic              *)
(*   "repository"  Snapshot-Register: a snapshot repository                 *)
(*                                                                          *)
(* A function makes a number of calls to a service and answers.  The first  *)
(* four, in Python, answer FAILED at the first call that fails, and raise.  *)
(* The last two, in Node.js, log the failure and go on; what they answer is *)
(* a variable of their module that outlives the invocation with the         *)
(* container.  The calls are abstracted to what tells them apart: whether   *)
(* the service refuses to do them twice, and where a transaction commits.   *)
(***************************************************************************)
EXTENDS StackRequests

CONSTANTS
  Attributes,  \* updates of ns-logdeliverystatus, six in the code
  Container,   \* containers that Lambda runs a Node.js function in
  None         \* no container

ASSUME ResourceAssumption == Attributes \in Nat \ {0} /\ None \notin Container

VARIABLES
  done,   \* calls whose effect is in place in the service
  step,   \* the next call of each event's invocation
  open,   \* its calls that are not committed
  say,    \* what it is about to answer, "none" while it works
  at,     \* its container
  mem,    \* responseStatus in each container
  phys    \* the container whose log stream is the physical id

work == <<step, open, say, at>>
customVars == <<done, work, mem, phys>>

InNode == kind \in {"delivery", "repository"}

\* init.sql: tables, rows, views.  The warehouse: xyz_DWH_DDL, the xyz_EXT
\* scripts, xyz_STG_DDL, the procedures and views.  The grant:
\* create_snapshot_copy_grant, enable_snapshot_copy.
Calls == [sql |-> 3, dwh |-> 4, grant |-> 2, domain |-> 1,
          delivery |-> Attributes, repository |-> 1, image |-> 0]
Call == UNION {1 .. Calls[k] : k \in DOMAIN Calls}

CustomTypeOK ==
  /\ done \subseteq Call
  /\ step \in [Req -> 1 .. Attributes + 4]
  /\ open \in [Req -> SUBSET Call]
  /\ say \in [Req -> {"none", "SUCCESS", "FAILED"}]
  /\ at \in [Req -> Container \cup {None}]
  /\ mem \in [Container -> {"SUCCESS", "FAILED"}]
  /\ phys \in Container \cup {None}

CustomInit ==
  /\ done = {}
  /\ step = [i \in Req |-> 1] /\ open = [i \in Req |-> {}]
  /\ say = [i \in Req |-> "none"] /\ at = [i \in Req |-> None]
  /\ mem = [c \in Container |-> "FAILED"] /\ phys = None

-----------------------------------------------------------------------------
(* The calls                                                                *)

\* Mutated form of Refused: init.sql without its IF NOT EXISTS.
RefusedTwice(c) == c \in done

\* Mutated form of Refused: the grant is looked for before it is made.
RefusedNever(c) == FALSE

\* Calls that fail when their effect is there already: "CREATE TABLE
\* configurationmaster" of xyz_DWH_DDL and "create table stg_extract_log" of
\* xyz_STG_DDL, the grant and the copying.  All others say IF NOT EXISTS, OR
\* REPLACE, ON DUPLICATE KEY, or set what is set.
Refused(c) ==
  /\ c \in done
  /\ kind = "grant" \/ (kind = "dwh" /\ c \in {1, 3})

\* Calls that commit what is open: DDL does in MySQL.  psycopg2 sends BEGIN before
\* the first execute only; xyz_EXT_DML ends with a commit that psycopg2 does not
\* notice, and what is executed after it commits by itself.
Commits(c) ==
  CASE kind = "sql" -> c # 2
    [] kind = "dwh" -> c # 1
    [] OTHER -> TRUE

\* The calls a request is worth.
CallsFor(i) ==
  CASE kind = "domain" -> Calls[kind]
    [] Undoes(i) -> 0
    [] type[i] = "Update" -> IF kind \in {"sql", "dwh"} THEN 0 ELSE Calls[kind]
    [] OTHER -> Calls[kind]

Working(i) == kind # "image" /\ Running(i) /\ say[i] = "none"
Calling(i) == Working(i) /\ step[i] <= CallsFor(i)

InUse(c) == \E i \in Req : Running(i) /\ at[i] = c
Places == IF InNode THEN {c \in Container : ~InUse(c)} ELSE {None}

Start(i) ==
  /\ kind # "image" /\ Begins(i)
  /\ step' = [step EXCEPT ![i] = 1] /\ open' = [open EXCEPT ![i] = {}]
  /\ say' = [say EXCEPT ![i] = "none"]
  /\ \E c \in Places : at' = [at EXCEPT ![i] = c]
  /\ UNCHANGED <<kind, stack, sent, type, answer, hurt, lost, faults, done, mem, phys>>

Advance(i) == step' = [step EXCEPT ![i] = @ + 1]
Remember(i, status) == mem' = IF InNode THEN [mem EXCEPT ![at[i]] = status] ELSE mem

\* A call does what it is for.  One that another transaction has open waits.
CallWorks(i) ==
  LET c == step[i] IN
  /\ Calling(i) /\ ~Refused(c) /\ \A j \in Req \ {i} : c \notin open[j]
  /\ IF Commits(c)
     THEN done' = done \cup open[i] \cup {c} /\ open' = [open EXCEPT ![i] = {}]
     ELSE done' = done /\ open' = [open EXCEPT ![i] = @ \cup {c}]
  /\ Advance(i) /\ Remember(i, "SUCCESS")
  /\ UNCHANGED <<stackVars, say, at, phys>>

\* Mutated form of CallFails: the exception is swallowed.
CallFailsQuietly(i) ==
  /\ Calling(i) /\ Fault /\ hurt' = hurt \cup {i} /\ Advance(i)
  /\ UNCHANGED <<kind, stack, sent, type, answer, event, tries, lost,
                 done, open, say, at, mem, phys>>

\* A call fails, of itself or because it is refused.  Python goes to its except
\* clause; the transaction is dropped.  Node.js logs the error and goes on.
CallFails(i) ==
  /\ Calling(i)
  /\ \/ Fault /\ hurt' = hurt \cup {i}
     \/ /\ Refused(step[i])
        /\ UNCHANGED <<faults, hurt>>
  /\ IF InNode THEN Advance(i) /\ UNCHANGED <<say, open>>
     ELSE /\ say' = [say EXCEPT ![i] = "FAILED"]
          /\ open' = [open EXCEPT ![i] = {}] /\ UNCHANGED step
  /\ UNCHANGED <<kind, stack, sent, type, answer, event, tries, lost, done, at, mem, phys>>

\* Elasticsearch answers with an error: Snapshot-Register looks at no status.
CallIgnored(i) ==
  /\ kind = "repository" /\ Calling(i)
  /\ Fault /\ hurt' = hurt \cup {i}
  /\ Advance(i) /\ Remember(i, "SUCCESS")
  /\ UNCHANGED <<kind, stack, sent, type, answer, event, tries, lost, done, open, say, at, phys>>

\* Nothing is left to do.  The connection is dropped without a commit, before or
\* after the answer, and with it whatever no call has committed.
Conclude(i) ==
  /\ Working(i) /\ step[i] > CallsFor(i)
  /\ say' = [say EXCEPT ![i] = IF InNode /\ ~Undoes(i) THEN mem[at[i]] ELSE "SUCCESS"]
  /\ open' = [open EXCEPT ![i] = {}]
  /\ IF Undoes(i) THEN Remember(i, "SUCCESS") ELSE UNCHANGED mem
  /\ UNCHANGED <<stackVars, done, step, at, phys>>

-----------------------------------------------------------------------------
(* The answers                                                              *)

\* Python raises again after it has answered FAILED.
Ends(i) == IF ~InNode /\ say[i] = "FAILED" THEN Raises(i) ELSE Returns(i)

\* The physical id is a name (of a domain its distribution, which the domain keeps),
\* but in Node.js it is the container's log stream.
Replaces(i) == InNode /\ phys # at[i]

Send(i) ==
  /\ Running(i) /\ say[i] # "none"
  /\ Answer(i, say[i], Replaces(i)) /\ Ends(i)
  /\ phys' = IF Awaited(i) /\ InNode /\ say[i] = "SUCCESS" /\ ~Undoes(i) THEN at[i] ELSE phys
  /\ UNCHANGED <<kind, sent, type, tries, hurt, lost, faults, done, work, mem>>

\* Mutated form of SendFails: an answer that could not be sent is not missed.
SendFailsUnnoticed(i) ==
  /\ Running(i) /\ say[i] # "none"
  /\ Fault /\ Ends(i)
  /\ UNCHANGED <<kind, stack, sent, type, answer, tries, hurt, lost, customVars>>

\* The request to the URL fails: send prints it; context.done() ends the
\* invocation without an error.
SendFails(i) ==
  /\ Running(i) /\ say[i] # "none"
  /\ Fault /\ lost' = lost \cup {i} /\ Ends(i)
  /\ UNCHANGED <<kind, stack, sent, type, answer, tries, hurt, customVars>>

\* Snapshot-Register does not await the answer to a deletion: the container is
\* frozen with it, and nothing thaws it within the hour.
Freeze(i) ==
  /\ kind = "repository" /\ Undoes(i) /\ Running(i) /\ say[i] # "none"
  /\ lost' = lost \cup {i} /\ Returns(i)
  /\ UNCHANGED <<kind, stack, sent, type, answer, tries, hurt, faults, customVars>>

\* Mutated form of Emptied: the status is declared without a value.
EmptiedUnset(c) ==
  /\ mem' = IF c \in Container THEN [mem EXCEPT ![c] = "none"] ELSE mem
  /\ phys' = IF phys = c THEN None ELSE phys

\* A container ends, and what its module knew.  Its log stream gets no entries.
Emptied(c) ==
  /\ mem' = IF c \in Container THEN [mem EXCEPT ![c] = "FAILED"] ELSE mem
  /\ phys' = IF phys = c THEN None ELSE phys

\* The invocation runs out of time or memory.
Dies(i) ==
  /\ kind # "image" /\ Running(i)
  /\ Fault /\ lost' = lost \cup {i} /\ Raises(i)
  /\ open' = [open EXCEPT ![i] = {}] /\ Emptied(at[i])
  /\ UNCHANGED <<kind, stack, sent, type, answer, tries, hurt, done, step, say, at>>

\* Lambda drops an idle container.
Recycle(c) ==
  /\ ~InUse(c)
  /\ mem[c] = "SUCCESS" \/ phys = c
  /\ Emptied(c)
  /\ UNCHANGED <<stackVars, done, work>>

CustomStep(i) ==
  \/ Start(i) \/ CallWorks(i) \/ CallFails(i) \/ CallIgnored(i) \/ Conclude(i)
  \/ Send(i) \/ SendFails(i) \/ Freeze(i) \/ Dies(i)
=============================================================================
