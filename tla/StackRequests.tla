--------------------------- MODULE StackRequests ----------------------------
(***************************************************************************)
(* A custom resource as CloudFormation and Lambda see it.                   *)
(*                                                                          *)
(* CloudFormation sends one request after the other about the resource of a *)
(* stack, each of them to the function behind the resource as an            *)
(* asynchronous event, and takes the first answer put to the request's URL, *)
(* or gives up after an hour.  Lambda invokes the function again when an    *)
(* invocation raises or dies, up to MaxAttempts times, whether or not the   *)
(* request has been answered meanwhile: the function may still be working   *)
(* on a Create that failed while it deletes.                                *)
(*                                                                          *)
(* CustomResource and GoldenImage say what the functions do.                *)
(***************************************************************************)
EXTENDS Naturals

CONSTANTS
  Kinds,        \* the functions that a behaviour may be about
  MaxRequests,  \* bound: requests CloudFormation sends
  MaxAttempts,  \* invocations of a failing asynchronous Lambda event
  MaxFaults     \* bound: calls, answers and invocations that fail, by kind

Kind == {"sql", "dwh", "grant", "domain", "delivery", "repository", "image"}

ASSUME RequestAssumption ==
  /\ Kinds \subseteq Kind
  /\ MaxRequests \in Nat /\ MaxAttempts \in Nat \ {0} /\ MaxFaults \in [Kind -> Nat]

VARIABLES
  kind,    \* the function behind the resource
  stack,   \* what CloudFormation makes of the stack
  sent,    \* requests sent
  type,    \* the type of each
  answer,  \* what CloudFormation took as the answer to each
  event,   \* the Lambda event of each: "none", "queued", "running", "over"
  tries,   \* its invocations
  hurt,    \* requests of which a call of the function failed of itself
  lost,    \* requests of which an answer or an invocation was lost
  faults   \* failures so far

stackVars == <<kind, stack, sent, type, answer, event, tries, hurt, lost, faults>>

Req == 1 .. MaxRequests
RequestType == {"Create", "Update", "Delete", "Cleanup"}

StackTypeOK ==
  /\ kind \in Kinds
  /\ stack \in {"absent", "busy", "complete", "cleanup", "failed", "removed"}
  /\ sent \in 0 .. MaxRequests
  /\ type \in [Req -> RequestType \cup {"none"}]
  /\ answer \in [Req -> {"none", "SUCCESS", "FAILED", "timeout"}]
  /\ event \in [Req -> {"none", "queued", "running", "over"}]
  /\ tries \in [Req -> 0 .. MaxAttempts]
  /\ hurt \subseteq Req /\ lost \subseteq Req
  /\ faults \in 0 .. MaxFaults[kind]

StackInit ==
  /\ kind \in Kinds
  /\ stack = "absent" /\ sent = 0
  /\ type = [i \in Req |-> "none"] /\ answer = [i \in Req |-> "none"]
  /\ event = [i \in Req |-> "none"] /\ tries = [i \in Req |-> 0]
  /\ hurt = {} /\ lost = {} /\ faults = 0

Fault == faults < MaxFaults[kind] /\ faults' = faults + 1

-----------------------------------------------------------------------------
(* CloudFormation                                                           *)

\* What it may ask for next.  A failed creation is rolled back, a failed update
\* is undone by another, a failed deletion may be tried again; after an update
\* that answered with a new physical id the old resource is deleted.
NextTypes ==
  CASE stack = "absent" -> {"Create"}
    [] stack = "complete" -> {"Update", "Delete"}
    [] stack = "cleanup" -> {"Cleanup"}
    [] stack = "failed" -> IF type[sent] = "Update" THEN {"Update", "Delete"} ELSE {"Delete"}
    [] OTHER -> {}

Request(t) ==
  /\ sent < MaxRequests /\ t \in NextTypes
  /\ stack' = "busy" /\ sent' = sent + 1
  /\ type' = [type EXCEPT ![sent + 1] = t]
  /\ event' = [event EXCEPT ![sent + 1] = "queued"]
  /\ UNCHANGED <<kind, answer, tries, hurt, lost, faults>>

\* Both kinds of deletion are RequestType "Delete" to the functions.
Undoes(i) == type[i] \in {"Delete", "Cleanup"}

\* A clean-up that fails is given up without a failure of the stack.
Outcome(i, status, replaced) ==
  IF type[i] = "Cleanup" THEN "complete"
  ELSE IF status # "SUCCESS" THEN "failed"
  ELSE IF type[i] = "Delete" THEN "removed"
  ELSE IF type[i] = "Update" /\ replaced THEN "cleanup"
  ELSE "complete"

Awaited(i) == answer[i] = "none"

\* An answer arrives; only the first one to a request counts.
Answer(i, status, replaced) ==
  IF Awaited(i)
  THEN /\ answer' = [answer EXCEPT ![i] = status]
       /\ stack' = Outcome(i, status, replaced)
  ELSE UNCHANGED <<answer, stack>>

\* An hour has passed.  The invocations are over by then: each of the three at
\* most takes 15 minutes, with a minute and two between them.
TimeOut(i) ==
  /\ event[i] = "over" /\ Awaited(i)
  /\ Answer(i, "timeout", FALSE)
  /\ UNCHANGED <<kind, sent, type, event, tries, hurt, lost, faults>>

\* The rest of the stack is deleted, the function with it: what is running ends,
\* what waits for an invocation never gets one.
StackGone ==
  /\ stack = "removed" /\ stack' = "absent"
  /\ event' = [i \in Req |-> IF event[i] = "queued" THEN "over" ELSE event[i]]
  /\ UNCHANGED <<kind, sent, type, answer, tries, hurt, lost, faults>>

-----------------------------------------------------------------------------
(* Lambda                                                                   *)

Running(i) == event[i] = "running"

Begins(i) ==
  /\ event[i] = "queued" /\ tries[i] < MaxAttempts
  /\ event' = [event EXCEPT ![i] = "running"]
  /\ tries' = [tries EXCEPT ![i] = @ + 1]

Returns(i) == event' = [event EXCEPT ![i] = "over"]

\* Mutated form of Raises: the last attempt is invoked again.
RaisesForever(i) == event' = [event EXCEPT ![i] = "queued"]

\* The invocation failed: another one follows, unless it was the last.
Raises(i) == event' = [event EXCEPT ![i] = IF tries[i] < MaxAttempts THEN "queued" ELSE "over"]
=============================================================================
