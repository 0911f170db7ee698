------------------------ MODULE StackResourcesProofs ------------------------
(***************************************************************************)
(* Proofs about StackResources, for every number of requests, attempts,     *)
(* faults, containers and attributes.                                       *)
(*                                                                          *)
(* The properties speak of what CloudFormation took as an answer.  None of  *)
(* them is inductive: an answer is earned, caused or missing by what the    *)
(* invocation did before it answered, and by what other invocations of the  *)
(* same request, or automations of other requests, can still do to it.  The *)
(* invariant IInv adds both.  Each of its conjuncts is preserved by a lemma *)
(* of its own, with one step per action that it can see.                    *)
(***************************************************************************)
EXTENDS StackResources, TLAPS

-----------------------------------------------------------------------------
(* The inductive invariant                                                  *)

\* Request i has made the first call that can be made only once, or has been
\* answered so.
Past(i) ==
  /\ CallsFor(i) > 0
  /\ \/ Running(i) /\ step[i] > 1 /\ say[i] # "FAILED"
     \/ Effective(i)

\* Requests come one after the other.
Sequenced ==
  /\ stack # "absent" => sent \in Req
  /\ \A i \in Req :
       /\ i > sent => type[i] = "none" /\ answer[i] = "none" /\ event[i] = "none"
       /\ i <= sent => type[i] # "none" /\ event[i] # "none"
       /\ i <= sent /\ answer[i] = "none" => i = sent /\ stack = "busy"

\* No automation works on what is not an image, no function answers for one.
Apart ==
  /\ \A e \in Execution : pc[e] # "none" => for[e] \in Req /\ event[for[e]] # "none"
  /\ kind # "image" => \A e \in Execution : pc[e] = "none"
  /\ kind = "image" => \A i \in Req : say[i] = "none"

\* An event comes to its end unanswered only by a loss.
Accounted ==
  kind # "image" => \A i \in Req :
    /\ answer[i] = "none" /\ event[i] = "over" => i \in lost
    /\ answer[i] = "timeout" => i \in lost

\* After a creation that succeeded, what it promised stays in place.
InPlace ==
  /\ \A i \in Req : type[i] \in {"Update", "Cleanup"} \/ Effective(i) => Promised \subseteq done
  /\ stack \in {"complete", "cleanup"} => Promised \subseteq done

\* What an invocation has behind it.
Behind ==
  \A i \in Req : Running(i) =>
    /\ say[i] = "none" => \A c \in Promised :
         /\ c < step[i] => c \in done \cup open[i]
         /\ c \in open[i] => ~Commits(c) /\ step[i] = c + 1
    /\ say[i] = "SUCCESS" /\ ~Undoes(i) => Promised \subseteq done

\* A Node.js invocation has a container.
Placed == InNode => \A i \in Req : Running(i) => at[i] \in Container

\* The status that a container remembers.
Remembered ==
  kind = "delivery" =>
    /\ stack \in {"complete", "cleanup"} => done # {}
    /\ stack = "absent" => \A c \in Container : mem[c] = "FAILED"
    /\ stack \in {"removed", "absent"} /\ sent > 0 => type[sent] = "Delete"
    /\ sent > 0 /\ type[sent] = "Cleanup" => done # {}
    /\ \A c \in Container : mem[c] = "SUCCESS" => done # {} \/ (sent > 0 /\ type[sent] = "Delete")
    /\ \A i \in Req : Running(i) /\ say[i] = "SUCCESS" /\ ~Undoes(i) => done # {}

\* One invocation at most is past the first call.
Owned ==
  kind \in {"dwh", "grant"} =>
    /\ \A i \in Req : Past(i) => 1 \in done \cup open[i]
    /\ \A i, j \in Req : Past(i) /\ Past(j) => i = j
    /\ \A i \in Req : Running(i) /\ say[i] = "SUCCESS" /\ CallsFor(i) > 0 => step[i] > 1

\* The images of e are being made, or the parameter names the one that is kept.
Built(e) == pc[e] \in {"copy", "name", "drop"} \/ param = e

\* An automation deletes what an earlier request built.
Sound(e) ==
  /\ pc[e] # "none" <=> e <= begun
  /\ old[e] # 0 => pc[e] # "none" /\ pc[old[e]] # "none" /\ for[old[e]] < for[e]
  /\ Built(e) => pc[e] # "none" /\ \A i \in Req : event[i] \in {"queued", "running"} => for[e] < i
  /\ pc[e] \in {"name", "drop", "call"} /\ ~Undoes(for[e]) /\ Awaited(for[e]) => Gold(e) \in images

\* The instances of a created stack have their image.
Referred ==
  stack = "complete" /\ type[sent] = "Create" =>
    ref \in images /\ ref \in Execution /\ pc[ref] # "none" /\ for[ref] = sent

Ordered == kind = "image" => (\A e \in Execution : Sound(e)) /\ Referred

\* In Node.js no answered request is worked on, no two invocations share a
\* container, and after the first call the container remembers a success unless a
\* call failed.
Contained ==
  InNode =>
    /\ \A i \in Req : answer[i] # "none" => event[i] = "over"
    /\ \A i, j \in Req : Running(i) /\ Running(j) /\ at[i] = at[j] => i = j
    /\ \A i \in Req : Running(i) /\ say[i] = "none" /\ step[i] > 1 =>
         i \in hurt \/ mem[at[i]] = "SUCCESS"

\* Why request i may be answered FAILED.
Cause(i) ==
  \/ i \in hurt
  \/ kind \in {"dwh", "grant"} /\ ~Undoes(i) /\ 1 \in done

\* Also what is about to be answered has its cause.
Caused ==
  \A i \in Req : (Running(i) /\ say[i] = "FAILED") \/ answer[i] = "FAILED" => Cause(i)

\* What there may be while e works: only what it has made, or is about to delete.
Leaves(e) ==
  CASE pc[e] = "delete" -> images \subseteq {old[e]} /\ old[e] = param
    [] pc[e] = "build"  -> images = {} /\ ~Undoes(for[e])
    [] pc[e] = "copy"   -> images \subseteq {Raw(e)} /\ ~Undoes(for[e])
    [] pc[e] = "name"   -> images \subseteq {Raw(e), Gold(e)} /\ ~Undoes(for[e])
    [] pc[e] = "drop"   -> images \subseteq {Raw(e), Gold(e)} /\ param = Gold(e) /\ ~Undoes(for[e])
    [] pc[e] = "call"   -> images \subseteq (IF Undoes(for[e]) THEN {} ELSE {param})
    [] OTHER            -> TRUE

\* As long as nothing is lost, each request has one automation, which answers it
\* unless it still works.
Single ==
  /\ \A e \in Execution : pc[e] # "none" =>
       /\ event[for[e]] = "over" /\ pc[e] # "aborted"
       /\ pc[e] # "over" => Awaited(for[e])
  /\ \A e, f \in Execution : pc[e] # "none" /\ pc[f] # "none" /\ for[e] = for[f] => e = f
  /\ \A i \in Req : ~Awaited(i) => event[i] = "over"

\* What there is when nothing works.
Rests ==
  /\ Idle => images \subseteq {param}
  /\ stack = "removed" => images = {}

Tidy ==
  kind = "image" /\ Undisturbed => Single /\ Rests /\ \A e \in Execution : Leaves(e)

IInv ==
  /\ TypeOK /\ Sequenced /\ Apart /\ Accounted /\ InPlace /\ Behind /\ Placed
  /\ Owned /\ Contained /\ Caused /\ Remembered /\ Ordered /\ Tidy

-----------------------------------------------------------------------------
(* Types                                                                    *)

\* The calls are numbered from one.
LEMMA CallNumbers ==
  /\ Call \subseteq Nat /\ \A k \in Kind : 1 .. Calls[k] \subseteq Call
  /\ \A k \in Kind : Calls[k] \in Nat /\ Calls[k] <= Attributes + 3
  BY ResourceAssumption DEF Call, Calls, Kind

\* A request is worth no more calls than there are.
LEMMA CallsBounded ==
  ASSUME TypeOK, NEW i \in Req
  PROVE  /\ CallsFor(i) \in Nat /\ CallsFor(i) <= Attributes + 3 /\ 1 .. CallsFor(i) \subseteq Call
         /\ kind \in Kind
  <1>1. kind \in Kind
    BY RequestAssumption DEF TypeOK, StackTypeOK
  <1>2. Calls[kind] \in Nat /\ Calls[kind] <= Attributes + 3 /\ 1 .. Calls[kind] \subseteq Call
    BY <1>1, CallNumbers
  <1> QED
    BY <1>1, <1>2, ResourceAssumption DEF CallsFor

\* What CloudFormation makes of an answer.
LEMMA AnswerType ==
  ASSUME StackTypeOK, NEW i \in Req, NEW status \in {"SUCCESS", "FAILED", "timeout"},
         NEW replaced, Answer(i, status, replaced)
  PROVE  /\ answer' \in [Req -> {"none", "SUCCESS", "FAILED", "timeout"}]
         /\ stack' \in {"absent", "busy", "complete", "cleanup", "failed", "removed"}
  BY DEF StackTypeOK, Answer, Outcome

\* The bound on the faults is kept.
LEMMA FaultType ==
  ASSUME StackTypeOK, Fault, kind' = kind
  PROVE  faults' \in 0 .. MaxFaults[kind']
  <1>1. MaxFaults[kind] \in Nat
    BY RequestAssumption DEF StackTypeOK
  <1>2. faults \in 0 .. MaxFaults[kind]
    BY DEF StackTypeOK
  <1> QED
    BY <1>1, <1>2 DEF Fault

\* What a container remembers is a status.
LEMMA RememberType ==
  ASSUME CustomTypeOK, NEW i \in Req, NEW status \in {"SUCCESS", "FAILED"}, Remember(i, status)
  PROVE  mem' \in [Container -> {"SUCCESS", "FAILED"}]
  BY DEF CustomTypeOK, Remember

\* The automations are numbered.
LEMMA ExecutionsNat == MaxExecutions \in Nat
  <1>1. "image" \in Kind
    BY DEF Kind
  <1> QED
    BY <1>1, RequestAssumption DEF MaxExecutions

\* Every step keeps the types of StackRequests.
LEMMA StackTypeStep ==
  ASSUME TypeOK, Apart, [Next]_vars
  PROVE  StackTypeOK'
  <1> USE RequestAssumption DEF TypeOK, StackTypeOK, Req
  <1>1. CASE UNCHANGED stackVars
    BY <1>1 DEF stackVars
  <1>2. ASSUME NEW t \in RequestType, Request(t) PROVE StackTypeOK'
    BY <1>2 DEF Request, NextTypes
  <1>3. ASSUME NEW i \in Req, TimeOut(i) PROVE StackTypeOK'
    BY <1>3, AnswerType DEF TimeOut, Awaited
  <1>4. ASSUME Gone PROVE StackTypeOK'
    BY <1>4 DEF Gone, StackGone
  <1>5. ASSUME NEW i \in Req, Start(i) PROVE StackTypeOK'
    BY <1>5 DEF Start, Begins, Places, InUse
  <1>6. ASSUME NEW i \in Req, CallFails(i) PROVE StackTypeOK'
    BY <1>6, FaultType DEF CallFails, Calling, Working, Advance
  <1>7. ASSUME NEW i \in Req, CallIgnored(i) PROVE StackTypeOK'
    BY <1>7, FaultType DEF CallIgnored, Calling, Working, Advance, Remember
  <1>8. ASSUME NEW i \in Req, Send(i) PROVE StackTypeOK'
    <2>1. say[i] \in {"SUCCESS", "FAILED"} /\ Answer(i, say[i], Replaces(i))
      BY <1>8 DEF Send, CustomTypeOK
    <2>2. event' \in [Req -> {"none", "queued", "running", "over"}]
      BY <1>8 DEF Send, Ends, Raises, Returns
    <2> QED
      BY <1>8, <2>1, <2>2, AnswerType DEF Send
  <1>9. ASSUME NEW i \in Req, SendFails(i) PROVE StackTypeOK'
    BY <1>9, FaultType DEF SendFails, Ends, Raises, Returns
  <1>10. ASSUME NEW i \in Req, Freeze(i) PROVE StackTypeOK'
    BY <1>10 DEF Freeze, Returns
  <1>11. ASSUME NEW i \in Req, Dies(i) PROVE StackTypeOK'
    BY <1>11, FaultType DEF Dies, Raises, Emptied
  <1>12. ASSUME NEW i \in Req, Invoke(i) PROVE StackTypeOK'
    BY <1>12 DEF Invoke, Begins
  <1>13. ASSUME NEW i \in Req, InvokerWorks(i) PROVE StackTypeOK'
    BY <1>13 DEF InvokerWorks, StartsAutomation, Returns
  <1>14. ASSUME NEW i \in Req, InvokerFails(i) PROVE StackTypeOK'
    BY <1>14, FaultType DEF InvokerFails, StartsAutomation, Raises
  <1>15. ASSUME NEW e \in Execution, DeleteOldImage(e) PROVE StackTypeOK'
    BY <1>15, FaultType DEF DeleteOldImage, Deletes, Ready, Goes, Apart
  <1>16. ASSUME NEW e \in Execution, DeleteUnencrypted(e) PROVE StackTypeOK'
    BY <1>16, FaultType DEF DeleteUnencrypted, Deletes, Ready, Goes, Apart
  <1>17. ASSUME NEW e \in Execution, CallbackStack(e) PROVE StackTypeOK'
    BY <1>17, AnswerType DEF CallbackStack, Ready, Goes, Awaited, Apart
  <1>18. ASSUME NEW e \in Execution, Abort(e) PROVE StackTypeOK'
    BY <1>18, FaultType DEF Abort, Goes, Apart
  <1> QED
    BY <1>1, <1>2, <1>3, <1>4, <1>5, <1>6, <1>7, <1>8, <1>9, <1>10, <1>11, <1>12, <1>13, <1>14, <1>15, <1>16, <1>17, <1>18
    DEF Next, Demand, CustomStep, AutomationStep, vars, CallWorks, Conclude, Recycle, Build,
        CreateEncryptedCopy, UpdateSSMParam

\* Every step keeps the types of CustomResource.
LEMMA CustomTypeStep ==
  ASSUME TypeOK, Placed, [Next]_vars
  PROVE  CustomTypeOK'
  <1> USE ResourceAssumption DEF TypeOK, CustomTypeOK
  <1>1. CASE UNCHANGED customVars
    BY <1>1 DEF customVars, work
  <1>2. ASSUME Gone PROVE CustomTypeOK'
    BY <1>2 DEF Gone, work
  <1>3. ASSUME NEW i \in Req, Start(i) PROVE CustomTypeOK'
    BY <1>3 DEF Start, Places, InUse, work
  <1>4. ASSUME NEW i \in Req, CallWorks(i) PROVE CustomTypeOK'
    BY <1>4, CallsBounded, RememberType DEF CallWorks, Calling, Working, Advance, work
  <1>5. ASSUME NEW i \in Req, CallFails(i) PROVE CustomTypeOK'
    BY <1>5, CallsBounded DEF CallFails, Calling, Working, Advance, work
  <1>6. ASSUME NEW i \in Req, CallIgnored(i) PROVE CustomTypeOK'
    BY <1>6, CallsBounded, RememberType DEF CallIgnored, Calling, Working, Advance, work
  <1>7. ASSUME NEW i \in Req, Conclude(i) PROVE CustomTypeOK'
    BY <1>7, RememberType DEF Conclude, Working, Placed, Running, work
  <1>8. ASSUME NEW i \in Req, Send(i) PROVE CustomTypeOK'
    BY <1>8 DEF Send, work
  <1>9. ASSUME NEW i \in Req, Dies(i) PROVE CustomTypeOK'
    BY <1>9 DEF Dies, Emptied, work
  <1>10. ASSUME NEW c \in Container, Recycle(c) PROVE CustomTypeOK'
    BY <1>10 DEF Recycle, Emptied, work
  <1> QED
    BY <1>1, <1>2, <1>3, <1>4, <1>5, <1>6, <1>7, <1>8, <1>9, <1>10
    DEF Next, CustomStep, vars, SendFails, Freeze, customVars

\* Every step keeps the types of GoldenImage.
LEMMA ImageTypeStep ==
  ASSUME TypeOK, Apart, [Next]_vars
  PROVE  ImageTypeOK'
  <1> USE ExecutionsNat DEF TypeOK, ImageTypeOK, Execution
  <1>1. CASE UNCHANGED imageVars
    BY <1>1 DEF imageVars, automation
  <1>2. ASSUME Gone PROVE ImageTypeOK'
    BY <1>2 DEF Gone, automation, Gold, Raw, Image
  <1>3. ASSUME NEW i \in Req, InvokerWorks(i) PROVE ImageTypeOK'
    BY <1>3 DEF InvokerWorks, StartsAutomation, automation, Gold, Raw, Image
  <1>4. ASSUME NEW i \in Req, InvokerFails(i) PROVE ImageTypeOK'
    <2>1. CASE StartsAutomation(i)
      BY <1>4, <2>1 DEF InvokerFails, StartsAutomation
    <2>2. CASE UNCHANGED automation
      BY <1>4, <2>2 DEF InvokerFails, automation
    <2> QED
      BY <1>4, <2>1, <2>2 DEF InvokerFails
  <1>5. ASSUME NEW e \in Execution, DeleteOldImage(e) PROVE ImageTypeOK'
    BY <1>5 DEF DeleteOldImage, Deletes, Ready, Goes, automation, Gold, Raw, Image
  <1>6. ASSUME NEW e \in Execution, Build(e) PROVE ImageTypeOK'
    BY <1>6 DEF Build, Goes, automation, Gold, Raw, Image
  <1>7. ASSUME NEW e \in Execution, CreateEncryptedCopy(e) PROVE ImageTypeOK'
    BY <1>7 DEF CreateEncryptedCopy, Goes, automation, Gold, Raw, Image
  <1>8. ASSUME NEW e \in Execution, UpdateSSMParam(e) PROVE ImageTypeOK'
    BY <1>8 DEF UpdateSSMParam, Ready, Goes, automation, Gold, Raw, Image
  <1>9. ASSUME NEW e \in Execution, DeleteUnencrypted(e) PROVE ImageTypeOK'
    BY <1>9 DEF DeleteUnencrypted, Deletes, Ready, Goes, automation, Gold, Raw, Image
  <1>10. ASSUME NEW e \in Execution, CallbackStack(e) PROVE ImageTypeOK'
    BY <1>10 DEF CallbackStack, Ready, Goes, automation, Gold, Raw, Image
  <1>11. ASSUME NEW e \in Execution, Abort(e) PROVE ImageTypeOK'
    BY <1>11 DEF Abort, Goes, automation, Gold, Raw, Image
  <1> QED
    BY <1>1, <1>2, <1>3, <1>4, <1>5, <1>6, <1>7, <1>8, <1>9, <1>10, <1>11
    DEF Next, AutomationStep, vars, Invoke, imageVars

-----------------------------------------------------------------------------
(* The protocol                                                             *)

\* An answer to a request that has an event keeps the requests in sequence.
LEMMA AnswerSequenced ==
  ASSUME TypeOK, Sequenced, NEW i \in Req, NEW status \in {"SUCCESS", "FAILED", "timeout"},
         NEW replaced, Answer(i, status, replaced), event[i] # "none",
         UNCHANGED <<sent, type>>,
         \A j \in Req : event'[j] = "none" <=> event[j] = "none"
  PROVE  Sequenced'
  <1>1. /\ i <= sent /\ sent \in Nat /\ Req \subseteq Nat
        /\ answer \in [Req -> {"none", "SUCCESS", "FAILED", "timeout"}]
    BY RequestAssumption DEF TypeOK, StackTypeOK, Sequenced, Req
  <1>2. CASE Awaited(i)
    <2>1. i = sent /\ answer' = [answer EXCEPT ![i] = status]
      BY <1>1, <1>2 DEF Sequenced, Answer, Awaited
    <2> QED
      BY <1>1, <2>1, <1>2 DEF Sequenced
  <1>3. CASE ~Awaited(i)
    <2>1. UNCHANGED <<answer, stack>>
      BY <1>3 DEF Answer
    <2> QED
      BY <2>1 DEF Sequenced
  <1> QED
    BY <1>2, <1>3

\* No request is sent before the last one is answered.
LEMMA SequencedStep ==
  ASSUME TypeOK, Apart, Sequenced, [Next]_vars
  PROVE  Sequenced'
  <1>0. /\ sent \in Nat
        /\ type \in [Req -> {"Create", "Update", "Delete", "Cleanup", "none"}]
        /\ answer \in [Req -> {"none", "SUCCESS", "FAILED", "timeout"}]
        /\ event \in [Req -> {"none", "queued", "running", "over"}]
        /\ Req \subseteq Nat /\ (sent < MaxRequests => sent + 1 \in Req)
    BY RequestAssumption DEF TypeOK, StackTypeOK, RequestType, Req
  <1> USE <1>0 DEF Sequenced
  <1>1. CASE UNCHANGED <<sent, type, answer, event, stack>>
    BY <1>1
  <1>2. ASSUME NEW t \in RequestType, Request(t) PROVE Sequenced'
    BY <1>2 DEF Request, NextTypes, Running
  <1>3. ASSUME NEW i \in Req, TimeOut(i) PROVE Sequenced'
    BY <1>3, AnswerSequenced DEF TimeOut, Running
  <1>4. ASSUME Gone PROVE Sequenced'
    BY <1>4 DEF Gone, StackGone, Running
  <1>5. ASSUME NEW i \in Req, Start(i) PROVE Sequenced'
    BY <1>5 DEF Start, Begins, Running
  <1>6. ASSUME NEW i \in Req, Send(i) PROVE Sequenced'
    <2>1. /\ Answer(i, say[i], Replaces(i)) /\ say[i] \in {"SUCCESS", "FAILED"}
          /\ UNCHANGED <<sent, type>> /\ event[i] # "none"
      BY <1>6 DEF Send, Running, TypeOK, CustomTypeOK
    <2>2. \A j \in Req : event'[j] = "none" <=> event[j] = "none"
      BY <1>6 DEF Send, Running, Ends, Raises, Returns
    <2> QED
      BY <2>1, <2>2, AnswerSequenced
  <1>7. ASSUME NEW i \in Req, SendFails(i) PROVE Sequenced'
    BY <1>7 DEF SendFails, Ends, Raises, Returns, Running
  <1>8. ASSUME NEW i \in Req, Freeze(i) PROVE Sequenced'
    BY <1>8 DEF Freeze, Returns, Running
  <1>9. ASSUME NEW i \in Req, Dies(i) PROVE Sequenced'
    BY <1>9 DEF Dies, Raises, Running
  <1>10. ASSUME NEW i \in Req, Invoke(i) PROVE Sequenced'
    BY <1>10 DEF Invoke, Begins, Running
  <1>11. ASSUME NEW i \in Req, InvokerWorks(i) PROVE Sequenced'
    BY <1>11 DEF InvokerWorks, Returns, Running
  <1>12. ASSUME NEW i \in Req, InvokerFails(i) PROVE Sequenced'
    BY <1>12 DEF InvokerFails, Raises, Running
  <1>13. ASSUME NEW e \in Execution, CallbackStack(e) PROVE Sequenced'
    <2>1. /\ Answer(for[e], "SUCCESS", ref # Gold(e)) /\ for[e] \in Req /\ event[for[e]] # "none"
          /\ UNCHANGED <<sent, type, event>>
      BY <1>13 DEF CallbackStack, Ready, Apart
    <2> QED
      BY <2>1, AnswerSequenced
  <1> QED
    BY <1>1, <1>2, <1>3, <1>4, <1>5, <1>6, <1>7, <1>8, <1>9, <1>10, <1>11, <1>12,
            <1>13
    DEF Next, Demand, CustomStep, AutomationStep, vars, CallWorks, CallFails,
        CallIgnored, Conclude, Recycle, DeleteOldImage, Build, CreateEncryptedCopy,
        UpdateSSMParam, DeleteUnencrypted, Abort, stackVars, customVars, imageVars,
        work, automation

\* Automations work on image requests only.
LEMMA ApartStep ==
  ASSUME TypeOK, Apart, Sequenced, [Next]_vars
  PROVE  Apart'
  <1>0. /\ pc \in [Execution -> {"none", "delete", "build", "copy", "name", "drop", "call",
                               "over", "aborted"}]
        /\ for \in [Execution -> {0} \cup Req]
        /\ say \in [Req -> {"none", "SUCCESS", "FAILED"}]
        /\ event \in [Req -> {"none", "queued", "running", "over"}]
    BY RequestAssumption DEF TypeOK, ImageTypeOK, CustomTypeOK, StackTypeOK
  <1> USE <1>0 DEF Apart
  <1>1. CASE UNCHANGED <<kind, pc, for, say, event>>
    BY <1>1
  <1>2. ASSUME NEW t \in RequestType, Request(t), UNCHANGED <<customVars, imageVars>>
        PROVE Apart'
    BY <1>2 DEF Request, NextTypes, stackVars, customVars, work, imageVars,
            automation
  <1>3. ASSUME Gone PROVE Apart'
    BY <1>3 DEF Gone, StackGone, stackVars, work
  <1>4. ASSUME NEW i \in Req, Send(i), UNCHANGED imageVars PROVE Apart'
    BY <1>4 DEF Send, Ends, Raises, Returns, stackVars, imageVars, automation
  <1>5. ASSUME NEW i \in Req, SendFails(i), UNCHANGED imageVars PROVE Apart'
    BY <1>5 DEF SendFails, Ends, Raises, Returns, stackVars, imageVars, automation
  <1>6. ASSUME NEW i \in Req, Freeze(i), UNCHANGED imageVars PROVE Apart'
    BY <1>6 DEF Freeze, Returns, stackVars, imageVars, automation
  <1>7. ASSUME NEW i \in Req, Dies(i), UNCHANGED imageVars PROVE Apart'
    BY <1>7 DEF Dies, Raises, stackVars, imageVars, automation
  <1>8. ASSUME NEW i \in Req, Invoke(i), UNCHANGED customVars PROVE Apart'
    BY <1>8 DEF Invoke, Begins, stackVars, imageVars, automation, customVars, work
  <1>9. ASSUME NEW i \in Req, Start(i), UNCHANGED imageVars PROVE Apart'
    BY <1>9 DEF Start, Begins, stackVars, imageVars, automation
  <1>10. ASSUME NEW i \in Req, CallFails(i), UNCHANGED imageVars PROVE Apart'
    BY <1>10 DEF CallFails, Working, stackVars, Calling, imageVars, automation
  <1>11. ASSUME NEW i \in Req, Conclude(i), UNCHANGED imageVars PROVE Apart'
    BY <1>11 DEF Conclude, Working, stackVars, imageVars, automation
  <1>12. ASSUME NEW i \in Req, InvokerWorks(i), UNCHANGED customVars PROVE Apart'
    BY <1>12
    DEF InvokerWorks, StartsAutomation, Returns, stackVars, Running, customVars,
        work
  <1>13. ASSUME NEW i \in Req, InvokerFails(i), UNCHANGED customVars PROVE Apart'
    <2>1. CASE StartsAutomation(i)
      BY <1>13, <2>1 DEF InvokerFails, StartsAutomation, Raises, Running, customVars, work
    <2>2. CASE UNCHANGED automation
      BY <1>13, <2>2 DEF InvokerFails, automation, Raises, Running, customVars, work
    <2> QED
      BY <1>13, <2>1, <2>2 DEF InvokerFails
  <1>14. ASSUME NEW e \in Execution, DeleteOldImage(e), UNCHANGED customVars PROVE Apart'
    BY <1>14 DEF DeleteOldImage, Ready, Goes, stackVars, customVars, work
  <1>15. ASSUME NEW e \in Execution, Build(e), UNCHANGED customVars PROVE Apart'
    BY <1>15 DEF Build, Goes, stackVars, customVars, work
  <1>16. ASSUME NEW e \in Execution, CreateEncryptedCopy(e), UNCHANGED customVars
        PROVE Apart'
    BY <1>16 DEF CreateEncryptedCopy, Goes, stackVars, customVars, work
  <1>17. ASSUME NEW e \in Execution, UpdateSSMParam(e), UNCHANGED customVars PROVE Apart'
    BY <1>17 DEF UpdateSSMParam, Ready, Goes, stackVars, customVars, work
  <1>18. ASSUME NEW e \in Execution, DeleteUnencrypted(e), UNCHANGED customVars
        PROVE Apart'
    BY <1>18 DEF DeleteUnencrypted, Ready, Goes, stackVars, customVars, work
  <1>19. ASSUME NEW e \in Execution, CallbackStack(e), UNCHANGED customVars PROVE Apart'
    BY <1>19 DEF CallbackStack, Ready, Goes, stackVars, customVars, work
  <1>20. ASSUME NEW e \in Execution, Abort(e), UNCHANGED customVars PROVE Apart'
    BY <1>20 DEF Abort, Goes, stackVars, customVars, work
  <1> QED
    BY <1>1, <1>2, <1>3, <1>4, <1>5, <1>6, <1>7, <1>8, <1>9, <1>10, <1>11, <1>12,
            <1>13, <1>14, <1>15, <1>16, <1>17, <1>18, <1>19, <1>20
    DEF Next, Demand, CustomStep, AutomationStep, vars, TimeOut, CallWorks,
        CallIgnored, Recycle, stackVars, customVars, imageVars, work, automation,
        StackGone, Request

\* An event that ends is answered, or its answer or an invocation was lost.
LEMMA AccountedStep ==
  ASSUME TypeOK, Apart, Sequenced, Accounted, [Next]_vars
  PROVE  Accounted'
  <1>0. /\ sent \in Nat
        /\ Req \subseteq Nat /\ (sent < MaxRequests => sent + 1 \in Req)
        /\ answer \in [Req -> {"none", "SUCCESS", "FAILED", "timeout"}]
        /\ event \in [Req -> {"none", "queued", "running", "over"}]
        /\ hurt \subseteq Req /\ lost \subseteq Req
        /\ say \in [Req -> {"none", "SUCCESS", "FAILED"}]
    BY RequestAssumption DEF TypeOK, StackTypeOK, Req, CustomTypeOK
  <1> USE <1>0 DEF Accounted
  <1>1. CASE UNCHANGED <<kind, answer, event, lost>>
    BY <1>1
  <1>2. ASSUME NEW i \in Req, TimeOut(i) PROVE Accounted'
    BY <1>2 DEF TimeOut, Answer, Awaited
  <1>3. ASSUME Gone PROVE Accounted'
    BY <1>3 DEF Gone, StackGone, Sequenced
  <1>4. ASSUME NEW i \in Req, Start(i) PROVE Accounted'
    BY <1>4 DEF Start, Begins
  <1>5. ASSUME NEW i \in Req, Send(i) PROVE Accounted'
    BY <1>5 DEF Send, Answer, Awaited, Ends, Raises, Returns
  <1>6. ASSUME NEW i \in Req, SendFails(i) PROVE Accounted'
    BY <1>6 DEF SendFails, Ends, Raises, Returns
  <1>7. ASSUME NEW i \in Req, Freeze(i) PROVE Accounted'
    BY <1>7 DEF Freeze, Returns
  <1>8. ASSUME NEW i \in Req, Dies(i) PROVE Accounted'
    BY <1>8 DEF Dies, Raises
  <1>9. ASSUME NEW i \in Req, Invoke(i) PROVE Accounted'
    BY <1>9 DEF Invoke
  <1>10. ASSUME NEW i \in Req, InvokerWorks(i) PROVE Accounted'
    BY <1>10 DEF InvokerWorks, Returns
  <1>11. ASSUME NEW i \in Req, InvokerFails(i) PROVE Accounted'
    BY <1>11 DEF InvokerFails, Raises
  <1>12. ASSUME NEW e \in Execution, CallbackStack(e) PROVE Accounted'
    BY <1>12 DEF CallbackStack, Ready, Answer, Awaited, Apart
  <1>13. ASSUME NEW e \in Execution, Abort(e) PROVE Accounted'
    BY <1>13 DEF Abort, Apart
  <1> QED
    BY <1>1, <1>2, <1>3, <1>4, <1>5, <1>6, <1>7, <1>8, <1>9, <1>10, <1>11, <1>12,
            <1>13
    DEF Next, Demand, CustomStep, AutomationStep, vars, Request, CallWorks,
        CallFails, CallIgnored, Conclude, Recycle, DeleteOldImage, Build,
        CreateEncryptedCopy, UpdateSSMParam, DeleteUnencrypted, stackVars,
        customVars, imageVars, work, automation

\* Invocations keep their containers.
LEMMA PlacedStep ==
  ASSUME TypeOK, Placed, [Next]_vars
  PROVE  Placed'
  <1>0. /\ event \in [Req -> {"none", "queued", "running", "over"}]
        /\ at \in [Req -> Container \cup {None}]
    BY RequestAssumption DEF TypeOK, StackTypeOK, CustomTypeOK
  <1> USE <1>0 DEF Placed, InNode, Running
  <1>1. CASE UNCHANGED <<kind, event, at>>
    BY <1>1
  <1>2. ASSUME Gone PROVE Placed'
    BY <1>2 DEF Gone, StackGone, customVars, work
  <1>3. ASSUME NEW i \in Req, Start(i), UNCHANGED imageVars PROVE Placed'
    BY <1>3 DEF Start, Begins, Places, customVars, work, imageVars, automation
  <1>4. ASSUME NEW i \in Req, Send(i), UNCHANGED imageVars PROVE Placed'
    BY <1>4 DEF Send, Ends, Raises, Returns, customVars, work, imageVars, automation
  <1>5. ASSUME NEW i \in Req, SendFails(i), UNCHANGED imageVars PROVE Placed'
    BY <1>5
    DEF SendFails, Ends, Raises, Returns, customVars, work, imageVars, automation
  <1>6. ASSUME NEW i \in Req, Freeze(i), UNCHANGED imageVars PROVE Placed'
    BY <1>6 DEF Freeze, Returns, customVars, work, imageVars, automation
  <1>7. ASSUME NEW i \in Req, Dies(i), UNCHANGED imageVars PROVE Placed'
    BY <1>7 DEF Dies, Raises, customVars, work, imageVars, automation
  <1>8. ASSUME NEW i \in Req, Invoke(i), UNCHANGED customVars PROVE Placed'
    BY <1>8 DEF Invoke, Begins, customVars, work
  <1>9. ASSUME NEW i \in Req, InvokerWorks(i), UNCHANGED customVars PROVE Placed'
    BY <1>9 DEF InvokerWorks, Returns, customVars, work
  <1>10. ASSUME NEW i \in Req, InvokerFails(i), UNCHANGED customVars PROVE Placed'
    BY <1>10 DEF InvokerFails, Raises, customVars, work
  <1>11. ASSUME NEW t \in RequestType, Request(t), UNCHANGED <<customVars, imageVars>>
        PROVE Placed'
    BY <1>11 DEF Request, customVars, work, imageVars, automation
  <1> QED
    BY <1>1, <1>2, <1>3, <1>4, <1>5, <1>6, <1>7, <1>8, <1>9, <1>10, <1>11
    DEF Next, Demand, CustomStep, AutomationStep, vars, TimeOut, CallWorks,
        CallFails, CallIgnored, Conclude, Recycle, DeleteOldImage, Build,
        CreateEncryptedCopy, UpdateSSMParam, DeleteUnencrypted, CallbackStack,
        Abort, stackVars, customVars, imageVars, work, automation

\* The function behind the resource never changes.
LEMMA KindFixed ==
  ASSUME [Next]_vars
  PROVE  kind' = kind /\ Promised' = Promised /\ Calls' = Calls
  <1>1. kind' = kind
    BY DEF Next, vars, stackVars, customVars, imageVars, Demand, Request, TimeOut, Gone, StackGone,
           CustomStep, Start, CallWorks, CallFails, CallIgnored, Conclude, Send, SendFails, Freeze,
           Dies, Recycle, Invoke, InvokerWorks, InvokerFails, AutomationStep, DeleteOldImage,
           Build, CreateEncryptedCopy, UpdateSSMParam, DeleteUnencrypted, CallbackStack, Abort
  <1> QED
    BY <1>1 DEF Promised, Calls

\* Only the functions in Python promise their calls.
LEMMA PromisedKinds ==
  ASSUME kind \in Kind, Promised # {}
  PROVE  /\ kind \in {"sql", "grant", "domain", "dwh"} /\ ~InNode
         /\ Promised \subseteq 1 .. Calls[kind]
  BY DEF Promised, Kind, InNode, Calls

-----------------------------------------------------------------------------
(* What is in place                                                         *)

\* Nothing takes back what was promised: an update answers SUCCESS on the strength
\* of the creation before it.
LEMMA InPlaceStep ==
  ASSUME TypeOK, Apart, Sequenced, Behind, InPlace, [Next]_vars
  PROVE  InPlace'
  <1>0. /\ kind \in Kind
        /\ sent \in Nat
        /\ Req \subseteq Nat /\ (sent < MaxRequests => sent + 1 \in Req)
        /\ answer \in [Req -> {"none", "SUCCESS", "FAILED", "timeout"}]
        /\ type \in [Req -> {"Create", "Update", "Delete", "Cleanup", "none"}]
        /\ say \in [Req -> {"none", "SUCCESS", "FAILED"}]
    BY RequestAssumption DEF TypeOK, StackTypeOK, Req, RequestType, CustomTypeOK
  <1> USE <1>0 DEF InPlace, Effective
  <1>k. kind' = kind /\ Promised' = Promised
    BY KindFixed
  <1>p. Promised # {} => kind \in {"sql", "grant", "domain", "dwh"}
    BY <1>0, PromisedKinds
  <1> USE <1>k
  <1>1. CASE UNCHANGED <<type, answer, stack, done>>
    BY <1>1, KindFixed
  <1>2. ASSUME NEW t \in RequestType, Request(t), UNCHANGED customVars PROVE InPlace'
    BY <1>2 DEF Request, NextTypes, Sequenced, RequestType, customVars, work
  <1>3. ASSUME NEW i \in Req, TimeOut(i), UNCHANGED customVars PROVE InPlace'
    BY <1>3 DEF TimeOut, Answer, Outcome, Awaited, customVars, work
  <1>4. ASSUME Gone PROVE InPlace'
    BY <1>4, <1>p DEF Gone, StackGone
  <1>5. ASSUME NEW i \in Req, CallWorks(i) PROVE InPlace'
    BY <1>5 DEF CallWorks, stackVars
  <1>6. ASSUME NEW i \in Req, Send(i) PROVE InPlace'
    BY <1>6 DEF Send, Answer, Outcome, Awaited, Behind, Undoes, Running
  <1>7. ASSUME NEW e \in Execution, CallbackStack(e), UNCHANGED customVars PROVE InPlace'
    BY <1>7, <1>p
    DEF CallbackStack, Ready, Answer, Outcome, Awaited, Apart, customVars, work
  <1> QED
    BY <1>1, <1>2, <1>3, <1>4, <1>5, <1>6, <1>7
    DEF Next, Demand, CustomStep, AutomationStep, vars, Start, CallFails,
        CallIgnored, Conclude, SendFails, Freeze, Dies, Recycle, Invoke,
        InvokerWorks, InvokerFails, DeleteOldImage, Build, CreateEncryptedCopy,
        UpdateSSMParam, DeleteUnencrypted, Abort, stackVars, customVars, imageVars,
        work, automation

\* A call that is behind an invocation is committed, or open in it and about to be.
LEMMA BehindStep ==
  ASSUME TypeOK, Apart, Sequenced, Placed, Behind, InPlace, [Next]_vars
  PROVE  Behind'
  <1>0. /\ kind \in Kind
        /\ sent \in Nat
        /\ Req \subseteq Nat /\ (sent < MaxRequests => sent + 1 \in Req)
        /\ event \in [Req -> {"none", "queued", "running", "over"}]
        /\ type \in [Req -> {"Create", "Update", "Delete", "Cleanup", "none"}]
        /\ say \in [Req -> {"none", "SUCCESS", "FAILED"}]
        /\ step \in [Req -> 1 .. Attributes + 4]
        /\ open \in [Req -> SUBSET Call] /\ done \subseteq Call
        /\ mem \in [Container -> {"SUCCESS", "FAILED"}]
    BY RequestAssumption DEF TypeOK, StackTypeOK, Req, RequestType, CustomTypeOK
  <1> USE <1>0 DEF Behind, Running, Undoes
  <1>k. kind' = kind /\ Promised' = Promised /\ (\A c : Commits(c)' = Commits(c))
    BY KindFixed DEF Commits
  <1>p. Promised # {} => /\ kind \in {"sql", "grant", "domain", "dwh"} /\ ~InNode
                         /\ Promised \subseteq 1 .. Calls[kind]
    BY <1>0, PromisedKinds
  <1> USE <1>k, <1>p
  <1>1. CASE UNCHANGED <<type, event, say, step, open, done>>
    BY <1>1
  <1>2. ASSUME NEW t \in RequestType, Request(t), UNCHANGED customVars PROVE Behind'
    BY <1>2 DEF Request, stackVars, customVars, work
  <1>3. ASSUME Gone PROVE Behind'
    BY <1>3 DEF Gone, StackGone, stackVars, customVars, work
  <1>4. ASSUME NEW i \in Req, Start(i) PROVE Behind'
    BY <1>4 DEF Start, Begins, stackVars, customVars, work
  <1>5. ASSUME NEW i \in Req, CallWorks(i) PROVE Behind'
    <2>1. UNCHANGED <<type, event, say>> /\ done \subseteq done'
      BY <1>5 DEF CallWorks, stackVars
    <2>2. \A j \in Req \ {i} : open'[j] = open[j] /\ step'[j] = step[j]
      BY <1>5 DEF CallWorks, Advance
    <2>3. say[i] = "none" /\ Running(i) /\ step'[i] = step[i] + 1
      BY <1>5 DEF CallWorks, Calling, Working, Advance
    <2>4. ASSUME NEW c \in Promised
          PROVE  /\ c < step'[i] => c \in done' \cup open'[i]
                 /\ c \in open'[i] => ~Commits(c) /\ step'[i] = c + 1
      <3>1. c \in 1 .. Calls[kind] /\ Calls[kind] \in Nat /\ step[i] \in Nat
        BY <1>0, CallNumbers DEF Calls
      <3>b. /\ c < step[i] => c \in done \cup open[i]
            /\ c \in open[i] => ~Commits(c) /\ step[i] = c + 1
        BY <2>3
      <3>i. c < step'[i] => c < step[i] \/ c = step[i]
        BY <2>3, <3>1
      <3>2. CASE Commits(step[i])
        <4>1. done' = done \cup open[i] \cup {step[i]} /\ open'[i] = {}
          BY <1>5, <3>2 DEF CallWorks
        <4> QED
          BY <3>b, <3>i, <4>1
      <3>3. CASE ~Commits(step[i])
        <4>1. done' = done /\ open'[i] = open[i] \cup {step[i]}
          BY <1>5, <3>3 DEF CallWorks
        <4>2. c \notin open[i] \/ c = step[i]
          BY <3>b, <3>1, <3>3 DEF Commits, Promised
        <4> QED
          BY <2>3, <3>b, <3>i, <3>3, <4>1, <4>2
      <3> QED
        BY <3>2, <3>3
    <2> QED
      BY <2>1, <2>2, <2>3, <2>4
  <1>6. ASSUME NEW i \in Req, CallFails(i) PROVE Behind'
    BY <1>6 DEF CallFails, Calling, Working, Advance, stackVars, customVars, work
  <1>7. ASSUME NEW i \in Req, CallIgnored(i) PROVE Behind'
    BY <1>7
    DEF CallIgnored, Calling, Working, Advance, Remember, stackVars, customVars,
        work
  <1>8. ASSUME NEW i \in Req, Conclude(i) PROVE Behind'
    <2>1. ASSUME ~Undoes(i), NEW c \in Promised PROVE c \in done
      <3>1. say[i] = "none" /\ Running(i) /\ step[i] > CallsFor(i)
        BY <1>8 DEF Conclude, Working
      <3>2. CASE type[i] = "Update" /\ kind \in {"sql", "dwh"}
        BY <3>2 DEF InPlace
      <3>3. CASE ~(type[i] = "Update" /\ kind \in {"sql", "dwh"})
        <4>1. CallsFor(i) = Calls[kind]
          BY <2>1, <3>3 DEF CallsFor
        <4>2. c \in 1 .. Calls[kind] /\ Calls[kind] \in Nat /\ step[i] \in Nat
          BY <1>0, CallNumbers DEF Calls
        <4>3. c \in done \/ (~Commits(c) /\ step[i] = c + 1)
          BY <3>1, <4>1, <4>2
        <4>4. c = Calls[kind] => Commits(c)
          BY DEF Commits, Promised, Calls
        <4> QED
          BY <3>1, <4>1, <4>2, <4>3, <4>4
      <3> QED
        BY <3>2, <3>3
    <2>2. /\ UNCHANGED <<type, event, done>> /\ say'[i] # "none"
          /\ \A j \in Req \ {i} : say'[j] = say[j] /\ open'[j] = open[j] /\ step'[j] = step[j]
      BY <1>8 DEF Conclude, Working, stackVars, Placed
    <2> QED
      BY <2>1, <2>2
  <1>9. ASSUME NEW i \in Req, Send(i) PROVE Behind'
    BY <1>9 DEF Send, Ends, Raises, Returns, stackVars, customVars, work
  <1>10. ASSUME NEW i \in Req, SendFails(i) PROVE Behind'
    BY <1>10 DEF SendFails, Ends, Raises, Returns, stackVars, customVars, work
  <1>11. ASSUME NEW i \in Req, Freeze(i) PROVE Behind'
    BY <1>11 DEF Freeze, Returns, stackVars, customVars, work
  <1>12. ASSUME NEW i \in Req, Dies(i) PROVE Behind'
    BY <1>12 DEF Dies, Raises, stackVars, customVars, work
  <1>13. ASSUME NEW i \in Req, Invoke(i), UNCHANGED customVars PROVE Behind'
    BY <1>13 DEF Invoke, Begins, stackVars, customVars, work
  <1>14. ASSUME NEW i \in Req, InvokerWorks(i), UNCHANGED customVars PROVE Behind'
    BY <1>14 DEF InvokerWorks, StartsAutomation, Returns, stackVars, customVars,
            work
  <1>15. ASSUME NEW i \in Req, InvokerFails(i), UNCHANGED customVars PROVE Behind'
    BY <1>15 DEF InvokerFails, StartsAutomation, Raises, stackVars, customVars, work
  <1> QED
    BY <1>1, <1>2, <1>3, <1>4, <1>5, <1>6, <1>7, <1>8, <1>9, <1>10, <1>11, <1>12,
            <1>13, <1>14, <1>15
    DEF Next, Demand, CustomStep, AutomationStep, vars, TimeOut, Recycle,
        DeleteOldImage, Build, CreateEncryptedCopy, UpdateSSMParam,
        DeleteUnencrypted, CallbackStack, Abort, stackVars, customVars, imageVars,
        work, automation

\* A request for which the warehouse or the grant is made.
Asks(i) == type[i] \notin {"Delete", "Cleanup"} /\ (type[i] = "Update" => kind = "grant")

\* The warehouse and the grant, call by call.
LEMMA AskingCalls ==
  ASSUME kind \in {"dwh", "grant"}, NEW i \in Req
  PROVE  /\ CallsFor(i) \in {0, 2, 4} /\ (CallsFor(i) > 0 <=> Asks(i))
         /\ 1 \in Promised
         /\ Refused(1) <=> 1 \in done
         /\ kind = "grant" => \A c \in Promised : Commits(c)
  BY DEF CallsFor, Calls, Undoes, Asks, Promised, Refused, Commits

\* The first call is refused once it is made, and waits while it is open.
LEMMA OwnedStep ==
  ASSUME TypeOK, Apart, Sequenced, Behind, InPlace, Owned, [Next]_vars
  PROVE  Owned'
  <1>0. /\ kind \in Kind
        /\ sent \in Nat
        /\ Req \subseteq Nat /\ (sent < MaxRequests => sent + 1 \in Req)
        /\ event \in [Req -> {"none", "queued", "running", "over"}]
        /\ type \in [Req -> {"Create", "Update", "Delete", "Cleanup", "none"}]
        /\ say \in [Req -> {"none", "SUCCESS", "FAILED"}]
        /\ step \in [Req -> 1 .. Attributes + 4]
        /\ open \in [Req -> SUBSET Call] /\ done \subseteq Call
        /\ answer \in [Req -> {"none", "SUCCESS", "FAILED", "timeout"}]
    BY RequestAssumption DEF TypeOK, StackTypeOK, Req, RequestType, CustomTypeOK
  <1> USE <1>0
  <1>k. kind' = kind /\ Promised' = Promised
    BY KindFixed
  <1> SUFFICES ASSUME kind \in {"dwh", "grant"} PROVE Owned'
    BY <1>k DEF Owned
  <1>a. \A j \in Req : CallsFor(j) > 0 <=> Asks(j)
    BY AskingCalls
  <1>b. \A j \in Req : (CallsFor(j) > 0)' <=> Asks(j)'
    BY <1>k, AskingCalls DEF CallsFor, Calls, Undoes, Asks
  <1>c. \A j \in Req : Effective(j) => 1 \in done
    BY AskingCalls DEF InPlace
  <1>d. ~InNode /\ kind # "image" /\ kind # "repository" /\ kind # "delivery"
    BY DEF InNode
  <1>e. \A j \in Req : Past(j) => 1 \in done \cup open[j]
    BY DEF Owned
  <1>f. \A i, j \in Req : Past(i) /\ Past(j) => i = j
    BY DEF Owned
  <1>g. \A i \in Req : Running(i) /\ say[i] = "SUCCESS" /\ CallsFor(i) > 0 => step[i] > 1
    BY DEF Owned
  <1>h. ASSUME \A j \in Req : Past(j)' => Past(j) /\ 1 \in done' \cup open'[j],
               \A j \in Req : (Running(j) /\ say[j] = "SUCCESS" /\ CallsFor(j) > 0)' => step'[j] > 1
        PROVE  Owned'
    BY <1>f, <1>h DEF Owned
  <1> USE <1>k, <1>a, <1>b, <1>c, <1>d, <1>e, <1>g
  <1>1. CASE UNCHANGED <<type, event, say, step, open, done, answer>>
    BY <1>1, <1>h DEF Past, Asks, Effective, Running
  <1>2. ASSUME NEW t \in RequestType, Request(t), UNCHANGED customVars PROVE Owned'
    <2>1. \A j \in Req : Past(j)' => Past(j) /\ 1 \in done' \cup open'[j]
      BY <1>2, AskingCalls DEF Request, Sequenced, Past, Asks, Effective, Running,
              Undoes, stackVars, customVars, work
    <2>2. \A j \in Req : (Running(j) /\ say[j] = "SUCCESS" /\ CallsFor(j) > 0)' => step'[j] > 1
      BY <1>2 DEF Request, Sequenced, Asks, Running, stackVars, customVars, work
    <2> QED
      BY <2>1, <2>2, <1>h
  <1>3. ASSUME NEW i \in Req, TimeOut(i), UNCHANGED customVars PROVE Owned'
    <2>1. \A j \in Req : Past(j)' => Past(j) /\ 1 \in done' \cup open'[j]
      BY <1>3, AskingCalls DEF TimeOut, Answer, Awaited, Past, Asks, Effective,
              Running, Undoes, stackVars, customVars, work
    <2>2. \A j \in Req : (Running(j) /\ say[j] = "SUCCESS" /\ CallsFor(j) > 0)' => step'[j] > 1
      BY <1>3 DEF TimeOut, Answer, Awaited, Asks, Running, stackVars, customVars,
              work
    <2> QED
      BY <2>1, <2>2, <1>h
  <1>4. ASSUME Gone PROVE Owned'
    <2>1. \A j \in Req : Past(j)' => Past(j) /\ 1 \in done' \cup open'[j]
      BY <1>4, AskingCalls DEF Gone, StackGone, Past, Asks, Effective, Running,
              Undoes, stackVars, customVars, work
    <2>2. \A j \in Req : (Running(j) /\ say[j] = "SUCCESS" /\ CallsFor(j) > 0)' => step'[j] > 1
      BY <1>4 DEF Gone, StackGone, Asks, Running, stackVars, customVars, work
    <2> QED
      BY <2>1, <2>2, <1>h
  <1>5. ASSUME NEW i \in Req, Start(i) PROVE Owned'
    <2>1. \A j \in Req : Past(j)' => Past(j) /\ 1 \in done' \cup open'[j]
      BY <1>5, AskingCalls DEF Start, Begins, Past, Asks, Effective, Running, Undoes,
              stackVars, customVars, work
    <2>2. \A j \in Req : (Running(j) /\ say[j] = "SUCCESS" /\ CallsFor(j) > 0)' => step'[j] > 1
      BY <1>5 DEF Start, Begins, Asks, Running, stackVars, customVars, work
    <2> QED
      BY <2>1, <2>2, <1>h
  <1>6. ASSUME NEW i \in Req, CallWorks(i) PROVE Owned'
    <2>0. done \subseteq done' /\ \A j \in Req \ {i} : open'[j] = open[j]
      BY <1>6 DEF CallWorks
    <2>1. /\ UNCHANGED <<type, event, say, answer>>
          /\ say[i] = "none" /\ Running(i) /\ step[i] <= CallsFor(i) /\ step[i] \in Nat \ {0}
          /\ step' = [step EXCEPT ![i] = step[i] + 1]
      BY <1>6 DEF CallWorks, Calling, Working, Advance, stackVars
    <2>2. CallsFor(i) > 0 /\ CallsFor(i) \in Nat
      BY <2>1, AskingCalls
    <2>3. \A j \in Req \ {i} : Past(j)' => Past(j)
      BY <2>1 DEF Past, Asks, Effective, Running
    <2>4. \A j \in Req : (Running(j) /\ say[j] = "SUCCESS" /\ CallsFor(j) > 0)' => step'[j] > 1
      BY <2>1 DEF Asks, Running
    <2>5. CASE step[i] = 1
      <3>1. 1 \notin done /\ \A j \in Req \ {i} : 1 \notin open[j]
        BY <1>6, <2>5, AskingCalls DEF CallWorks
      <3>2. \A j \in Req \ {i} : ~Past(j)'
        BY <2>3, <3>1
      <3>3. 1 \in done' \cup open'[i]
        BY <1>6, <2>5 DEF CallWorks
      <3> QED
        BY <2>4, <3>2, <3>3 DEF Owned
    <2>6. CASE step[i] # 1
      <3>1. Past(i)
        BY <2>1, <2>2, <2>6 DEF Past
      <3>2. 1 \in done' \cup open'[i]
        BY <1>6, <2>0, <3>1 DEF CallWorks
      <3> QED
        BY <1>h, <2>0, <2>1, <2>3, <2>4, <3>1, <3>2
    <2> QED
      BY <2>5, <2>6
  <1>7. ASSUME NEW i \in Req, CallFails(i) PROVE Owned'
    <2>1. \A j \in Req : Past(j)' => Past(j) /\ 1 \in done' \cup open'[j]
      BY <1>7, AskingCalls DEF CallFails, Calling, Working, Past, Asks, Effective,
              Running, Undoes, stackVars, customVars, work
    <2>2. \A j \in Req : (Running(j) /\ say[j] = "SUCCESS" /\ CallsFor(j) > 0)' => step'[j] > 1
      BY <1>7 DEF CallFails, Calling, Working, Asks, Running, stackVars, customVars,
              work
    <2> QED
      BY <2>1, <2>2, <1>h
  <1>8. ASSUME NEW i \in Req, Conclude(i) PROVE Owned'
    <2>1. /\ UNCHANGED <<type, event, answer, step, done>>
          /\ say[i] = "none" /\ Running(i) /\ step[i] > CallsFor(i) /\ step[i] \in Nat
          /\ \A j \in Req \ {i} : open'[j] = open[j] /\ say'[j] = say[j]
      BY <1>8 DEF Conclude, Working, stackVars
    <2>2. CallsFor(i) \in {0, 2, 4}
      BY AskingCalls
    <2>3. 1 \in open[i] => CallsFor(i) = 0
      BY <2>1, <2>2, AskingCalls DEF Behind
    <2>4. \A j \in Req : Past(j)' => Past(j)
      BY <2>1 DEF Past, Asks, Effective, Running
    <2>5. Past(i) => 1 \in done
      BY <2>2, <2>3 DEF Past
    <2>6. \A j \in Req : (Running(j) /\ say[j] = "SUCCESS" /\ CallsFor(j) > 0)' => step'[j] > 1
      BY <2>1, <2>2 DEF Asks, Running
    <2> QED
      BY <1>h, <2>1, <2>4, <2>5, <2>6
  <1>9. ASSUME NEW i \in Req, Send(i) PROVE Owned'
    <2>1. \A j \in Req : Past(j)' => Past(j) /\ 1 \in done' \cup open'[j]
      BY <1>9, AskingCalls DEF Send, Answer, Awaited, Ends, Raises, Returns, Behind,
              Past, Asks, Effective, Running, Undoes, stackVars, customVars, work
    <2>2. \A j \in Req : (Running(j) /\ say[j] = "SUCCESS" /\ CallsFor(j) > 0)' => step'[j] > 1
      BY <1>9 DEF Send, Answer, Awaited, Ends, Raises, Returns, Behind, Asks,
              Running, stackVars, customVars, work
    <2> QED
      BY <2>1, <2>2, <1>h
  <1>10. ASSUME NEW i \in Req, SendFails(i) PROVE Owned'
    <2>1. \A j \in Req : Past(j)' => Past(j) /\ 1 \in done' \cup open'[j]
      BY <1>10, AskingCalls DEF SendFails, Ends, Raises, Returns, Past, Asks,
              Effective, Running, Undoes, stackVars, customVars, work
    <2>2. \A j \in Req : (Running(j) /\ say[j] = "SUCCESS" /\ CallsFor(j) > 0)' => step'[j] > 1
      BY <1>10 DEF SendFails, Ends, Raises, Returns, Asks, Running, stackVars,
              customVars, work
    <2> QED
      BY <2>1, <2>2, <1>h
  <1>11. ASSUME NEW i \in Req, Freeze(i) PROVE Owned'
    <2>1. \A j \in Req : Past(j)' => Past(j) /\ 1 \in done' \cup open'[j]
      BY <1>11, AskingCalls DEF Freeze, Returns, Past, Asks, Effective, Running,
              Undoes, stackVars, customVars, work
    <2>2. \A j \in Req : (Running(j) /\ say[j] = "SUCCESS" /\ CallsFor(j) > 0)' => step'[j] > 1
      BY <1>11 DEF Freeze, Returns, Asks, Running, stackVars, customVars, work
    <2> QED
      BY <2>1, <2>2, <1>h
  <1>12. ASSUME NEW i \in Req, Dies(i) PROVE Owned'
    <2>1. \A j \in Req : Past(j)' => Past(j) /\ 1 \in done' \cup open'[j]
      BY <1>12, AskingCalls DEF Dies, Raises, Past, Asks, Effective, Running, Undoes,
              stackVars, customVars, work
    <2>2. \A j \in Req : (Running(j) /\ say[j] = "SUCCESS" /\ CallsFor(j) > 0)' => step'[j] > 1
      BY <1>12 DEF Dies, Raises, Asks, Running, stackVars, customVars, work
    <2> QED
      BY <2>1, <2>2, <1>h
  <1>13. ASSUME NEW i \in Req, Invoke(i), UNCHANGED customVars PROVE Owned'
    <2>1. \A j \in Req : Past(j)' => Past(j) /\ 1 \in done' \cup open'[j]
      BY <1>13, AskingCalls DEF Invoke, Past, Asks, Effective, Running, Undoes,
              stackVars, customVars, work
    <2>2. \A j \in Req : (Running(j) /\ say[j] = "SUCCESS" /\ CallsFor(j) > 0)' => step'[j] > 1
      BY <1>13 DEF Invoke, Asks, Running, stackVars, customVars, work
    <2> QED
      BY <2>1, <2>2, <1>h
  <1>14. ASSUME NEW i \in Req, InvokerWorks(i), UNCHANGED customVars PROVE Owned'
    <2>1. \A j \in Req : Past(j)' => Past(j) /\ 1 \in done' \cup open'[j]
      BY <1>14, AskingCalls DEF InvokerWorks, Returns, Past, Asks, Effective, Running,
              Undoes, stackVars, customVars, work
    <2>2. \A j \in Req : (Running(j) /\ say[j] = "SUCCESS" /\ CallsFor(j) > 0)' => step'[j] > 1
      BY <1>14 DEF InvokerWorks, Returns, Asks, Running, stackVars, customVars, work
    <2> QED
      BY <2>1, <2>2, <1>h
  <1>15. ASSUME NEW i \in Req, InvokerFails(i), UNCHANGED customVars PROVE Owned'
    <2>1. \A j \in Req : Past(j)' => Past(j) /\ 1 \in done' \cup open'[j]
      BY <1>15, AskingCalls DEF InvokerFails, Raises, Past, Asks, Effective, Running,
              Undoes, stackVars, customVars, work
    <2>2. \A j \in Req : (Running(j) /\ say[j] = "SUCCESS" /\ CallsFor(j) > 0)' => step'[j] > 1
      BY <1>15 DEF InvokerFails, Raises, Asks, Running, stackVars, customVars, work
    <2> QED
      BY <2>1, <2>2, <1>h
  <1>16. ASSUME NEW e \in Execution, CallbackStack(e), UNCHANGED customVars PROVE Owned'
    <2>1. \A j \in Req : Past(j)' => Past(j) /\ 1 \in done' \cup open'[j]
      BY <1>16, AskingCalls DEF CallbackStack, Ready, Answer, Awaited, Apart, Past,
              Asks, Effective, Running, Undoes, stackVars, customVars, work
    <2>2. \A j \in Req : (Running(j) /\ say[j] = "SUCCESS" /\ CallsFor(j) > 0)' => step'[j] > 1
      BY <1>16 DEF CallbackStack, Ready, Answer, Awaited, Apart, Asks, Running,
              stackVars, customVars, work
    <2> QED
      BY <2>1, <2>2, <1>h
  <1> QED
    BY <1>1, <1>2, <1>3, <1>4, <1>5, <1>6, <1>7, <1>8, <1>9, <1>10, <1>11, <1>12,
            <1>13, <1>14, <1>15, <1>16
    DEF Next, Demand, CustomStep, AutomationStep, vars, CallIgnored, Recycle,
        DeleteOldImage, Build, CreateEncryptedCopy, UpdateSSMParam,
        DeleteUnencrypted, Abort, stackVars, customVars, imageVars, work,
        automation, CallIgnored

\* Only the invocation in it changes what a container remembers.
LEMMA ContainedStep ==
  ASSUME TypeOK, Apart, Placed, Sequenced, Contained, [Next]_vars
  PROVE  Contained'
  <1>0. /\ sent \in Nat
        /\ Req \subseteq Nat /\ (sent < MaxRequests => sent + 1 \in Req)
        /\ event \in [Req -> {"none", "queued", "running", "over"}]
        /\ type \in [Req -> {"Create", "Update", "Delete", "Cleanup", "none"}]
        /\ say \in [Req -> {"none", "SUCCESS", "FAILED"}]
        /\ step \in [Req -> 1 .. Attributes + 4]
        /\ answer \in [Req -> {"none", "SUCCESS", "FAILED", "timeout"}]
        /\ at \in [Req -> Container \cup {None}]
        /\ mem \in [Container -> {"SUCCESS", "FAILED"}]
    BY RequestAssumption DEF TypeOK, StackTypeOK, Req, RequestType, CustomTypeOK
  <1> USE <1>0 DEF Contained, Running
  <1>k. kind' = kind /\ (InNode' <=> InNode)
    BY KindFixed DEF InNode
  <1> SUFFICES ASSUME InNode PROVE Contained'
    BY <1>k DEF Contained
  <1>a. kind \in {"delivery", "repository"} /\ kind # "image" /\ \A e \in Execution : pc[e] = "none"
    BY DEF InNode, Apart
  <1>b. \A i \in Req : Running(i) => at[i] \in Container
    BY DEF Placed
  <1>r. \A c : ~Refused(c)
    BY <1>a DEF Refused
  <1> USE <1>k, <1>a, <1>b
  <1>1. CASE UNCHANGED <<type, event, say, step, at, mem, answer, hurt>>
    BY <1>1
  <1>2. ASSUME NEW t \in RequestType, Request(t), UNCHANGED customVars PROVE Contained'
    BY <1>2 DEF Request, stackVars, customVars, work, Sequenced
  <1>3. ASSUME NEW i \in Req, TimeOut(i), UNCHANGED customVars PROVE Contained'
    BY <1>3 DEF TimeOut, Answer, Awaited, stackVars, customVars, work
  <1>4. ASSUME Gone PROVE Contained'
    BY <1>4 DEF Gone, StackGone, stackVars, customVars, work, Sequenced
  <1>5. ASSUME NEW i \in Req, Start(i) PROVE Contained'
    BY <1>5 DEF Start, Begins, Places, InUse, stackVars, customVars, work
  <1>6. ASSUME NEW i \in Req, CallWorks(i) PROVE Contained'
    BY <1>6
    DEF CallWorks, Calling, Working, Advance, Remember, stackVars, customVars, work
  <1>7. ASSUME NEW i \in Req, CallFails(i) PROVE Contained'
    BY <1>7, <1>r DEF CallFails, Calling, Working, Advance, stackVars, customVars,
            work
  <1>8. ASSUME NEW i \in Req, CallIgnored(i) PROVE Contained'
    BY <1>8
    DEF CallIgnored, Calling, Working, Advance, Remember, stackVars, customVars,
        work
  <1>9. ASSUME NEW i \in Req, Conclude(i) PROVE Contained'
    BY <1>9 DEF Conclude, Working, Remember, stackVars, customVars, work
  <1>10. ASSUME NEW i \in Req, Send(i) PROVE Contained'
    BY <1>10
    DEF Send, Answer, Awaited, Ends, Raises, Returns, stackVars, customVars, work
  <1>11. ASSUME NEW i \in Req, SendFails(i) PROVE Contained'
    BY <1>11 DEF SendFails, Ends, Raises, Returns, stackVars, customVars, work
  <1>12. ASSUME NEW i \in Req, Freeze(i) PROVE Contained'
    BY <1>12 DEF Freeze, Returns, stackVars, customVars, work
  <1>13. ASSUME NEW i \in Req, Dies(i) PROVE Contained'
    BY <1>13 DEF Dies, Raises, Emptied, stackVars, customVars, work
  <1>14. ASSUME NEW c \in Container, Recycle(c) PROVE Contained'
    BY <1>14 DEF Recycle, Emptied, stackVars, customVars, work, InUse
  <1>15. ASSUME NEW i \in Req, Invoke(i), UNCHANGED customVars PROVE Contained'
    BY <1>15 DEF Invoke, Begins, stackVars, customVars, work
  <1>16. ASSUME NEW i \in Req, InvokerWorks(i), UNCHANGED customVars PROVE Contained'
    BY <1>16 DEF InvokerWorks, Returns, stackVars, customVars, work
  <1>17. ASSUME NEW i \in Req, InvokerFails(i), UNCHANGED customVars PROVE Contained'
    BY <1>17 DEF InvokerFails, Raises, stackVars, customVars, work
  <1>18. ASSUME NEW e \in Execution, DeleteOldImage(e), UNCHANGED customVars
        PROVE Contained'
    BY <1>18 DEF DeleteOldImage, Ready, stackVars, customVars, work
  <1>19. ASSUME NEW e \in Execution, DeleteUnencrypted(e), UNCHANGED customVars
        PROVE Contained'
    BY <1>19 DEF DeleteUnencrypted, Ready, stackVars, customVars, work
  <1>20. ASSUME NEW e \in Execution, CallbackStack(e), UNCHANGED customVars
        PROVE Contained'
    BY <1>20 DEF CallbackStack, Ready, Answer, Awaited, stackVars, customVars, work
  <1> QED
    BY <1>1, <1>2, <1>3, <1>4, <1>5, <1>6, <1>7, <1>8, <1>9, <1>10, <1>11, <1>12,
            <1>13, <1>14, <1>15, <1>16, <1>17, <1>18, <1>19, <1>20
    DEF Next, Demand, CustomStep, AutomationStep, vars, Build, CreateEncryptedCopy,
        UpdateSSMParam, Abort, stackVars, customVars, imageVars, work, automation

\* A status of FAILED comes from a call.
LEMMA CausedStep ==
  ASSUME TypeOK, Apart, Placed, Sequenced, Behind, Owned, Contained, Caused, [Next]_vars
  PROVE  Caused'
  <1>0. /\ sent \in Nat
        /\ Req \subseteq Nat /\ (sent < MaxRequests => sent + 1 \in Req)
        /\ event \in [Req -> {"none", "queued", "running", "over"}]
        /\ type \in [Req -> {"Create", "Update", "Delete", "Cleanup", "none"}]
        /\ say \in [Req -> {"none", "SUCCESS", "FAILED"}]
        /\ step \in [Req -> 1 .. Attributes + 4]
        /\ answer \in [Req -> {"none", "SUCCESS", "FAILED", "timeout"}]
        /\ at \in [Req -> Container \cup {None}]
        /\ mem \in [Container -> {"SUCCESS", "FAILED"}]
        /\ hurt \subseteq Req /\ lost \subseteq Req
    BY RequestAssumption DEF TypeOK, StackTypeOK, Req, RequestType, CustomTypeOK
  <1> USE <1>0 DEF Caused, Cause, Running
  <1>k. kind' = kind
    BY KindFixed
  <1> USE <1>k
  <1>1. CASE UNCHANGED <<type, event, say, answer, hurt, done>>
    BY <1>1 DEF Undoes
  <1>2. ASSUME NEW t \in RequestType, Request(t), UNCHANGED customVars PROVE Caused'
    BY <1>2 DEF Request, stackVars, customVars, work, Undoes, Sequenced
  <1>3. ASSUME NEW i \in Req, TimeOut(i), UNCHANGED customVars PROVE Caused'
    BY <1>3 DEF TimeOut, Answer, Awaited, stackVars, customVars, work, Undoes
  <1>4. ASSUME Gone PROVE Caused'
    BY <1>4 DEF Gone, StackGone, stackVars, customVars, work, Undoes, Sequenced
  <1>5. ASSUME NEW i \in Req, Start(i) PROVE Caused'
    BY <1>5 DEF Start, Begins, stackVars, customVars, work, Undoes
  <1>6. ASSUME NEW i \in Req, CallWorks(i) PROVE Caused'
    BY <1>6
    DEF CallWorks, Calling, Working, Advance, stackVars, customVars, work, Undoes
  <1>7. ASSUME NEW i \in Req, CallFails(i) PROVE Caused'
    <2>1. CASE Fault /\ hurt' = hurt \cup {i}
      BY <1>7, <2>1 DEF CallFails, Calling, Working, Advance, stackVars, customVars, work, Undoes
    <2>2. CASE Refused(step[i]) /\ UNCHANGED <<faults, hurt>>
      <3>1. kind \in {"dwh", "grant"} /\ step[i] \in done
        BY <2>2 DEF Refused
      <3>2. CallsFor(i) > 0 /\ Running(i) /\ say[i] = "none" /\ step[i] \in Nat \ {0}
        BY <1>7, <3>1, AskingCalls DEF CallFails, Calling, Working
      <3>3. ~Undoes(i)
        BY <3>1, <3>2, AskingCalls DEF Asks, Undoes
      <3>4. kind = "dwh" /\ step[i] # 1 => 1 \in done
        <4>1. kind = "dwh" => step[i] \in {1, 3}
          BY <2>2 DEF Refused
        <4>2. step[i] = 3 => 1 \in done \cup open[i] /\ 1 \notin open[i]
          BY <3>1, <3>2, AskingCalls DEF Behind
        <4> QED
          BY <4>1, <4>2
      <3>5. kind = "grant" /\ step[i] # 1 => 1 \in done \cup open[i]
        BY <3>1, <3>2 DEF Owned, Past
      <3>6. kind = "grant" => 1 \notin open[i]
        BY <3>2, AskingCalls DEF Behind
      <3>7. 1 \in done
        BY <3>1, <3>4, <3>5, <3>6
      <3> QED
        BY <1>7, <2>2, <3>1, <3>3, <3>7 DEF CallFails, stackVars, Undoes
    <2> QED
      BY <1>7, <2>1, <2>2 DEF CallFails
  <1>8. ASSUME NEW i \in Req, CallIgnored(i) PROVE Caused'
    BY <1>8
    DEF CallIgnored, Calling, Working, Advance, stackVars, customVars, work, Undoes
  <1>9. ASSUME NEW i \in Req, Conclude(i) PROVE Caused'
    <2>1. ASSUME say'[i] = "FAILED" PROVE i \in hurt
      <3>1. /\ InNode /\ ~Undoes(i) /\ mem[at[i]] = "FAILED" /\ say[i] = "none"
            /\ Running(i) /\ step[i] > CallsFor(i)
        BY <1>9, <2>1 DEF Conclude, Working
      <3>2. CallsFor(i) \in Nat \ {0}
        BY <3>1, ResourceAssumption DEF InNode, CallsFor, Calls, Undoes
      <3> QED
        BY <3>1, <3>2 DEF Contained
    <2>2. UNCHANGED <<type, event, answer, hurt, done>> /\ \A j \in Req \ {i} : say'[j] = say[j]
      BY <1>9 DEF Conclude, stackVars
    <2> QED
      BY <2>1, <2>2 DEF Undoes
  <1>10. ASSUME NEW i \in Req, Send(i) PROVE Caused'
    BY <1>10
    DEF Send, Answer, Awaited, Ends, Raises, Returns, stackVars, customVars, work,
        Undoes
  <1>11. ASSUME NEW i \in Req, SendFails(i) PROVE Caused'
    BY <1>11 DEF SendFails, Ends, Raises, Returns, stackVars, customVars, work,
            Undoes
  <1>12. ASSUME NEW i \in Req, Freeze(i) PROVE Caused'
    BY <1>12 DEF Freeze, Returns, stackVars, customVars, work, Undoes
  <1>13. ASSUME NEW i \in Req, Dies(i) PROVE Caused'
    BY <1>13 DEF Dies, Raises, stackVars, customVars, work, Undoes
  <1>14. ASSUME NEW i \in Req, Invoke(i), UNCHANGED customVars PROVE Caused'
    BY <1>14 DEF Invoke, Begins, stackVars, customVars, work, Undoes, Apart
  <1>15. ASSUME NEW i \in Req, InvokerWorks(i), UNCHANGED customVars PROVE Caused'
    BY <1>15 DEF InvokerWorks, Returns, stackVars, customVars, work, Undoes
  <1>16. ASSUME NEW i \in Req, InvokerFails(i), UNCHANGED customVars PROVE Caused'
    BY <1>16 DEF InvokerFails, Raises, stackVars, customVars, work, Undoes
  <1>17. ASSUME NEW e \in Execution, DeleteOldImage(e), UNCHANGED customVars
        PROVE Caused'
    BY <1>17 DEF DeleteOldImage, Deletes, Ready, stackVars, customVars, work, Undoes
  <1>18. ASSUME NEW e \in Execution, DeleteUnencrypted(e), UNCHANGED customVars
        PROVE Caused'
    BY <1>18 DEF DeleteUnencrypted, Deletes, Ready, stackVars, customVars, work,
            Undoes
  <1>19. ASSUME NEW e \in Execution, CallbackStack(e), UNCHANGED customVars PROVE Caused'
    BY <1>19
    DEF CallbackStack, Ready, Answer, Awaited, stackVars, customVars, work, Undoes
  <1> QED
    BY <1>1, <1>2, <1>3, <1>4, <1>5, <1>6, <1>7, <1>8, <1>9, <1>10, <1>11, <1>12,
            <1>13, <1>14, <1>15, <1>16, <1>17, <1>18, <1>19
    DEF Next, Demand, CustomStep, AutomationStep, vars, Recycle, Build,
        CreateEncryptedCopy, UpdateSSMParam, Abort, stackVars, customVars,
        imageVars, work, automation

\* A container that remembers a SUCCESS had an update that worked, or a deletion
\* after which the stack is not completed again.
LEMMA RememberedStep ==
  ASSUME TypeOK, Apart, Placed, Sequenced, Contained, Remembered, [Next]_vars
  PROVE  Remembered'
  <1>0. /\ sent \in Nat
        /\ Req \subseteq Nat /\ (sent < MaxRequests => sent + 1 \in Req)
        /\ event \in [Req -> {"none", "queued", "running", "over"}]
        /\ type \in [Req -> {"Create", "Update", "Delete", "Cleanup", "none"}]
        /\ say \in [Req -> {"none", "SUCCESS", "FAILED"}]
        /\ answer \in [Req -> {"none", "SUCCESS", "FAILED", "timeout"}]
        /\ at \in [Req -> Container \cup {None}]
        /\ mem \in [Container -> {"SUCCESS", "FAILED"}]
        /\ done \subseteq Call
    BY RequestAssumption DEF TypeOK, StackTypeOK, Req, RequestType, CustomTypeOK
  <1> USE <1>0 DEF Remembered, Running, Undoes
  <1>k. kind' = kind
    BY KindFixed
  <1> SUFFICES ASSUME kind = "delivery" PROVE Remembered'
    BY <1>k DEF Remembered
  <1>a. InNode /\ \A e \in Execution : pc[e] = "none"
    BY DEF InNode, Apart
  <1>b. \A i \in Req : Running(i) => at[i] \in Container
    BY <1>a DEF Placed
  <1>c. \A i \in Req : answer[i] # "none" => event[i] = "over"
    BY <1>a DEF Contained
  <1>d. \A i \in Req : Running(i) => i = sent /\ sent > 0 /\ stack = "busy" /\ answer[i] = "none"
    BY <1>0, <1>c DEF Sequenced, Running, Req
  <1> USE <1>k, <1>a, <1>b, <1>c
  <1>1. CASE UNCHANGED <<type, event, say, stack, done, mem, sent>>
    BY <1>1
  <1>2. ASSUME NEW t \in RequestType, Request(t), UNCHANGED customVars PROVE Remembered'
    BY <1>2 DEF Request, NextTypes, stackVars, customVars, work, Sequenced
  <1>3. ASSUME NEW i \in Req, TimeOut(i), UNCHANGED customVars PROVE Remembered'
    <2>1. i = sent /\ sent > 0 /\ UNCHANGED <<type, event, say, sent, done, mem>>
      BY <1>3, <1>0 DEF TimeOut, Awaited, Sequenced, customVars, work, Req
    <2>2. stack' = IF type[sent] = "Cleanup" THEN "complete" ELSE "failed"
      BY <1>3, <2>1 DEF TimeOut, Answer, Outcome
    <2> QED
      BY <2>1, <2>2
  <1>4. ASSUME Gone PROVE Remembered'
    BY <1>4 DEF Gone, StackGone, stackVars, customVars, work, Sequenced
  <1>5. ASSUME NEW i \in Req, Start(i) PROVE Remembered'
    BY <1>5 DEF Start, Begins, stackVars, customVars, work, Sequenced
  <1>6. ASSUME NEW i \in Req, CallWorks(i) PROVE Remembered'
    <2>1. UNCHANGED <<type, event, say, sent, stack>>
      BY <1>6 DEF CallWorks, stackVars
    <2>2. done' # {}
      BY <1>6 DEF CallWorks, Commits
    <2>3. stack = "busy"
      BY <1>d, <1>6 DEF CallWorks, Calling, Working
    <2>4. mem' \in [Container -> {"SUCCESS", "FAILED"}]
      BY <1>6, RememberType DEF CallWorks, TypeOK
    <2> QED
      BY <2>1, <2>2, <2>3, <2>4
  <1>7. ASSUME NEW i \in Req, CallFails(i) PROVE Remembered'
    BY <1>7 DEF CallFails, Calling, Working, stackVars, customVars, work
  <1>8. ASSUME NEW i \in Req, CallIgnored(i) PROVE Remembered'
    BY <1>8 DEF CallIgnored, Calling, Working, Remember, stackVars, customVars, work
  <1>9. ASSUME NEW i \in Req, Conclude(i) PROVE Remembered'
    <2>1. UNCHANGED <<type, event, sent, stack, done>> /\ \A j \in Req \ {i} : say'[j] = say[j]
      BY <1>9 DEF Conclude, stackVars
    <2>2. i = sent /\ sent > 0 /\ stack = "busy"
      BY <1>d, <1>9 DEF Conclude, Working
    <2>3. CASE Undoes(i)
      <3>1. mem' = [mem EXCEPT ![at[i]] = "SUCCESS"]
        BY <1>9, <2>3 DEF Conclude, Remember
      <3>2. done # {} \/ type[sent] = "Delete"
        BY <2>2, <2>3
      <3> QED
        BY <2>1, <2>2, <2>3, <3>1, <3>2
    <2>4. CASE ~Undoes(i)
      <3>1. mem' = mem /\ say' = [say EXCEPT ![i] = mem[at[i]]] /\ Running(i)
        BY <1>9, <2>4 DEF Conclude, Working
      <3>2. say'[i] = "SUCCESS" => done # {}
        BY <2>2, <2>4, <3>1
      <3> QED
        BY <2>1, <3>1, <3>2
    <2> QED
      BY <2>3, <2>4
  <1>10. ASSUME NEW i \in Req, Send(i) PROVE Remembered'
    <2>1. i = sent /\ sent > 0 /\ Running(i) /\ UNCHANGED <<type, say, sent, done, mem>>
      BY <1>d, <1>10 DEF Send, work
    <2>2. event' = [event EXCEPT ![i] = "over"]
      BY <1>10 DEF Send, Ends, Returns
    <2>3. stack' = Outcome(i, say[i], Replaces(i))
      BY <1>10, <1>d DEF Send, Answer, Awaited
    <2>4. stack' \in {"complete", "cleanup"} => done # {}
      BY <2>1, <2>3 DEF Outcome
    <2>5. stack' = "removed" => type[sent] = "Delete"
      BY <2>1, <2>3 DEF Outcome
    <2>6. stack' # "absent"
      BY <2>3 DEF Outcome
    <2> QED
      BY <2>1, <2>2, <2>4, <2>5, <2>6
  <1>11. ASSUME NEW i \in Req, SendFails(i) PROVE Remembered'
    BY <1>11 DEF SendFails, Ends, Raises, Returns, stackVars, customVars, work
  <1>12. ASSUME NEW i \in Req, Freeze(i) PROVE Remembered'
    BY <1>12 DEF Freeze, Returns, stackVars, customVars, work
  <1>13. ASSUME NEW i \in Req, Dies(i) PROVE Remembered'
    BY <1>13 DEF Dies, Raises, Emptied, stackVars, customVars, work
  <1>14. ASSUME NEW c \in Container, Recycle(c) PROVE Remembered'
    BY <1>14 DEF Recycle, Emptied, stackVars, customVars, work
  <1>15. ASSUME NEW i \in Req, Invoke(i), UNCHANGED customVars PROVE Remembered'
    BY <1>15 DEF Invoke, Begins, stackVars, customVars, work
  <1>16. ASSUME NEW i \in Req, InvokerWorks(i), UNCHANGED customVars PROVE Remembered'
    BY <1>16 DEF InvokerWorks, Returns, stackVars, customVars, work
  <1>17. ASSUME NEW i \in Req, InvokerFails(i), UNCHANGED customVars PROVE Remembered'
    BY <1>17 DEF InvokerFails, Raises, stackVars, customVars, work
  <1>18. ASSUME NEW e \in Execution, CallbackStack(e), UNCHANGED customVars
        PROVE Remembered'
    BY <1>18
    DEF CallbackStack, Ready, Answer, Outcome, Awaited, stackVars, customVars, work
  <1> QED
    BY <1>1, <1>2, <1>3, <1>4, <1>5, <1>6, <1>7, <1>8, <1>9, <1>10, <1>11, <1>12,
            <1>13, <1>14, <1>15, <1>16, <1>17, <1>18
    DEF Next, Demand, CustomStep, AutomationStep, vars, DeleteOldImage, Build,
        CreateEncryptedCopy, UpdateSSMParam, DeleteUnencrypted, Abort, stackVars,
        customVars, imageVars, work, automation

-----------------------------------------------------------------------------
(* The images                                                               *)

\* A new automation deletes what an earlier request built, or nothing.
LEMMA AutomationStarts ==
  ASSUME TypeOK, Apart, Sequenced, Ordered, kind = "image", kind' = kind,
         NEW i \in Req, Running(i), StartsAutomation(i),
         UNCHANGED <<type, answer, stack, sent, images, param, ref>>,
         \A j \in Req : event'[j] \in {"queued", "running"} => event[j] \in {"queued", "running"}
  PROVE  Ordered'
  <1>0. /\ begun + 1 \in Execution /\ begun' = begun + 1
        /\ for' = [for EXCEPT ![begun + 1] = i]
        /\ old' = [old EXCEPT ![begun + 1] = param]
        /\ pc' = [pc EXCEPT ![begun + 1] = "delete"]
        /\ pc \in [Execution -> {"none", "delete", "build", "copy", "name", "drop", "call",
                               "over", "aborted"}]
        /\ for \in [Execution -> {0} \cup Req] /\ old \in [Execution -> {0} \cup Execution]
        /\ param \in {0} \cup Execution /\ Execution \subseteq Nat /\ begun \in Nat
    BY ExecutionsNat DEF StartsAutomation, TypeOK, ImageTypeOK, Execution
  <1>1. \A e \in Execution : Sound(e)
    BY DEF Ordered
  <1>2. pc[begun + 1] = "none"
    BY <1>0, <1>1 DEF Sound
  <1>3. param # 0 => param # begun + 1 /\ pc[param] # "none" /\ for[param] < i
    BY <1>0, <1>1, <1>2 DEF Sound, Built, Running
  <1>4. ASSUME NEW e \in Execution PROVE Sound(e)'
    <2>1. CASE e = begun + 1
      <3>1. ~Built(e)'
        BY <1>0, <1>3, <2>1 DEF Built
      <3>2. old'[e] # 0 => pc'[e] # "none" /\ pc'[old'[e]] # "none" /\ for'[old'[e]] < for'[e]
        BY <1>0, <1>3, <2>1
      <3> QED
        BY <1>0, <2>1, <3>1, <3>2 DEF Sound
    <2>2. CASE e # begun + 1
      <3>1. /\ pc'[e] = pc[e] /\ for'[e] = for[e] /\ old'[e] = old[e]
            /\ old[e] # 0 => old[e] # begun + 1
        BY <1>0, <1>1, <1>2, <2>2 DEF Sound
      <3>2. old'[e] # 0 => pc'[e] # "none" /\ pc'[old'[e]] # "none" /\ for'[old'[e]] < for'[e]
        BY <1>0, <1>1, <3>1 DEF Sound
      <3>3. Built(e)' <=> Built(e)
        BY <3>1 DEF Built
      <3>4. pc'[e] # "none" <=> e <= begun'
        BY <1>0, <1>1, <2>2, <3>1 DEF Sound
      <3>5. Built(e) => pc[e] # "none" /\ \A j \in Req : event'[j] \in {"queued", "running"} => for[e] < j
        BY <1>1 DEF Sound
      <3>6. pc[e] \in {"name", "drop", "call"} /\ ~Undoes(for[e]) /\ Awaited(for[e]) => Gold(e) \in images
        BY <1>1 DEF Sound
      <3> QED
        BY <3>1, <3>2, <3>3, <3>4, <3>5, <3>6 DEF Sound, Undoes, Awaited, Gold
    <2> QED
      BY <2>1, <2>2
  <1>5. Referred'
    BY <1>0, <1>2 DEF Ordered, Referred
  <1> QED
    BY <1>4, <1>5 DEF Ordered

\* Every automation of a request starts before one of them has built its images.
LEMMA OrderedStep ==
  ASSUME TypeOK, Apart, Sequenced, Ordered, [Next]_vars
  PROVE  Ordered'
  <1>0. /\ sent \in Nat
        /\ Req \subseteq Nat /\ (sent < MaxRequests => sent + 1 \in Req)
        /\ event \in [Req -> {"none", "queued", "running", "over"}]
        /\ type \in [Req -> {"Create", "Update", "Delete", "Cleanup", "none"}]
        /\ answer \in [Req -> {"none", "SUCCESS", "FAILED", "timeout"}]
        /\ pc \in [Execution -> {"none", "delete", "build", "copy", "name", "drop", "call",
                               "over", "aborted"}]
        /\ for \in [Execution -> {0} \cup Req]
        /\ old \in [Execution -> {0} \cup Execution]
        /\ begun \in {0} \cup Execution
        /\ param \in {0} \cup Execution /\ ref \in {0} \cup Execution
        /\ images \subseteq Image
    BY RequestAssumption DEF TypeOK, StackTypeOK, Req, RequestType, ImageTypeOK
  <1> USE <1>0 DEF Ordered, Sound, Referred, Built, Gold, Undoes
  <1>k. kind' = kind
    BY KindFixed
  <1> SUFFICES ASSUME kind = "image" PROVE Ordered'
    BY <1>k DEF Ordered
  <1>a. \A i \in Req : say[i] = "none"
    BY DEF Apart
  <1>s. \A i \in Req : event[i] # "none" => i <= sent
    BY <1>0 DEF Sequenced
  <1>w. \A i \in Req : i < sent => ~Awaited(i)
    BY <1>0 DEF Sequenced, Awaited
  <1>b. \A e \in Execution : pc[e] # "none" => for[e] \in Req /\ for[e] <= sent
    <2> SUFFICES ASSUME NEW e \in Execution, pc[e] # "none" PROVE for[e] \in Req /\ for[e] <= sent
      OBVIOUS
    <2>1. for[e] \in Req /\ event[for[e]] # "none"
      BY DEF Apart
    <2> QED
      BY <2>1, <1>s
  <1>c. Execution \subseteq Nat /\ 0 \notin Execution
    BY ExecutionsNat DEF Execution
  <1> USE <1>k, <1>a, <1>b, <1>c
  <1>1. CASE UNCHANGED <<type, answer, event, stack, sent, images, param, ref, begun, old, for, pc>>
    BY <1>1 DEF Awaited
  <1>2. ASSUME NEW t \in RequestType, Request(t), UNCHANGED imageVars PROVE Ordered'
    BY <1>2 DEF Request, NextTypes, stackVars, imageVars, automation, Awaited
  <1>3. ASSUME NEW i \in Req, TimeOut(i), UNCHANGED imageVars PROVE Ordered'
    <2>1. i = sent /\ UNCHANGED <<type, sent, event>>
      BY <1>3 DEF TimeOut, Awaited, Sequenced
    <2>2. stack' = "complete" => type[sent] = "Cleanup"
      BY <1>3, <2>1 DEF TimeOut, Answer, Outcome
    <2>3. \A j \in Req : Awaited(j)' => Awaited(j)
      BY <1>3 DEF TimeOut, Answer, Awaited
    <2> QED
      BY <1>3, <2>1, <2>2, <2>3 DEF imageVars, automation
  <1>4. ASSUME Gone PROVE Ordered'
    BY <1>4 DEF Gone, StackGone, stackVars, imageVars, automation, Awaited
  <1>5. ASSUME NEW i \in Req, Start(i), UNCHANGED imageVars PROVE Ordered'
    BY <1>5 DEF Start, Begins, stackVars, imageVars, automation, Awaited
  <1>6. ASSUME NEW i \in Req, Send(i), UNCHANGED imageVars PROVE Ordered'
    BY <1>6
    DEF Send, Answer, Outcome, Awaited, Raises, Returns, stackVars, imageVars,
        automation
  <1>7. ASSUME NEW i \in Req, SendFails(i), UNCHANGED imageVars PROVE Ordered'
    BY <1>7 DEF SendFails, Raises, Returns, stackVars, imageVars, automation,
            Awaited
  <1>8. ASSUME NEW i \in Req, Freeze(i), UNCHANGED imageVars PROVE Ordered'
    BY <1>8 DEF Freeze, Returns, stackVars, imageVars, automation, Awaited
  <1>9. ASSUME NEW i \in Req, Dies(i), UNCHANGED imageVars PROVE Ordered'
    BY <1>9 DEF Dies, Raises, Emptied, stackVars, imageVars, automation, Awaited
  <1>10. ASSUME NEW i \in Req, Invoke(i) PROVE Ordered'
    BY <1>10 DEF Invoke, Begins, stackVars, imageVars, automation, Awaited
  <1>11. ASSUME NEW i \in Req, InvokerWorks(i) PROVE Ordered'
    <2>1. /\ StartsAutomation(i) /\ Running(i) /\ UNCHANGED <<type, answer, stack, sent, images, param, ref>>
          /\ event' = [event EXCEPT ![i] = "over"]
      BY <1>11 DEF InvokerWorks, Returns
    <2> QED
      BY <2>1, AutomationStarts
  <1>12. ASSUME NEW i \in Req, InvokerFails(i) PROVE Ordered'
    <2>1. /\ Running(i) /\ UNCHANGED <<type, answer, stack, sent, images, param, ref>>
          /\ event' = [event EXCEPT ![i] = IF tries[i] < MaxAttempts THEN "queued" ELSE "over"]
      BY <1>12 DEF InvokerFails, Raises
    <2>2. CASE StartsAutomation(i)
      <3>1. \A j \in Req : event'[j] \in {"queued", "running"} => event[j] \in {"queued", "running"}
        BY <2>1 DEF Running
      <3> QED
        BY <2>1, <2>2, <3>1, AutomationStarts
    <2>3. CASE UNCHANGED automation
      BY <2>1, <2>3 DEF automation, Running, Awaited
    <2> QED
      BY <1>12, <2>2, <2>3 DEF InvokerFails
  <1>13. ASSUME NEW e \in Execution, DeleteOldImage(e) PROVE Ordered'
    <2>1. images' = images \ {old[e]} \/ images' = images
      BY <1>13 DEF DeleteOldImage, Deletes
    <2>2. /\ UNCHANGED <<type, answer, stack, sent, event, param, ref, begun, for, old>>
          /\ pc[e] = "delete" /\ pc' = [pc EXCEPT ![e] = IF Undoes(for[e]) THEN "call" ELSE "build"]
      BY <1>13 DEF DeleteOldImage, Ready, Goes
    <2>3. \A x \in Execution : x = old[e] /\ for[x] \in Req /\ for[x] <= sent => for[x] < sent /\ ~Awaited(for[x])
      <3> SUFFICES ASSUME NEW x \in Execution, x = old[e], for[x] \in Req
                   PROVE  for[x] < sent /\ ~Awaited(for[x])
        OBVIOUS
      <3>1. Sound(e) /\ old[e] # 0
        BY <1>c
      <3>2. for[x] < for[e] /\ for[e] \in Req /\ for[e] <= sent
        BY <2>2, <3>1, <1>b
      <3>3. for[x] < sent
        <4>1. for[x] \in Nat /\ for[e] \in Nat /\ sent \in Nat
          BY <1>0, <3>2
        <4>2. \A a, b, c \in Nat : a < b /\ b <= c => a < c
          OBVIOUS
        <4> QED
          BY <3>2, <4>1, <4>2
      <3> QED
        BY <3>3, <1>w
    <2> QED
      BY <2>1, <2>2, <2>3 DEF Awaited
  <1>14. ASSUME NEW e \in Execution, Build(e) PROVE Ordered'
    BY <1>14 DEF Build, Goes, stackVars, imageVars, automation, Awaited
  <1>15. ASSUME NEW e \in Execution, CreateEncryptedCopy(e) PROVE Ordered'
    BY <1>15 DEF CreateEncryptedCopy, Goes, stackVars, imageVars, automation,
            Awaited
  <1>16. ASSUME NEW e \in Execution, UpdateSSMParam(e) PROVE Ordered'
    BY <1>16 DEF UpdateSSMParam, Ready, Goes, stackVars, imageVars, automation,
            Awaited
  <1>17. ASSUME NEW e \in Execution, DeleteUnencrypted(e) PROVE Ordered'
    <2>1. images' = images \ {Raw(e)} \/ images' = images
      BY <1>17 DEF DeleteUnencrypted, Deletes
    <2>2. /\ UNCHANGED <<type, answer, stack, sent, event, param, ref, begun, for, old>>
          /\ pc[e] = "drop" /\ pc' = [pc EXCEPT ![e] = "call"]
      BY <1>17 DEF DeleteUnencrypted, Ready, Goes
    <2>3. \A x \in Execution : x # Raw(e)
      BY ExecutionsNat DEF Raw, Execution
    <2> QED
      BY <2>1, <2>2, <2>3 DEF Awaited
  <1>18. ASSUME NEW e \in Execution, CallbackStack(e) PROVE Ordered'
    <2>1. /\ UNCHANGED <<type, sent, event, images, param, begun, for, old>>
          /\ pc[e] = "call" /\ pc' = [pc EXCEPT ![e] = "over"]
          /\ Answer(for[e], "SUCCESS", ref # Gold(e))
          /\ ref' = IF Awaited(for[e]) /\ ~Undoes(for[e]) THEN Gold(e) ELSE ref
      BY <1>18 DEF CallbackStack, Ready, Goes
    <2>2. \A x \in Execution : Sound(x)'
      BY <2>1 DEF Answer, Awaited
    <2>3. CASE Awaited(for[e])
      <3>1. for[e] = sent
        BY <2>1, <2>3 DEF Awaited, Sequenced
      <3>2. stack' = "complete" /\ type[sent] = "Create" => ref' = e /\ e \in images
        BY <2>1, <2>3, <3>1
      <3> QED
        BY <2>1, <2>2, <3>1, <3>2
    <2>4. CASE ~Awaited(for[e])
      <3>1. UNCHANGED <<stack, ref>>
        BY <2>1, <2>4 DEF Answer
      <3> QED
        BY <2>1, <2>2, <3>1
    <2> QED
      BY <2>3, <2>4
  <1>19. ASSUME NEW e \in Execution, Abort(e) PROVE Ordered'
    BY <1>19 DEF Abort, Goes, stackVars, imageVars, automation, Awaited
  <1> QED
    BY <1>1, <1>2, <1>3, <1>4, <1>5, <1>6, <1>7, <1>8, <1>9, <1>10, <1>11, <1>12,
            <1>13, <1>14, <1>15, <1>16, <1>17, <1>18, <1>19
    DEF Next, Demand, CustomStep, AutomationStep, vars, CallWorks, CallFails,
        CallIgnored, Conclude, Recycle, stackVars, customVars, imageVars, work,
        automation

-----------------------------------------------------------------------------
(* What an undisturbed automation leaves behind                             *)

\* What was lost stays lost: the steps of an undisturbed behaviour.
LEMMA StaysUndisturbed ==
  ASSUME TypeOK, Apart, Sequenced, [Next]_vars, kind = "image", Undisturbed'
  PROVE  Undisturbed
  <1>0. \A i \in Req : say[i] = "none"
    BY DEF Apart
  <1>1. hurt \subseteq hurt' /\ lost \subseteq lost'
    BY <1>0 DEF Next, Demand, CustomStep, AutomationStep, vars, CallWorks, Conclude, Recycle, Calling, Working,
       CallFails, CallIgnored, Start, Send, SendFails, Freeze, Dies, Request, TimeOut, Gone, StackGone,
       Invoke, InvokerWorks, InvokerFails, DeleteOldImage, Deletes, Build, CreateEncryptedCopy,
       UpdateSSMParam, DeleteUnencrypted, CallbackStack, Abort, stackVars, customVars, imageVars
  <1>2. ASSUME NEW i \in Req, answer[i] = "timeout" PROVE answer'[i] = "timeout"
    <2>1. ASSUME NEW j \in Req, NEW s, NEW r, Answer(j, s, r) PROVE answer'[i] = "timeout"
      BY <1>2, <2>1 DEF Answer, Awaited, TypeOK, StackTypeOK
    <2>2. ASSUME NEW e \in Execution, CallbackStack(e) PROVE answer'[i] = "timeout"
      BY <2>1, <2>2 DEF CallbackStack, Ready, Apart
    <2> QED
      BY <1>0, <1>2, <2>1, <2>2 DEF Next, Demand, CustomStep, AutomationStep, vars, CallWorks, Conclude, Recycle, Calling, Working,
       CallFails, CallIgnored, Start, Send, SendFails, Freeze, Dies, Request, TimeOut, Gone, StackGone,
       Invoke, InvokerWorks, InvokerFails, DeleteOldImage, Deletes, Build, CreateEncryptedCopy,
       UpdateSSMParam, DeleteUnencrypted, Abort, stackVars, customVars, imageVars
  <1> QED
    BY <1>1, <1>2 DEF Undisturbed

\* One automation at most works, and it is the one that is awaited.
LEMMA OneWorks ==
  ASSUME TypeOK, Apart, Sequenced, Single,
         NEW e \in Execution, pc[e] \notin {"none", "over", "aborted"}
  PROVE  /\ for[e] = sent /\ stack = "busy" /\ \A i \in Req : event[i] \in {"none", "over"}
         /\ \A f \in Execution \ {e} : pc[f] \in {"none", "over"}
  <1>1. for[e] \in Req /\ event[for[e]] = "over" /\ Awaited(for[e])
    BY DEF Apart, Single
  <1>2. for[e] = sent /\ stack = "busy"
    <2>1. for[e] <= sent
      BY <1>1, RequestAssumption DEF Sequenced, TypeOK, StackTypeOK, Req
    <2> QED
      BY <1>1, <2>1 DEF Sequenced, Awaited
  <1>3. ASSUME NEW i \in Req PROVE event[i] \in {"none", "over"}
    <2>1. CASE i = sent
      BY <1>1, <1>2, <2>1
    <2>2. CASE i # sent
      <3>1. i <= sent \/ i > sent
        BY RequestAssumption DEF TypeOK, StackTypeOK, Req
      <3> QED
        BY <2>2, <3>1 DEF Sequenced, Single, Awaited
    <2> QED
      BY <2>1, <2>2
  <1>4. ASSUME NEW f \in Execution, pc[f] \notin {"none", "over"} PROVE f = e
    <2>1. for[f] \in Req /\ Awaited(for[f])
      BY <1>4 DEF Apart, Single
    <2>2. for[f] <= sent
      BY <2>1, <1>4, RequestAssumption DEF Sequenced, TypeOK, StackTypeOK, Req, Apart
    <2>3. for[f] = sent
      BY <2>1, <2>2 DEF Sequenced, Awaited
    <2> QED
      BY <1>2, <1>4, <2>3 DEF Single
  <1> QED
    BY <1>2, <1>3, <1>4

\* The step of one automation that goes on to another state.
LEMMA GoesTidily ==
  ASSUME TypeOK, Apart, Sequenced, Single, NEW e \in Execution, NEW next,
         pc[e] \notin {"none", "over", "aborted"}, next \notin {"none", "over", "aborted"},
         Goes(e, next), UNCHANGED <<for, old, event, answer, stack, sent, type>>, Leaves(e)'
  PROVE  Single' /\ Rests' /\ \A f \in Execution : Leaves(f)'
  <1>0. pc' = [pc EXCEPT ![e] = next] /\ pc \in [Execution -> {"none", "delete", "build", "copy", "name", "drop", "call",
                               "over", "aborted"}]
    BY DEF Goes, TypeOK, ImageTypeOK
  <1>1. Single'
    BY <1>0 DEF Single, Awaited
  <1>2. Rests'
    <2>1. ~Idle'
      BY <1>0 DEF Idle
    <2> QED
      BY <2>1, OneWorks DEF Rests
  <1>3. ASSUME NEW f \in Execution PROVE Leaves(f)'
    <2>1. CASE f # e
      <3>1. pc'[f] \in {"none", "over"}
        BY <1>0, <2>1, OneWorks
      <3> QED
        BY <3>1 DEF Leaves
    <2> QED
      BY <2>1
  <1> QED
    BY <1>1, <1>2, <1>3

\* Undisturbed, every step leaves as little behind.
LEMMA TidyStep ==
  ASSUME TypeOK, Apart, Sequenced, Ordered, Tidy, [Next]_vars
  PROVE  Tidy'
  <1>0. /\ sent \in Nat /\ Req \subseteq Nat
        /\ (sent < MaxRequests => sent + 1 \in Req)
        /\ event \in [Req -> {"none", "queued", "running", "over"}]
        /\ type \in [Req -> {"Create", "Update", "Delete", "Cleanup", "none"}]
        /\ answer \in [Req -> {"none", "SUCCESS", "FAILED", "timeout"}]
        /\ pc \in [Execution -> {"none", "delete", "build", "copy", "name", "drop", "call",
                               "over", "aborted"}]
        /\ for \in [Execution -> {0} \cup Req]
        /\ old \in [Execution -> {0} \cup Execution]
        /\ begun \in {0} \cup Execution
        /\ images \subseteq Image
    BY RequestAssumption DEF TypeOK, StackTypeOK, Req, RequestType, ImageTypeOK
  <1>k. kind' = kind
    BY KindFixed
  <1> SUFFICES ASSUME kind = "image", Undisturbed'
               PROVE  Single' /\ Rests' /\ \A e \in Execution : Leaves(e)'
    BY <1>k DEF Tidy
  <1>u. Undisturbed
    BY StaysUndisturbed
  <1>t. Single /\ Rests /\ \A e \in Execution : Leaves(e)
    BY <1>u DEF Tidy
  <1>a. \A i \in Req : say[i] = "none"
    BY DEF Apart
  <1>b. \A e \in Execution : pc[e] # "none" => for[e] \in Req
    BY DEF Apart
  <1>h. hurt' = {} /\ lost' = {}
    BY DEF Undisturbed
  <1>1. CASE UNCHANGED <<stackVars, imageVars>>
    BY <1>1, <1>t DEF stackVars, imageVars, automation, Single, Rests, Leaves, Idle, Awaited, Undoes
  <1>2. ASSUME NEW t \in RequestType, Request(t), UNCHANGED imageVars
        PROVE Single' /\ Rests' /\ \A e \in Execution : Leaves(e)'
    <2>0. /\ event' = [event EXCEPT ![sent + 1] = "queued"] /\ type' = [type EXCEPT ![sent + 1] = t]
          /\ stack' = "busy" /\ sent + 1 \in Req
          /\ UNCHANGED <<answer, images, param, for, old, pc>>
      BY <1>0, <1>2 DEF Request, imageVars, automation
    <2>1. answer[sent + 1] = "none" /\ event[sent + 1] = "none"
      BY <1>0, <2>0 DEF Sequenced
    <2>2. \A e \in Execution : pc[e] # "none" => for[e] # sent + 1
      BY <2>1 DEF Apart
    <2>3. Single'
      BY <1>0, <1>b, <1>t, <2>0, <2>1, <2>2 DEF Single, Awaited
    <2>4. Rests'
      BY <1>t, <2>0 DEF Rests, Idle
    <2>5. ASSUME NEW e \in Execution PROVE Leaves(e)'
      <3>1. pc[e] # "none" => (Undoes(for[e])' <=> Undoes(for[e]))
        BY <1>0, <1>b, <2>0, <2>2 DEF Undoes
      <3> QED
        BY <1>t, <2>0, <3>1 DEF Leaves
    <2> QED
      BY <2>3, <2>4, <2>5
  <1>3. ASSUME NEW i \in Req, TimeOut(i) PROVE FALSE
    <2>1. answer'[i] = "timeout"
      BY <1>0, <1>3 DEF TimeOut, Answer
    <2> QED
      BY <2>1 DEF Undisturbed
  <1>4. ASSUME Gone PROVE Single' /\ Rests' /\ \A e \in Execution : Leaves(e)'
    <2>0. /\ stack = "removed" /\ stack' = "absent" /\ images' = images /\ param' = 0
          /\ event' = [i \in Req |-> IF event[i] = "queued" THEN "over" ELSE event[i]]
          /\ UNCHANGED <<answer, type, for, old, pc>>
      BY <1>4 DEF Gone, StackGone
    <2>1. images = {}
      BY <1>t, <2>0 DEF Rests
    <2>2. \A e \in Execution : pc[e] \in {"none", "over"}
      BY <1>0, <1>t, <2>0, OneWorks DEF Single
    <2>3. Single'
      BY <1>0, <1>b, <1>t, <2>0 DEF Single, Awaited
    <2> QED
      BY <2>0, <2>1, <2>2, <2>3 DEF Rests, Leaves
  <1>5. ASSUME NEW i \in Req, Invoke(i) PROVE Single' /\ Rests' /\ \A e \in Execution : Leaves(e)'
    <2>1. /\ event[i] = "queued" /\ event' = [event EXCEPT ![i] = "running"]
          /\ UNCHANGED <<answer, stack, type, imageVars>>
      BY <1>5 DEF Invoke, Begins
    <2>2. Single'
      BY <1>0, <1>b, <1>t, <2>1 DEF Single, Awaited, imageVars, automation
    <2>3. Rests' /\ \A e \in Execution : Leaves(e)'
      BY <1>t, <2>1 DEF Rests, Leaves, Idle, Undoes, imageVars, automation
    <2> QED
      BY <2>2, <2>3
  <1>6. ASSUME NEW i \in Req, InvokerWorks(i) PROVE Single' /\ Rests' /\ \A e \in Execution : Leaves(e)'
    <2> DEFINE new == begun + 1
    <2>0. /\ event[i] = "running" /\ event' = [event EXCEPT ![i] = "over"]
          /\ UNCHANGED <<answer, stack, type, images, param>>
          /\ new \in Execution /\ for' = [for EXCEPT ![new] = i]
          /\ old' = [old EXCEPT ![new] = param] /\ pc' = [pc EXCEPT ![new] = "delete"]
      BY <1>6 DEF InvokerWorks, Running, StartsAutomation, Returns
    <2> HIDE DEF new
    <2>1. Awaited(i)
      BY <1>t, <2>0 DEF Single
    <2>2. \A e \in Execution : pc[e] \in {"none", "over"}
      BY <1>0, <1>t, <2>0, OneWorks DEF Single
    <2>3. \A e \in Execution : pc[e] # "none" => for[e] # i
      BY <1>t, <2>0 DEF Single
    <2>4. images \subseteq {param}
      BY <1>t, <2>2 DEF Rests, Idle
    <2>5. pc[new] = "none"
      BY ExecutionsNat, <2>0 DEF Ordered, Sound, new, Execution, TypeOK, ImageTypeOK
    <2>6. Single'
      BY <1>0, <1>b, <1>t, <2>0, <2>1, <2>2, <2>3, <2>5 DEF Single, Awaited
    <2>7. Rests'
      BY <1>0, <1>t, <2>0 DEF Rests, Idle
    <2>8. ASSUME NEW e \in Execution PROVE Leaves(e)'
      BY <1>0, <2>0, <2>2, <2>4 DEF Leaves
    <2> QED
      BY <2>6, <2>7, <2>8
  <1>7. ASSUME NEW i \in Req, InvokerFails(i) PROVE FALSE
    BY <1>7, <1>h DEF InvokerFails
  <1>8. ASSUME NEW e \in Execution, Abort(e) PROVE FALSE
    BY <1>8, <1>h DEF Abort
  <1>9. ASSUME NEW e \in Execution, DeleteOldImage(e) PROVE Single' /\ Rests' /\ \A f \in Execution : Leaves(f)'
    <2>1. /\ pc[e] = "delete" /\ images' = images \ {old[e]}
          /\ UNCHANGED <<for, old, event, answer, stack, sent, type, param>>
      BY <1>9, <1>h DEF DeleteOldImage, Ready, Deletes
    <2>2. images' = {}
      BY <1>t, <2>1 DEF Leaves
    <2>3. PICK next \in {"call", "build"} : Goes(e, next) /\ (next = "build" => ~Undoes(for[e]))
      BY <1>9 DEF DeleteOldImage
    <2>4. Leaves(e)'
      BY <1>0, <2>1, <2>2, <2>3 DEF Leaves, Goes, Undoes
    <2> QED
      BY <1>t, <2>1, <2>3, <2>4, GoesTidily
  <1>10. ASSUME NEW e \in Execution, Build(e) PROVE Single' /\ Rests' /\ \A f \in Execution : Leaves(f)'
    <2>1. /\ pc[e] = "build" /\ images' = images \cup {Raw(e)} /\ Goes(e, "copy")
          /\ UNCHANGED <<for, old, event, answer, stack, sent, type, param>>
      BY <1>10 DEF Build, stackVars
    <2>2. Leaves(e)'
      BY <1>0, <1>t, <2>1 DEF Leaves, Goes, Raw, Undoes
    <2> QED
      BY <1>t, <2>1, <2>2, GoesTidily
  <1>11. ASSUME NEW e \in Execution, CreateEncryptedCopy(e)
         PROVE Single' /\ Rests' /\ \A f \in Execution : Leaves(f)'
    <2>1. /\ pc[e] = "copy" /\ images' = images \cup {Gold(e)} /\ Goes(e, "name")
          /\ UNCHANGED <<for, old, event, answer, stack, sent, type, param>>
      BY <1>11 DEF CreateEncryptedCopy, stackVars
    <2>2. Leaves(e)'
      BY <1>0, <1>t, <2>1 DEF Leaves, Goes, Raw, Gold, Undoes
    <2> QED
      BY <1>t, <2>1, <2>2, GoesTidily
  <1>12. ASSUME NEW e \in Execution, UpdateSSMParam(e)
         PROVE Single' /\ Rests' /\ \A f \in Execution : Leaves(f)'
    <2>1. /\ pc[e] = "name" /\ param' = Gold(e) /\ Goes(e, "drop")
          /\ UNCHANGED <<for, old, event, answer, stack, sent, type, images>>
      BY <1>12 DEF UpdateSSMParam, Ready, stackVars
    <2>2. Leaves(e)'
      BY <1>0, <1>t, <2>1 DEF Leaves, Goes, Raw, Gold, Undoes
    <2> QED
      BY <1>t, <2>1, <2>2, GoesTidily
  <1>13. ASSUME NEW e \in Execution, DeleteUnencrypted(e)
         PROVE Single' /\ Rests' /\ \A f \in Execution : Leaves(f)'
    <2>1. /\ pc[e] = "drop" /\ images' = images \ {Raw(e)} /\ Goes(e, "call")
          /\ UNCHANGED <<for, old, event, answer, stack, sent, type, param>>
      BY <1>13, <1>h DEF DeleteUnencrypted, Ready, Deletes
    <2>2. ~Undoes(for[e])
      BY <1>t, <2>1 DEF Leaves
    <2>3. Leaves(e)'
      BY <1>0, <1>t, <2>1, <2>2 DEF Leaves, Goes, Raw, Gold, Undoes
    <2> QED
      BY <1>t, <2>1, <2>3, GoesTidily
  <1>14. ASSUME NEW e \in Execution, CallbackStack(e)
         PROVE Single' /\ Rests' /\ \A f \in Execution : Leaves(f)'
    <2>1. /\ pc[e] = "call" /\ pc' = [pc EXCEPT ![e] = "over"]
          /\ Answer(for[e], "SUCCESS", ref # Gold(e))
          /\ UNCHANGED <<for, old, event, type, images, param>>
      BY <1>14 DEF CallbackStack, Ready, Goes
    <2>2. Awaited(for[e]) /\ for[e] \in Req /\ event[for[e]] = "over"
      BY <1>b, <1>t, <2>1 DEF Single
    <2>3. answer' = [answer EXCEPT ![for[e]] = "SUCCESS"]
          /\ stack' = Outcome(for[e], "SUCCESS", ref # Gold(e))
      BY <2>1, <2>2 DEF Answer
    <2>4. Single'
      BY <1>0, <1>b, <1>t, <2>1, <2>2, <2>3 DEF Single, Awaited
    <2>5. images \subseteq {param} /\ (Undoes(for[e]) => images = {})
      BY <1>t, <2>1 DEF Leaves
    <2>6. Rests'
      BY <2>1, <2>3, <2>5 DEF Rests, Outcome, Undoes
    <2>7. ASSUME NEW f \in Execution PROVE Leaves(f)'
      <3>1. pc'[f] \in {"none", "over"}
        BY <1>0, <1>t, <2>1, OneWorks
      <3> QED
        BY <3>1 DEF Leaves
    <2> QED
      BY <2>4, <2>6, <2>7
  <1> QED
    BY <1>a, <1>1, <1>2, <1>3, <1>4, <1>5, <1>6, <1>7, <1>8, <1>9, <1>10, <1>11, <1>12, <1>13, <1>14
    DEF Next, Demand, CustomStep, AutomationStep, vars, CallWorks, CallFails, CallIgnored,
        Conclude, Recycle, Start, Send, SendFails, Freeze, Dies, Calling, Working

-----------------------------------------------------------------------------
(* The theorems                                                             *)

\* The invariant holds at the start.
LEMMA InitInv ==
  ASSUME Init
  PROVE  IInv
  <1> USE DEF Init, StackInit, CustomInit, ImageInit
  <1>0. /\ MaxRequests \in Nat /\ MaxAttempts \in Nat /\ Attributes \in Nat
        /\ Req \subseteq Nat \ {0} /\ kind \in Kind /\ MaxFaults[kind] \in Nat
    BY RequestAssumption, ResourceAssumption DEF Req
  <1>1. TypeOK
    BY <1>0, ExecutionsNat DEF TypeOK, StackTypeOK, CustomTypeOK, ImageTypeOK
  <1>2. Sequenced /\ Apart /\ Accounted /\ Placed /\ Owned
    BY <1>0 DEF Sequenced, Apart, Accounted, Placed, Owned, Past, Running, Effective
  <1>3. InPlace /\ Behind /\ Contained /\ Caused /\ Remembered
    BY <1>0 DEF InPlace, Behind, Contained, Caused, Remembered, Running, Effective
  <1>4. Ordered
    BY ExecutionsNat DEF Ordered, Sound, Referred, Built, Execution
  <1>5. Tidy
    BY DEF Tidy, Single, Rests, Leaves, Awaited
  <1> QED
    BY <1>1, <1>2, <1>3, <1>4, <1>5 DEF IInv

\* Every step preserves the invariant.
LEMMA NextInv ==
  ASSUME IInv, [Next]_vars
  PROVE  IInv'
  <1> USE DEF IInv
  <1>1. TypeOK'
    BY StackTypeStep, CustomTypeStep, ImageTypeStep DEF TypeOK
  <1>2. Sequenced' /\ Apart' /\ Accounted' /\ Placed'
    BY SequencedStep, ApartStep, AccountedStep, PlacedStep
  <1>3. InPlace' /\ Behind' /\ Owned'
    BY InPlaceStep, BehindStep, OwnedStep
  <1>4. Contained' /\ Caused' /\ Remembered' /\ Ordered' /\ Tidy'
    BY ContainedStep, CausedStep, RememberedStep, OrderedStep, TidyStep
  <1> QED
    BY <1>1, <1>2, <1>3, <1>4

\* The invariant holds in every behaviour of the custom resources.
THEOREM Invariance == Spec => []IInv
  <1>1. Init => IInv
    BY InitInv
  <1>2. IInv /\ [Next]_vars => IInv'
    BY NextInv
  <1> QED
    BY <1>1, <1>2, PTL DEF Spec

\* The requests, the functions and the automations keep to their types.
THEOREM TypeCorrect == Spec => []TypeOK
  <1>1. IInv => TypeOK
    BY DEF IInv
  <1> QED
    BY <1>1, Invariance, PTL

\* Whatever failed and was retried before, a SUCCESS that CloudFormation takes
\* has its calls behind it.
THEOREM SuccessEarned == Spec => []SuccessIsEarned
  <1>1. IInv => SuccessIsEarned
    BY DEF IInv, InPlace, Remembered, SuccessIsEarned
  <1> QED
    BY <1>1, Invariance, PTL

\* A FAILED is never spurious: a call of that request failed, or the service
\* refused to make twice what stays made.
THEOREM FailureCaused == Spec => []FailureHasCause
  <1>1. IInv => FailureHasCause
    BY DEF IInv, Caused, Cause, FailureHasCause
  <1> QED
    BY <1>1, Invariance, PTL

\* However many requests create it, at most one of them makes the warehouse, or
\* the grant.
THEOREM CreatedOnce == Spec => []MadeOnce
  <1>1. IInv => MadeOnce
    BY DEF IInv, Owned, Past, MadeOnce
  <1> QED
    BY <1>1, Invariance, PTL

\* Failed calls alone leave no request to time out.
THEOREM LossTimesOut == Spec => []OnlyLossTimesOut
  <1>1. IInv => OnlyLossTimesOut
    BY DEF IInv, Accounted, OnlyLossTimesOut
  <1> QED
    BY <1>1, Invariance, PTL

\* However many automations a creation started, the image it answered with is
\* there as long as no other request is made.
THEOREM ImageStands == Spec => []BuiltImageStands
  <1>1. IInv => BuiltImageStands
    BY DEF IInv, Ordered, Referred, BuiltImageStands
  <1> QED
    BY <1>1, Invariance, PTL

\* Whatever is created, updated and deleted in whatever order, automations of
\* which nothing fails leave no image but the one that the parameter names.
THEOREM NothingLeft == Spec => []NoLeftovers
  <1>1. IInv => NoLeftovers
    BY DEF IInv, Tidy, Rests, NoLeftovers
  <1> QED
    BY <1>1, Invariance, PTL
=============================================================================
