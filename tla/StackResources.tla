--------------------------- MODULE StackResources ---------------------------
(***************************************************************************)
(* The custom resources of the repository's stacks: the requests and either *)
(* one of the functions of CustomResource or the automation of GoldenImage. *)
(***************************************************************************)
EXTENDS CustomResource, GoldenImage

vars == <<stackVars, customVars, imageVars>>

TypeOK == StackTypeOK /\ CustomTypeOK /\ ImageTypeOK

Init == StackInit /\ CustomInit /\ ImageInit

\* With the stack go its parameter, the module state of its function and, of
\* what the functions work on, the topic; the databases belong to other stacks,
\* and nobody deletes the grant.
Gone ==
  /\ StackGone
  /\ done' = IF kind = "delivery" THEN {} ELSE done
  /\ mem' = [c \in Container |-> "FAILED"] /\ phys' = None
  /\ param' = 0 /\ ref' = 0 /\ stale' = 1 .. begun
  /\ UNCHANGED <<work, images, begun, for, old, pc>>

Demand ==
  \/ \E t \in RequestType : Request(t)
  \/ \E i \in Req : TimeOut(i)

Next ==
  \/ Demand /\ UNCHANGED <<customVars, imageVars>>
  \/ Gone
  \/ \E i \in Req : CustomStep(i) /\ UNCHANGED imageVars
  \/ \E c \in Container : Recycle(c) /\ UNCHANGED imageVars
  \/ \E i \in Req : (Invoke(i) \/ InvokerWorks(i) \/ InvokerFails(i)) /\ UNCHANGED customVars
  \/ \E e \in Execution : (AutomationStep(e) \/ Abort(e)) /\ UNCHANGED customVars

Spec == Init /\ [][Next]_vars

\* Lambda runs what it has begun and invokes what is queued, an automation goes
\* on, an hour passes.  No request is ever sent of itself, no call fails without
\* a cause, and a container need not be dropped.
FunctionGoesOn(i) ==
  /\ Start(i) \/ CallWorks(i) \/ CallFails(i) \/ Conclude(i) \/ Send(i)
  /\ UNCHANGED imageVars
InvokerGoesOn(i) == (Invoke(i) \/ InvokerWorks(i)) /\ UNCHANGED customVars
HourPasses(i) == TimeOut(i) /\ UNCHANGED <<customVars, imageVars>>
FairSpec ==
  /\ Spec
  /\ \A i \in Req :
       WF_vars(FunctionGoesOn(i)) /\ WF_vars(InvokerGoesOn(i)) /\ WF_vars(HourPasses(i))

-----------------------------------------------------------------------------
(* Properties                                                               *)

Effective(i) == type[i] \in {"Create", "Update"} /\ answer[i] = "SUCCESS"

\* What a function has put in place when it says it has: in Python, every call
\* it makes.
Promised == IF kind \in {"sql", "dwh", "grant", "domain"} THEN 1 .. Calls[kind] ELSE {}

\* A SUCCESS that CloudFormation takes is earned: whatever failed, was retried
\* or repeated before, the calls behind it are in place; of the attributes of the
\* topic of a complete stack, at least one.  (redshift-db-init sends SUCCESS without
\* a commit of its own; so after a raise and its retries, or from a warm container.)
SuccessIsEarned ==
  /\ \A i \in Req : Effective(i) => Promised \subseteq done
  /\ kind = "delivery" /\ stack \in {"complete", "cleanup"} => done # {}

\* A FAILED that CloudFormation takes has a cause: a call of that request failed
\* of itself, or the service refused to make a second time what an earlier
\* attempt had made.  So creating again what may be created again works, and so
\* does every deletion.
FailureHasCause ==
  \A i \in Req : answer[i] = "FAILED" =>
    \/ i \in hurt
    \/ kind \in {"dwh", "grant"} /\ ~Undoes(i) /\ 1 \in done

\* The warehouse and the grant are made by one request at most, however many are
\* sent: after the one that succeeded, or one that failed after its first effect
\* was committed, every further creation is answered FAILED.
MadeOnce ==
  kind \in {"dwh", "grant"} =>
    \A i, j \in {r \in Req : CallsFor(r) > 0} : Effective(i) /\ Effective(j) => i = j

\* Every request is answered by the function unless an answer or an invocation
\* was lost: a failure of the calls alone never leaves CloudFormation waiting.
\* (Snapshot-Register's deletions count as lost when the container freezes.)
OnlyLossTimesOut ==
  kind # "image" => \A i \in Req : answer[i] = "timeout" => i \in lost

\* The image of a created stack exists until another request is made, also when
\* the invoker was invoked twice and two automations built one each.
BuiltImageStands ==
  kind = "image" /\ stack = "complete" /\ type[sent] = "Create" => ref \in images

Idle == \A e \in Execution : pc[e] \in {"none", "over", "aborted"}
Undisturbed == hurt = {} /\ lost = {} /\ \A i \in Req : answer[i] # "timeout"

\* Without failures the automations leave no image behind but the one the
\* parameter names: the old one, the unencrypted one and those of former stacks
\* are deleted.
NoLeftovers ==
  kind = "image" /\ Idle /\ Undisturbed => images \subseteq {param}

\* The documents begin with a step deleteOldImage; the instances of the stack are
\* launched from the resource's physical id (ImageId: !Ref CreateJenkinsImage).
\* So a stack that is complete has its image.  (Violated: after an update
\* CloudFormation deletes the old resource, and the automation started for that
\* deletes the image that the parameter names by then, which is the new one.)
InstancesHaveImage ==
  kind = "image" /\ stack = "complete" /\ Undisturbed => ref \in images

\* Every request is answered or given up, and its event comes to an end.
RequestsEnd ==
  \A i \in Req : (i <= sent) ~> (answer[i] # "none" /\ event[i] = "over")
=============================================================================
