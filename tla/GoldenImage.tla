---------------------------- MODULE GoldenImage -----------------------------
(***************************************************************************)
(* The machine images of the CI/CD stack, custom resources of their own     *)
(* kind ("image"): CreateJenkinsImage and its three sisters.                *)
(*                                                                          *)
(* The function AMIAutomationInvoker only starts an automation, which       *)
(* deletes the image that the parameter names, builds another from an       *)
(* instance, makes an encrypted copy of it, names the copy in the           *)
(* parameter, deletes the unencrypted image and answers the request.  A     *)
(* step that fails aborts the automation, and nothing answers.  On a        *)
(* deletion it only deletes and answers.                                    *)
(***************************************************************************)
EXTENDS StackRequests

VARIABLES
  images,  \* the images there are
  param,   \* the one the SSM parameter names, 0 for "nil"
  ref,     \* the physical id: the image CloudFormation gives the instances
  begun,   \* automations started
  for,     \* the request of each
  old,     \* what the parameter named when it was started
  pc,      \* its next step
  stale    \* those whose functions are deleted

automation == <<begun, for, old, pc, stale>>
imageVars == <<images, param, ref, automation>>

MaxExecutions == MaxRequests + MaxFaults["image"]
Execution == 1 .. MaxExecutions
Gold(e) == e
Raw(e) == MaxExecutions + e
Image == 1 .. (2 * MaxExecutions)

ImageTypeOK ==
  /\ images \subseteq Image
  /\ param \in {0} \cup Execution
  /\ ref \in {0} \cup Execution
  /\ begun \in {0} \cup Execution
  /\ for \in [Execution -> {0} \cup Req]
  /\ old \in [Execution -> {0} \cup Execution]
  /\ pc \in [Execution -> {"none", "delete", "build", "copy", "name", "drop", "call", "over", "aborted"}]
  /\ stale \subseteq Execution

ImageInit ==
  /\ images = {} /\ param = 0 /\ ref = 0
  /\ begun = 0 /\ stale = {}
  /\ for = [e \in Execution |-> 0] /\ old = [e \in Execution |-> 0]
  /\ pc = [e \in Execution |-> "none"]

-----------------------------------------------------------------------------
(* AMIAutomationInvoker                                                     *)

Invoke(i) ==
  /\ kind = "image" /\ Begins(i)
  /\ UNCHANGED <<kind, stack, sent, type, answer, hurt, lost, faults, imageVars>>

\* The parameters of the document are resolved when the automation starts.
StartsAutomation(i) ==
  /\ begun + 1 \in Execution /\ begun' = begun + 1
  /\ for' = [for EXCEPT ![begun + 1] = i]
  /\ old' = [old EXCEPT ![begun + 1] = param]
  /\ pc' = [pc EXCEPT ![begun + 1] = "delete"]
  /\ UNCHANGED stale

InvokerWorks(i) ==
  /\ kind = "image" /\ Running(i)
  /\ StartsAutomation(i) /\ Returns(i)
  /\ UNCHANGED <<kind, stack, sent, type, answer, tries, hurt, lost, faults, images, param, ref>>

\* The call fails, or the invocation does after it: then two automations work
\* on the request.
InvokerFails(i) ==
  /\ kind = "image" /\ Running(i)
  /\ Fault /\ lost' = lost \cup {i} /\ Raises(i)
  /\ StartsAutomation(i) \/ UNCHANGED automation
  /\ UNCHANGED <<kind, stack, sent, type, answer, tries, hurt, images, param, ref>>

-----------------------------------------------------------------------------
(* The automation                                                           *)

Goes(e, next) == pc' = [pc EXCEPT ![e] = next]
Ready(e, here) == pc[e] = here /\ e \notin stale

\* DeleteAMIFunction, which swallows every error but its own end.
Deletes(e, image) ==
  \/ images' = images \ {image} /\ UNCHANGED <<faults, hurt>>
  \/ Fault /\ hurt' = hurt \cup {for[e]} /\ UNCHANGED images

DeleteOldImage(e) ==
  /\ Ready(e, "delete") /\ Deletes(e, old[e])
  /\ Goes(e, IF Undoes(for[e]) THEN "call" ELSE "build")
  /\ UNCHANGED <<kind, stack, sent, type, answer, event, tries, lost,
                 param, ref, begun, for, old, stale>>

\* launchInstance to createImage.  It takes longer than an invocation of the
\* invoker and the minute or two until the next.
Build(e) ==
  /\ pc[e] = "build" /\ \A i \in Req : event[i] \in {"none", "over"}
  /\ images' = images \cup {Raw(e)} /\ Goes(e, "copy")
  /\ UNCHANGED <<stackVars, param, ref, begun, for, old, stale>>

CreateEncryptedCopy(e) ==
  /\ pc[e] = "copy"
  /\ images' = images \cup {Gold(e)} /\ Goes(e, "name")
  /\ UNCHANGED <<stackVars, param, ref, begun, for, old, stale>>

UpdateSSMParam(e) ==
  /\ Ready(e, "name")
  /\ param' = Gold(e) /\ Goes(e, "drop")
  /\ UNCHANGED <<stackVars, images, ref, begun, for, old, stale>>

\* Mutated form of DeleteUnencrypted: the unencrypted image is kept.
DeleteUnencryptedNot(e) ==
  /\ Ready(e, "drop") /\ Goes(e, "call")
  /\ UNCHANGED <<stackVars, images, param, ref, begun, for, old, stale>>

\* Mutated form of DeleteUnencrypted: the encrypted image goes with it.
DeleteUnencryptedCopy(e) ==
  /\ Ready(e, "drop") /\ images' = images \ {Raw(e), Gold(e)} /\ Goes(e, "call")
  /\ UNCHANGED <<stackVars, param, ref, begun, for, old, stale>>

DeleteUnencrypted(e) ==
  /\ Ready(e, "drop") /\ Deletes(e, Raw(e)) /\ Goes(e, "call")
  /\ UNCHANGED <<kind, stack, sent, type, answer, event, tries, lost,
                 param, ref, begun, for, old, stale>>

\* AMIAutomationCallback: SUCCESS, with the encrypted image as physical id.
CallbackStack(e) ==
  /\ Ready(e, "call") /\ Goes(e, "over")
  /\ Answer(for[e], "SUCCESS", ref # Gold(e))
  /\ ref' = IF Awaited(for[e]) /\ ~Undoes(for[e]) THEN Gold(e) ELSE ref
  /\ UNCHANGED <<kind, sent, type, event, tries, hurt, lost, faults,
                 images, param, begun, for, old, stale>>

\* onFailure: Abort, or an answer that could not be put.  A step that needs a
\* deleted function fails.
Abort(e) ==
  /\ pc[e] \notin {"none", "over", "aborted"} /\ Goes(e, "aborted")
  /\ lost' = lost \cup {for[e]}
  /\ \/ Fault
     \/ e \in stale /\ pc[e] \notin {"build", "copy"} /\ UNCHANGED faults
  /\ UNCHANGED <<kind, stack, sent, type, answer, event, tries, hurt,
                 images, param, ref, begun, for, old, stale>>

AutomationStep(e) ==
  \/ DeleteOldImage(e) \/ Build(e) \/ CreateEncryptedCopy(e)
  \/ UpdateSSMParam(e) \/ DeleteUnencrypted(e) \/ CallbackStack(e)
=============================================================================
