------------------------------ MODULE MCPipeline ------------------------------
(***************************************************************************)
(* The finance pipeline, checked in one run on instances of four shapes:   *)
(* the delivery of an outbox event by workers that may die, to an engine   *)
(* that has no rule for it; the processing, posting and replay of an event *)
(* that was delivered; both at once, with one worker and no replay; and    *)
(* two delivered events, one of which can be prepared but not posted.      *)
(***************************************************************************)
EXTENDS FinancePipeline

VARIABLE focus  \* the shape of this behaviour

FirstWorker == CHOOSE w \in Workers : TRUE
FirstLease == CHOOSE l \in LeaseIds : TRUE

Quiet == /\ \A w \in Workers : worker[w].pc = "idle"
         /\ recovery.batch = {} /\ recovery.current = Nil
\* A dead letter is replayed while nobody is at work on the event:
\* FinanceDelivery_safety has it at any time.
ReplaysWhenQuiet == operator.pc = "idle" /\ operator'.pc # "idle" => Quiet

\* The engine does nothing but reject the event, and does that first.
NoRule == /\ UNCHANGED <<rules, item, replayer>>
          /\ \A e \in Events : business[e] = "received" /\ e \notin rejected => UNCHANGED vars

\* One worker with one lease.
Alone == /\ \A w \in Workers \ {FirstWorker} : worker'[w].pc = "idle"
         /\ \A l \in LeaseIds \ {FirstLease} : lease'[l].status # "active"
\* The delivery succeeds at once, and the engine starts after it.
DeliveredFirst ==
    /\ \A w \in Workers : /\ worker'[w].pc \in InTry \union {"idle", "leased"}
                          /\ ~WorkerCrash(w)
    /\ EngineStep => Quiet /\ \A e \in Events : outbox[e].status \in {"none", "published"}

NoReplay == UNCHANGED <<item, replayer>>

\* The events that cannot be posted are there only to stand in the way.
OnlyPostable == \A e \in Unpostable : outbox'[e].status = "none" /\ (e \in rules <=> e \in rules')

FocusInit == /\ PipelineInit
             /\ focus \in {"delivery", "engine", "both", "queue"}
             /\ focus = "delivery" => rules = {}
             /\ focus # "queue" => rules \intersect Unpostable = {}

FocusNext ==
    /\ UNCHANGED focus
    /\ PipelineNext
    /\ ReplaysWhenQuiet
    /\ \/ focus = "delivery" /\ NoRule /\ OnlyPostable
       \/ focus = "engine" /\ Alone /\ DeliveredFirst /\ OnlyPostable
       \/ focus = "both" /\ Alone /\ NoReplay /\ OnlyPostable
       \/ focus = "queue" /\ Alone /\ DeliveredFirst /\ NoReplay

FocusSpec == FocusInit /\ [][FocusNext]_<<pipelineVars, focus>> /\ Fairness /\ EngineFairness
=============================================================================
