-------------------------------- MODULE Cutover --------------------------------
(***************************************************************************)
(* The cutover of one finance domain from direct ledger postings to the    *)
(* event engine: request, readiness checks, approval by a second admin,    *)
(* rollback and the job that re-evaluates readiness.                       *)
(*                                                                         *)
(* Readiness is evaluated outside any transaction, and every check is      *)
(* inserted with a reference to the control's row, for which PostgreSQL    *)
(* takes a key-share lock of that row: it waits for a transaction that     *)
(* holds the row FOR UPDATE.  The approval is such a transaction, and      *)
(* evaluates readiness while it runs.  What the checks measure is theirs   *)
(* to find passing or not, at any time.                                    *)
(***************************************************************************)
EXTENDS Integers

CONSTANTS Admins,
          Decisions,  \* the decisions that can be requested
          Nobody

VARIABLES control,   \* finance_cutover_controls: one row
          decision,  \* finance_cutover_decisions
          approval,  \* the approval transaction of each admin
          evaluation \* the other evaluations: of a request, the job, the endpoint

cutoverVars == <<control, decision, approval, evaluation>>

NoDecision == [status |-> "none", maker |-> Nobody, checker |-> Nobody]
NoApproval == [pc |-> "idle", decision |-> Nobody, ready |-> FALSE]
Evaluator == {"request", "job", "endpoint"}
NoEvaluation == [pc |-> "idle", user |-> Nobody, ready |-> FALSE]

CutoverInit ==
    /\ control = [status |-> "planned", mode |-> "legacy"]
    /\ decision = [d \in Decisions |-> NoDecision]
    /\ approval = [a \in Admins |-> NoApproval]
    /\ evaluation = [e \in Evaluator |-> NoEvaluation]

InApproval == {"evaluating", "evaluated"}
DecisionLocked(d) ==
    \E a \in Admins : approval[a].decision = d /\ approval[a].pc \in {"found"} \union InApproval
ControlLocked == \E a \in Admins : approval[a].pc \in InApproval

-----------------------------------------------------------------------------
(* requestCutover, the endpoint and the job: evaluation without a lock.     *)

\* The job takes up controls that are not active or rolled back.
Evaluable(e) == e = "job" => control.status \in {"planned", "validating", "ready"}

StartEvaluation(e) ==
    /\ evaluation[e].pc = "idle" /\ Evaluable(e)
    /\ \E user \in Admins :
         evaluation' = [evaluation EXCEPT ![e] = [NoEvaluation EXCEPT !.pc = "evaluating", !.user = user]]
    /\ UNCHANGED <<control, decision, approval>>

InsertChecks(e) ==
    /\ evaluation[e].pc = "evaluating" /\ ~ControlLocked
    /\ \E ready \in BOOLEAN :
         evaluation' = [evaluation EXCEPT ![e] =
           IF e = "endpoint" THEN NoEvaluation
           ELSE [@ EXCEPT !.pc = IF e = "request" THEN "deciding" ELSE "updating", !.ready = ready]]
    /\ UNCHANGED <<control, decision, approval>>

\* The decision refers to the control as well.
CreateDecision(d) ==
    /\ evaluation["request"].pc = "deciding" /\ decision[d].status = "none" /\ ~ControlLocked
    /\ decision' = [decision EXCEPT ![d] =
                      [NoDecision EXCEPT !.status = "pending_approval",
                                         !.maker = evaluation["request"].user]]
    /\ evaluation' = [evaluation EXCEPT !["request"].pc = "updating"]
    /\ UNCHANGED <<control, approval>>

UpdateControl(e) ==
    /\ evaluation[e].pc = "updating" /\ ~ControlLocked
    /\ control' = [control EXCEPT !.status = IF evaluation[e].ready THEN "ready" ELSE "validating"]
    /\ evaluation' = [evaluation EXCEPT ![e] = NoEvaluation]
    /\ UNCHANGED <<decision, approval>>

-----------------------------------------------------------------------------
(* approveCutover.                                                          *)

GoApproval(a, pc) == approval' = [approval EXCEPT ![a].pc = pc]

LockDecision(a, d) ==
    /\ approval[a].pc = "idle" /\ decision[d].status # "none" /\ ~DecisionLocked(d)
    /\ approval' = [approval EXCEPT ![a] = [NoApproval EXCEPT !.pc = "found", !.decision = d]]
    /\ UNCHANGED <<control, decision, evaluation>>

RefuseMaker(a) ==
    /\ approval[a].pc = "found" /\ decision[approval[a].decision].maker = a
    /\ approval' = [approval EXCEPT ![a] = NoApproval]
    /\ UNCHANGED <<control, decision, evaluation>>

LockControl(a) ==
    /\ approval[a].pc = "found" /\ decision[approval[a].decision].maker # a /\ ~ControlLocked
    /\ GoApproval(a, "evaluating")
    /\ UNCHANGED <<control, decision, evaluation>>

\* recordCheck is not given the transaction: it inserts on another connection.
InsertChecksInside(a) ==
    /\ approval[a].pc = "evaluating" /\ ~ControlLocked
    /\ \E ready \in BOOLEAN :
         approval' = [approval EXCEPT ![a].pc = "evaluated", ![a].ready = ready]
    /\ UNCHANGED <<control, decision, evaluation>>

RefuseUnready(a) ==
    /\ approval[a].pc = "evaluated" /\ ~approval[a].ready
    /\ approval' = [approval EXCEPT ![a] = NoApproval]
    /\ UNCHANGED <<control, decision, evaluation>>

Activate(a) ==
    /\ approval[a].pc = "evaluated" /\ approval[a].ready
    /\ decision' = [decision EXCEPT ![approval[a].decision].status = "approved",
                                    ![approval[a].decision].checker = a]
    /\ control' = [status |-> "active", mode |-> "block_legacy"]
    /\ approval' = [approval EXCEPT ![a] = NoApproval]
    /\ UNCHANGED evaluation

-----------------------------------------------------------------------------
RollBack ==
    /\ ~ControlLocked
    /\ control' = [status |-> "rolled_back", mode |-> "shadow"]
    /\ UNCHANGED <<decision, approval, evaluation>>

Evaluating(e) == InsertChecks(e) \/ UpdateControl(e)
Approving(a) == \/ RefuseMaker(a) \/ LockControl(a) \/ InsertChecksInside(a)
                \/ RefuseUnready(a) \/ Activate(a)

CutoverNext ==
    \/ \E e \in Evaluator : StartEvaluation(e) \/ Evaluating(e)
    \/ \E d \in Decisions : CreateDecision(d)
    \/ \E a \in Admins : Approving(a) \/ \E d \in Decisions : LockDecision(a, d)
    \/ RollBack

\* Handlers go on with what they can do; nothing in the pool or the server ends a
\* statement that waits for a lock.
CutoverFairness ==
    /\ \A e \in Evaluator : WF_cutoverVars(Evaluating(e))
    /\ \A a \in Admins : SF_cutoverVars(Approving(a))

CutoverSpec == CutoverInit /\ [][CutoverNext]_cutoverVars /\ CutoverFairness
-----------------------------------------------------------------------------
\* "9. request cutover 10. independent approval 11. activate block_legacy"
\* (INTEGRATION.md): an approval that was begun is answered, by activating the
\* cutover or by refusing it (approveCutover).
ApprovalIsAnswered == \A a \in Admins : approval[a].pc # "idle" ~> approval[a].pc = "idle"
=============================================================================
