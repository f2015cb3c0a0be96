---------------------------- MODULE CutoverProofs ----------------------------
(***************************************************************************)
(* Why no cutover ever takes effect, for any number of admins and          *)
(* decisions: an approval holds the row of the control while its readiness *)
(* checks, on another connection, wait for that row.                       *)
(***************************************************************************)
EXTENDS Cutover, TLAPS

ApprovalRow == [pc : {"idle", "found", "evaluating", "evaluated"},
                decision : Decisions \union {Nobody}, ready : BOOLEAN]

\* No approval gets past its checks, and without one nothing is approved or active.
CutoverInv ==
    /\ approval \in [Admins -> ApprovalRow]
    /\ \A a \in Admins : approval[a].pc # "evaluated"
    /\ \A d \in Decisions : decision[d].status \in {"none", "pending_approval"}
    /\ DOMAIN decision = Decisions
    /\ control.status \in {"planned", "validating", "ready", "rolled_back"}
    /\ control.mode \in {"legacy", "shadow"}

\* An approval that has begun to evaluate waits for itself.
LEMMA ChecksWait ==
    ASSUME NEW a \in Admins
    PROVE  ~InsertChecksInside(a)
BY DEF InsertChecksInside, ControlLocked, InApproval

LEMMA ApprovingInv ==
    ASSUME CutoverInv, NEW a \in Admins,
           Approving(a) \/ \E d \in Decisions : LockDecision(a, d)
    PROVE  CutoverInv'
<1>1. NoApproval \in ApprovalRow /\ NoApproval.pc = "idle"
  BY DEF NoApproval, ApprovalRow
<1>2. CASE RefuseMaker(a)
  BY <1>1, <1>2 DEF CutoverInv, RefuseMaker
<1>3. CASE LockControl(a)
  <2> DEFINE row == [approval[a] EXCEPT !.pc = "evaluating"]
  <2>1. row \in ApprovalRow /\ row.pc = "evaluating"
    BY DEF CutoverInv, ApprovalRow
  <2>2. approval' = [approval EXCEPT ![a] = row] /\ UNCHANGED <<control, decision>>
    BY <1>3 DEF CutoverInv, LockControl, GoApproval
  <2> QED BY <2>1, <2>2 DEF CutoverInv
<1>4. CASE RefuseUnready(a) \/ Activate(a)
  BY <1>4 DEF CutoverInv, RefuseUnready, Activate
<1>5. ASSUME NEW d \in Decisions, LockDecision(a, d) PROVE CutoverInv'
  <2> DEFINE row == [NoApproval EXCEPT !.pc = "found", !.decision = d]
  <2>1. row \in ApprovalRow /\ row.pc = "found"
    BY DEF NoApproval, ApprovalRow
  <2>2. approval' = [approval EXCEPT ![a] = row] /\ UNCHANGED <<control, decision>>
    BY <1>5 DEF LockDecision
  <2> QED BY <2>1, <2>2 DEF CutoverInv
<1> QED BY <1>2, <1>3, <1>4, <1>5, ChecksWait DEF Approving

LEMMA CutoverNextInv ==
    ASSUME CutoverInv, [CutoverNext]_cutoverVars
    PROVE  CutoverInv'
<1>1. ASSUME NEW e \in Evaluator, StartEvaluation(e) \/ InsertChecks(e) PROVE CutoverInv'
  BY <1>1 DEF CutoverInv, StartEvaluation, InsertChecks
<1>2. ASSUME NEW d \in Decisions, CreateDecision(d) PROVE CutoverInv'
  <2>1. \A x \in Decisions : decision'[x].status \in {"none", "pending_approval"}
    BY <1>2 DEF CutoverInv, CreateDecision, NoDecision
  <2> QED BY <1>2, <2>1 DEF CutoverInv, CreateDecision
<1>3. ASSUME NEW e \in Evaluator, UpdateControl(e) PROVE CutoverInv'
  BY <1>3 DEF CutoverInv, UpdateControl
<1>4. CASE RollBack
  BY <1>4 DEF CutoverInv, RollBack
<1>5. CASE UNCHANGED cutoverVars
  BY <1>5 DEF CutoverInv, cutoverVars
<1> QED BY <1>1, <1>2, <1>3, <1>4, <1>5, ApprovingInv DEF CutoverNext, Evaluating

LEMMA CutoverInvariance == CutoverSpec => []CutoverInv
<1>1. CutoverInit => CutoverInv
  BY DEF CutoverInit, CutoverInv, NoApproval, ApprovalRow, NoDecision
<1>2. CutoverInv /\ [CutoverNext]_cutoverVars => CutoverInv'
  BY CutoverNextInv
<1> QED BY <1>1, <1>2, PTL DEF CutoverSpec

-----------------------------------------------------------------------------
\* No decision is ever approved and the control is never active: the code path from
\* an approval to block_legacy (approveCutover) cannot be taken.
NeverActivated ==
    /\ control.status # "active" /\ control.mode # "block_legacy"
    /\ \A d \in Decisions : decision[d].status # "approved"

THEOREM NoCutoverTakesEffect == CutoverSpec => []NeverActivated
<1>1. CutoverInv => NeverActivated
  BY DEF CutoverInv, NeverActivated
<1> QED BY <1>1, CutoverInvariance, PTL

\* Once an approval evaluates, it does so for ever, and with it the domain stands
\* still: no request, no rollback and no other approval writes the control or a
\* decision (approveCutover, requestCutover, rollbackCutover).
StandsStill ==
    [][\A a \in Admins : approval[a].pc = "evaluating" =>
          approval'[a].pc = "evaluating" /\ UNCHANGED <<control, decision>>]_cutoverVars

THEOREM ApprovalStandsStill == CutoverSpec => StandsStill
<1>1. ASSUME CutoverInv, CutoverNext, NEW a \in Admins, approval[a].pc = "evaluating"
      PROVE  approval'[a].pc = "evaluating" /\ UNCHANGED <<control, decision>>
  <2>1. ControlLocked
    BY <1>1 DEF ControlLocked, InApproval
  <2>2. CASE UNCHANGED <<approval, control, decision>>
    BY <1>1, <2>2
  <2>3. ASSUME NEW b \in Admins, RefuseMaker(b)
        PROVE  approval'[a] = approval[a] /\ UNCHANGED <<control, decision>>
    BY <1>1, <2>3 DEF CutoverInv, RefuseMaker
  <2>4. ASSUME NEW b \in Admins, NEW d \in Decisions, LockDecision(b, d)
        PROVE  approval'[a] = approval[a] /\ UNCHANGED <<control, decision>>
    BY <1>1, <2>4 DEF CutoverInv, LockDecision
  <2>5. \A b \in Admins : ~LockControl(b) /\ ~RefuseUnready(b) /\ ~Activate(b)
    BY <1>1, <2>1 DEF CutoverInv, LockControl, RefuseUnready, Activate
  <2> QED BY <1>1, <2>1, <2>2, <2>3, <2>4, <2>5, ChecksWait
          DEF CutoverNext, Approving, Evaluating, StartEvaluation, InsertChecks, CreateDecision,
              UpdateControl, RollBack
<1>2. CutoverInv /\ [CutoverNext]_cutoverVars =>
        [\A a \in Admins : approval[a].pc = "evaluating" =>
            approval'[a].pc = "evaluating" /\ UNCHANGED <<control, decision>>]_cutoverVars
  BY <1>1
<1> QED BY <1>2, CutoverInvariance, PTL DEF CutoverSpec, StandsStill
=============================================================================
