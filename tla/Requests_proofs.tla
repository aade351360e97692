--------------------------- MODULE Requests_proofs ---------------------------
(***************************************************************************)
(* For any requests, sessions, patterns and rules, and any number of        *)
(* restarts: dialogs, grants and approvals of permission requests and       *)
(* questions are right.                                                     *)
(***************************************************************************)
EXTENDS Requests, TLAPS

AllGiven == UNION {given[s] : s \in Streams}

\* A request that has yet to be evaluated has no dialog, open or closed: closing
\* it cannot be a second time.
DialogOnce ==
  /\ ~twice
  /\ \A r \in Asks :
       /\ state[r] \in {"new", "asking"} => dialog[r] = "none"
       /\ dialog[r] = "open" <=> state[r] = "pending"

\* Approvals in force are given ones - all of them, until a write is lost; a write
\* under way saves them.
InForce ==
  /\ approved \subseteq AllGiven /\ stored \subseteq approved
  /\ ~unsaved => approved = AllGiven
  /\ ~unsaved /\ saving = 0 => stored = approved

Inv == TypeOK /\ DialogOnce /\ AbortLeavesNoQuestion /\ InForce /\ GrantJustified /\ NoAskForGranted

-----------------------------------------------------------------------------
\* Every step keeps the types.
LEMMA TypeStep == TypeOK /\ [Next]_vars => TypeOK'
<1> SUFFICES ASSUME TypeOK, [Next]_vars PROVE TypeOK'
  OBVIOUS
<1> USE RequestsAssumption DEF TypeOK, Asks, Settled, Settle, Closed, store, history
<1>1. ASSUME NEW r \in Asks, Ask(r) PROVE TypeOK'
  BY <1>1 DEF Ask
<1>2. ASSUME NEW r \in Permissions, Evaluate(r) PROVE TypeOK'
  BY <1>2 DEF Evaluate
<1>3. ASSUME NEW r \in Permissions, ReplyOnce(r) \/ ReplyReject(r) PROVE TypeOK'
  BY <1>3 DEF ReplyOnce, ReplyReject
<1>4. ASSUME NEW r \in Permissions, ReplyAlways(r) PROVE TypeOK'
  <2>1. StreamOf[r] \in Streams /\ AlwaysOf[r] \subseteq Patterns
    OBVIOUS
  <2>2. given' \in [Streams -> SUBSET Patterns]
    BY <1>4, <2>1 DEF ReplyAlways
  <2>3. approved' \subseteq Patterns /\ stored' \subseteq Patterns /\ saving' \in Nat /\ aborted' \subseteq Streams
    BY <1>4, <2>1 DEF ReplyAlways, Approves
  <2>4. state' \in [Asks -> {"new", "asking", "pending"} \cup Settled]
    BY <1>4 DEF ReplyAlways
  <2>5. dialog' \in [Asks -> {"none", "open", "closed"}]
    BY <1>4 DEF ReplyAlways
  <2> QED
    BY <2>2, <2>3, <2>4, <2>5, Zenon DEF TypeOK
<1>5. ASSUME NEW ok \in BOOLEAN, Save(ok) PROVE TypeOK'
  BY <1>5 DEF Save, Saved
<1>6. ASSUME NEW q \in Questions, AskQuestion(q) PROVE TypeOK'
  BY <1>6 DEF AskQuestion
<1>7. ASSUME NEW q \in Questions, ReplyQuestion(q) PROVE TypeOK'
  BY <1>7 DEF ReplyQuestion
<1>8. ASSUME NEW s \in Streams, Abort(s) PROVE TypeOK'
  BY <1>8 DEF Abort
<1>9. CASE Restart
  BY <1>9 DEF Restart
<1>10. CASE UNCHANGED vars
  BY <1>10 DEF vars
<1> QED
  BY <1>1, <1>2, <1>3, <1>4, <1>5, <1>6, <1>7, <1>8, <1>9, <1>10 DEF Next

\* A request is announced when it becomes pending and closed when it stops being so.
LEMMA DialogOnceStep == TypeOK /\ DialogOnce /\ [Next]_vars => DialogOnce'
<1> SUFFICES ASSUME TypeOK, DialogOnce, [Next]_vars PROVE DialogOnce'
  OBVIOUS
<1> USE DEF TypeOK, Asks, Settled, Settle, Closed, store, history, DialogOnce
<1>1. ASSUME NEW r \in Asks, Ask(r) PROVE DialogOnce'
  BY <1>1 DEF Ask
<1>2. ASSUME NEW r \in Permissions, Evaluate(r) PROVE DialogOnce'
  BY <1>2 DEF Evaluate
<1>3. ASSUME NEW r \in Permissions, ReplyOnce(r) \/ ReplyReject(r) PROVE DialogOnce'
  BY <1>3 DEF ReplyOnce, ReplyReject, Pending, Others
<1>4. ASSUME NEW r \in Permissions, ReplyAlways(r) PROVE DialogOnce'
  BY <1>4 DEF ReplyAlways, Pending, Others, Released
<1>5. ASSUME NEW ok \in BOOLEAN, Save(ok) PROVE DialogOnce'
  BY <1>5 DEF Save
<1>6. ASSUME NEW q \in Questions, AskQuestion(q) \/ ReplyQuestion(q) PROVE DialogOnce'
  BY <1>6 DEF AskQuestion, ReplyQuestion, Pending
<1>7. ASSUME NEW s \in Streams, Abort(s) PROVE DialogOnce'
  BY <1>7 DEF Abort, Listening
<1>8. CASE Restart
  BY <1>8 DEF Restart
<1>9. CASE UNCHANGED vars
  BY <1>9 DEF vars
<1> QED
  BY <1>1, <1>2, <1>3, <1>4, <1>5, <1>6, <1>7, <1>8, <1>9 DEF Next

\* A question is either asked before the abort, and listens, or after it, and is
\* rejected at once.
LEMMA AbortStep == TypeOK /\ AbortLeavesNoQuestion /\ [Next]_vars => AbortLeavesNoQuestion'
<1> SUFFICES ASSUME TypeOK, AbortLeavesNoQuestion, [Next]_vars PROVE AbortLeavesNoQuestion'
  OBVIOUS
<1> USE RequestsAssumption DEF TypeOK, Asks, Settle, Pending, store, history, AbortLeavesNoQuestion
<1>1. ASSUME NEW r \in Asks, Ask(r) PROVE AbortLeavesNoQuestion'
  BY <1>1 DEF Ask
<1>2. ASSUME NEW r \in Permissions, Evaluate(r) PROVE AbortLeavesNoQuestion'
  BY <1>2 DEF Evaluate
<1>3. ASSUME NEW r \in Permissions, ReplyOnce(r) \/ ReplyReject(r) PROVE AbortLeavesNoQuestion'
  BY <1>3 DEF ReplyOnce, ReplyReject
<1>4. ASSUME NEW r \in Permissions, ReplyAlways(r) PROVE AbortLeavesNoQuestion'
  BY <1>4 DEF ReplyAlways
<1>5. ASSUME NEW ok \in BOOLEAN, Save(ok) PROVE AbortLeavesNoQuestion'
  BY <1>5 DEF Save
<1>6. ASSUME NEW q \in Questions, AskQuestion(q) \/ ReplyQuestion(q) PROVE AbortLeavesNoQuestion'
  BY <1>6 DEF AskQuestion, ReplyQuestion
<1>7. ASSUME NEW s \in Streams, Abort(s) PROVE AbortLeavesNoQuestion'
  BY <1>7 DEF Abort, Listening
<1>8. CASE Restart
  BY <1>8 DEF Restart
<1>9. CASE UNCHANGED vars
  BY <1>9 DEF vars
<1> QED
  BY <1>1, <1>2, <1>3, <1>4, <1>5, <1>6, <1>7, <1>8, <1>9 DEF Next

\* "always" gives and approves the same patterns; a write that completes stores
\* what is in force then; a restart goes back to what is stored.
LEMMA InForceStep == TypeOK /\ InForce /\ [Next]_vars => InForce'
<1> SUFFICES ASSUME TypeOK, InForce, [Next]_vars PROVE InForce'
  OBVIOUS
<1> USE DEF TypeOK, InForce, AllGiven, store, history
<1>1. CASE UNCHANGED <<store, given, unsaved>>
  BY <1>1
<1>2. ASSUME NEW r \in Permissions, ReplyAlways(r) PROVE InForce'
  <2>1. StreamOf[r] \in Streams /\ AlwaysOf[r] \subseteq Patterns
    BY RequestsAssumption DEF Asks
  <2>2. /\ approved' = approved \cup AlwaysOf[r] /\ stored' = stored /\ unsaved' = unsaved
        /\ saving' = saving + 1
        /\ given' = [given EXCEPT ![StreamOf[r]] = @ \cup AlwaysOf[r]]
    BY <1>2 DEF ReplyAlways, Approves
  <2>3. AllGiven' = AllGiven \cup AlwaysOf[r]
    BY <2>1, <2>2
  <2>4. saving' # 0
    BY <2>2
  <2> QED
    BY <2>2, <2>3, <2>4 DEF InForce
<1>3. ASSUME NEW ok \in BOOLEAN, Save(ok) PROVE InForce'
  BY <1>3 DEF Save, Saved
<1>4. CASE Restart
  <2>1. approved' = stored /\ stored' = stored /\ given' = given /\ saving' = 0
    BY <1>4 DEF Restart
  <2>2. ~unsaved' => ~unsaved /\ ~(saving > 0)
    BY <1>4, Zenon DEF Restart
  <2>3. ~(saving > 0) => saving = 0
    OBVIOUS
  <2> QED
    BY <2>1, <2>2, <2>3
<1>5. (\E r \in Asks : Ask(r)) \/ (\E r \in Permissions : Evaluate(r) \/ ReplyOnce(r) \/ ReplyReject(r))
        \/ (\E q \in Questions : AskQuestion(q) \/ ReplyQuestion(q)) \/ (\E s \in Streams : Abort(s))
        \/ UNCHANGED vars
      => UNCHANGED <<store, given, unsaved>>
  BY DEF Ask, Evaluate, ReplyOnce, ReplyReject, AskQuestion, ReplyQuestion, Abort, vars
<1> QED
  BY <1>1, <1>2, <1>3, <1>4, <1>5 DEF Next

\* A request is granted unasked when every pattern is allowed by a rule, by "auto"
\* mode or by an approval; the approvals in force are given ones.
LEMMA GrantStep ==
  TypeOK /\ InForce /\ InForce' /\ GrantJustified /\ [Next]_vars => GrantJustified'
<1> SUFFICES ASSUME TypeOK, InForce, InForce', GrantJustified, [Next]_vars PROVE GrantJustified'
  OBVIOUS
<1> DEFINE Allowed(p) == Rule[p] = "allow" \/ (auto /\ Rule[p] = "ask") \/ p \in AllGiven
<1> DEFINE Fine(r) == \A i \in 1..Len(PatternsOf[r]) : Allowed(PatternsOf[r][i])
<1>1. GrantJustified = \A r \in Permissions \ answered : state[r] = "granted" => Fine(r)
  BY DEF GrantJustified, AllGiven
<1>2. GrantJustified' = \A r \in Permissions \ answered' : state'[r] = "granted" => Fine(r)'
  BY DEF GrantJustified, AllGiven
<1>3. auto' = auto /\ answered \subseteq answered'
  BY DEF Next, Ask, Evaluate, ReplyOnce, ReplyReject, ReplyAlways, Save, AskQuestion, ReplyQuestion,
         Abort, Restart, vars, store, history
<1>4. AllGiven \subseteq AllGiven'
  <2>1. CASE given' = given
    BY <2>1 DEF AllGiven
  <2>2. ASSUME NEW r \in Permissions, ReplyAlways(r) PROVE AllGiven \subseteq AllGiven'
    BY <2>2, RequestsAssumption DEF ReplyAlways, AllGiven, TypeOK, Asks
  <2> QED
    BY <2>1, <2>2 DEF Next, Ask, Evaluate, ReplyOnce, ReplyReject, Save, AskQuestion, ReplyQuestion,
         Abort, Restart, vars, store, history
<1>5. ASSUME NEW r \in Permissions, Fine(r) PROVE Fine(r)'
  BY <1>3, <1>4, <1>5
<1>6. SUFFICES ASSUME NEW r \in Permissions \ answered', state'[r] = "granted", state[r] # "granted"
               PROVE Fine(r)'
  BY <1>1, <1>2, <1>3, <1>5
<1> HIDE DEF Fine
<1>7. ASSUME Evaluate(r) PROVE Fine(r)'
  <2>1. Stops(r) = {}
    BY <1>7, <1>6 DEF Evaluate, Settle, TypeOK, Asks
  <2>2. ASSUME NEW i \in 1..Len(PatternsOf[r]) PROVE Allowed(PatternsOf[r][i])
    BY <2>1 DEF Stops, Action, InForce
  <2> QED
    BY <2>2, <1>5 DEF Fine
<1>8. ASSUME NEW q \in Permissions, ReplyAlways(q) PROVE Fine(r)'
  <2>1. r \in Released(q)
    BY <1>6, <1>8 DEF ReplyAlways, Settle, TypeOK, Asks
  <2>2. ASSUME NEW i \in 1..Len(PatternsOf[r]) PROVE PatternsOf[r][i] \in AllGiven'
    BY <2>1 DEF Released, InForce
  <2> QED
    BY <2>2 DEF Fine
<1>9. ASSUME NEW q \in Permissions, q # r, Evaluate(q) PROVE FALSE
  BY <1>9, <1>6 DEF Evaluate, Settle, TypeOK, Asks
<1>10. ASSUME NEW q \in Permissions, ReplyOnce(q) \/ ReplyReject(q) PROVE FALSE
  BY <1>10, <1>6 DEF ReplyOnce, ReplyReject, Settle, TypeOK, Asks
<1>11. ASSUME NEW q \in Questions, AskQuestion(q) \/ ReplyQuestion(q) PROVE FALSE
  BY <1>11, <1>6 DEF AskQuestion, ReplyQuestion, Settle, TypeOK, Asks
<1>12. ASSUME \/ \E q \in Asks : Ask(q)
              \/ \E ok \in BOOLEAN : Save(ok)
              \/ \E s \in Streams : Abort(s)
              \/ Restart
              \/ UNCHANGED vars
       PROVE  FALSE
  BY <1>12, <1>6 DEF Ask, Save, Abort, Restart, Settle, TypeOK, Asks, vars
<1> QED
  BY <1>7, <1>8, <1>9, <1>10, <1>11, <1>12 DEF Next

\* A request becomes pending over a pattern that is not approved; an "always" of
\* its session that covers it releases it.  Approvals are in force as long as no
\* write is lost.
LEMMA NoAskStep ==
  TypeOK /\ InForce /\ NoAskForGranted /\ [Next]_vars => NoAskForGranted'
<1> SUFFICES ASSUME TypeOK, InForce, NoAskForGranted, [Next]_vars PROVE NoAskForGranted'
  OBVIOUS
<1> DEFINE Open(r) == \E i \in 1..Len(PatternsOf[r]) : PatternsOf[r][i] \notin given[StreamOf[r]]
<1>1. SUFFICES ASSUME NEW r \in Permissions, state'[r] = "pending", ~unsaved' PROVE Open(r)'
  BY Zenon DEF NoAskForGranted, Pending, Asks
<1>2. r \in Asks /\ StreamOf[r] \in Streams
  BY RequestsAssumption DEF Asks
<1>3. ~unsaved
  BY <1>1, Zenon DEF Next, Ask, Evaluate, ReplyOnce, ReplyReject, ReplyAlways, Save, AskQuestion,
         ReplyQuestion, Abort, Restart, vars, store, history
<1>4. state[r] = "pending" => Open(r)
  BY <1>2, <1>3, Zenon DEF NoAskForGranted, Pending
<1>5. given' = given /\ Open(r) => Open(r)'
  OBVIOUS
<1> HIDE DEF Open
<1>6. ASSUME Evaluate(r) PROVE Open(r)'
  <2>1. PICK i \in Stops(r) : TRUE
    BY <1>1, <1>2, <1>6 DEF Evaluate, Settle, TypeOK
  <2>2. PatternsOf[r][i] \notin approved
    BY <2>1 DEF Stops, Action
  <2>3. i \in 1..Len(PatternsOf[r]) /\ PatternsOf[r][i] \notin given[StreamOf[r]]
    BY <2>1, <2>2, <1>2, <1>3 DEF Stops, InForce, AllGiven
  <2>4. given' = given
    BY <1>6 DEF Evaluate, history
  <2> QED
    BY <2>3, <2>4, <1>5 DEF Open
<1>7. ASSUME NEW q \in Permissions, ReplyAlways(q) PROVE Open(r)'
  <2>1. state[r] = "pending" /\ r # q /\ r \notin Released(q)
    BY <1>1, <1>2, <1>7 DEF ReplyAlways, Settle, TypeOK
  <2>2. given' = [given EXCEPT ![StreamOf[q]] = @ \cup AlwaysOf[q]]
    BY <1>7 DEF ReplyAlways
  <2>3. CASE StreamOf[r] # StreamOf[q]
    <3>1. given'[StreamOf[r]] = given[StreamOf[r]]
      BY <2>2, <2>3, <1>2 DEF TypeOK
    <3> QED
      BY <3>1, <2>1, <1>4 DEF Open
  <2>4. CASE StreamOf[r] = StreamOf[q]
    <3>1. r \in Others(q)
      BY <2>1, <2>4, <1>2 DEF Others, Pending
    <3>2. PICK i \in 1..Len(PatternsOf[r]) : PatternsOf[r][i] \notin approved'
      BY <3>1, <2>1 DEF Released
    <3>3. approved' = approved \cup AlwaysOf[q]
      BY <1>7 DEF ReplyAlways, Approves
    <3>4. given[StreamOf[r]] \subseteq approved
      BY <1>2, <1>3 DEF InForce, AllGiven
    <3>5. given'[StreamOf[r]] \subseteq approved'
      BY <2>2, <2>4, <1>2, <3>3, <3>4 DEF TypeOK
    <3> QED
      BY <3>2, <3>5 DEF Open
  <2> QED
    BY <2>3, <2>4
<1>8. ASSUME NEW q \in Permissions, (q # r /\ Evaluate(q)) \/ ReplyOnce(q) \/ ReplyReject(q)
      PROVE state[r] = "pending" /\ given' = given
  BY <1>1, <1>2, <1>8 DEF Evaluate, ReplyOnce, ReplyReject, Settle, TypeOK, history
<1>9. ASSUME NEW q \in Questions, AskQuestion(q) \/ ReplyQuestion(q)
      PROVE state[r] = "pending" /\ given' = given
  BY <1>1, <1>2, <1>9, RequestsAssumption DEF AskQuestion, ReplyQuestion, Settle, TypeOK, history
<1>10. ASSUME NEW q \in Asks, Ask(q) PROVE state[r] = "pending" /\ given' = given
  BY <1>1, <1>2, <1>10 DEF Ask, TypeOK, history
<1>11. ASSUME NEW s \in Streams, Abort(s) PROVE state[r] = "pending" /\ given' = given
  BY <1>1, <1>2, <1>11 DEF Abort, Settle, TypeOK, history
<1>12. ASSUME NEW ok \in BOOLEAN, Save(ok) PROVE state[r] = "pending" /\ given' = given
  BY <1>1, <1>12 DEF Save
<1>13. ASSUME Restart PROVE FALSE
  BY <1>1, <1>2, <1>13 DEF Restart, TypeOK
<1>14. ASSUME UNCHANGED vars PROVE state[r] = "pending" /\ given' = given
  BY <1>1, <1>14 DEF vars, history
<1> QED
  BY <1>4, <1>5, <1>6, <1>7, <1>8, <1>9, <1>10, <1>11, <1>12, <1>13, <1>14 DEF Next

\* The inductive invariant: an instance starts in it ...
LEMMA InvInit == Init => Inv
<1> SUFFICES ASSUME Init PROVE Inv
  OBVIOUS
<1> USE DEF Init
<1>1. TypeOK
  BY DEF TypeOK, Settled
<1>2. DialogOnce /\ AbortLeavesNoQuestion
  BY DEF DialogOnce, AbortLeavesNoQuestion, Pending, Asks
<1>3. InForce
  <2>1. AllGiven = {}
    BY DEF AllGiven
  <2> QED
    BY <2>1 DEF InForce
<1>4. GrantJustified
  BY DEF GrantJustified, Asks
<1>5. NoAskForGranted
  BY DEF NoAskForGranted, Pending
<1> QED
  BY <1>1, <1>2, <1>3, <1>4, <1>5 DEF Inv

\* ... and every step keeps it.
LEMMA InvStep == Inv /\ [Next]_vars => Inv'
  BY TypeStep, DialogOnceStep, AbortStep, InForceStep, GrantStep, NoAskStep DEF Inv

-----------------------------------------------------------------------------
\* For any requests, sessions, rules and restarts the requests, dialogs and
\* approvals of next.ts and question/index.ts are well typed.
THEOREM TypeCorrect == Spec => []TypeOK
<1>1. Inv => TypeOK
  BY DEF Inv
<1> QED
  BY <1>1, InvInit, InvStep, PTL DEF Spec

\* For any requests and restarts a dialog is shown exactly while an ask() waits,
\* and no request is announced as closed twice.
THEOREM DialogIffPendingCorrect == Spec => []DialogIffPending
<1>1. Inv => DialogIffPending
  BY DEF Inv, DialogOnce, DialogIffPending
<1> QED
  BY <1>1, InvInit, InvStep, PTL DEF Spec

\* For any rules and approvals a request that is granted without an answer of its
\* own has all its patterns allowed.
THEOREM GrantJustifiedCorrect == Spec => []GrantJustified
<1>1. Inv => GrantJustified
  BY DEF Inv
<1> QED
  BY <1>1, InvInit, InvStep, PTL DEF Spec

\* For any requests the user is not asked for what he approved for good in the
\* same session, unless a write of the approvals was lost.
THEOREM NoAskForGrantedCorrect == Spec => []NoAskForGranted
<1>1. Inv => NoAskForGranted
  BY DEF Inv
<1> QED
  BY <1>1, InvInit, InvStep, PTL DEF Spec

\* For any order of question and abort no question waits on an aborted stream.
THEOREM AbortLeavesNoQuestionCorrect == Spec => []AbortLeavesNoQuestion
<1>1. Inv => AbortLeavesNoQuestion
  BY DEF Inv
<1> QED
  BY <1>1, InvInit, InvStep, PTL DEF Spec

\* For any number of approvals and restarts, all that were given are on disk and in
\* force once no write is under way and none was lost.
THEOREM ApprovalsPersistCorrect == Spec => []ApprovalsPersist
<1>1. Inv => ApprovalsPersist
  BY DEF Inv, InForce, AllGiven, ApprovalsPersist
<1> QED
  BY <1>1, InvInit, InvStep, PTL DEF Spec
=============================================================================
