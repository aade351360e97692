------------------------------ MODULE Requests ------------------------------
(***************************************************************************)
(* What a running tool asks the user: permission requests                   *)
(* (permission/next.ts) and questions (question/index.ts) of one workspace  *)
(* instance, the events that open and close their dialogs in the clients,   *)
(* and the approvals kept on disk.                                          *)
(*                                                                         *)
(* A rule set is what it says about each pattern.  Approvals only ever      *)
(* allow, and come last in evaluate(), so they are a set of patterns.  Both *)
(* ask() functions await before they look at the state; both reply()        *)
(* functions do as well, but look everything up afterwards.                 *)
(***************************************************************************)
EXTENDS Naturals, Sequences, FiniteSets

CONSTANTS
  Permissions,  \* permission requests
  Questions,    \* questions
  Streams,      \* sessions, each with the abort signal of its stream
  StreamOf,     \* [Permissions \cup Questions -> Streams]
  Patterns,     \* what requests are about
  PatternsOf,   \* [Permissions -> Seq(Patterns)]
  AlwaysOf,     \* [Permissions -> SUBSET Patterns]: what its "always" covers
  Rule,         \* [Patterns -> {"allow", "ask", "deny"}]: the configured rules
  MaxRestarts   \* bound: the process ends and is started again

Asks == Permissions \cup Questions

ASSUME RequestsAssumption ==
  /\ Permissions \cap Questions = {}
  /\ StreamOf \in [Asks -> Streams]
  /\ PatternsOf \in [Permissions -> Seq(Patterns)]
  /\ AlwaysOf \in [Permissions -> SUBSET Patterns]
  /\ Rule \in [Patterns -> {"allow", "ask", "deny"}]
  /\ MaxRestarts \in Nat

VARIABLES
  state,     \* [Asks -> where the caller of ask() is]
  auto,      \* permissionMode is "auto"
  approved,  \* the approved rules in memory
  stored,    \* ... and on disk
  saving,    \* Storage.write calls under way
  aborted,   \* streams that were aborted
  dialog,    \* [Asks -> "none", "open", "closed"]: what the published events say
  twice,     \* history: a dialog was closed that was not open
  answered,  \* history: permission requests the user answered himself
  given,     \* history: [Streams -> patterns approved for good in it]
  unsaved,   \* history: a write failed or was cut off
  restarts

store == <<approved, stored, saving>>
history == <<answered, given, unsaved>>
vars == <<state, auto, store, aborted, dialog, twice, history, restarts>>

Settled == {"granted", "answered", "rejected", "denied", "lost"}
Pending == {r \in Asks : state[r] = "pending"}

Init ==
  /\ state = [r \in Asks |-> "new"]
  /\ auto \in BOOLEAN
  /\ approved = {} /\ stored = {} /\ saving = 0
  /\ aborted = {}
  /\ dialog = [r \in Asks |-> "none"] /\ twice = FALSE
  /\ answered = {} /\ given = [s \in Streams |-> {}] /\ unsaved = FALSE
  /\ restarts = 0

-----------------------------------------------------------------------------
\* The closing events of the requests R, which leave the state `to`.
Settle(R, to) == state' = [r \in Asks |-> IF r \in R THEN to ELSE state[r]]

Closed(R) ==
  /\ dialog' = [r \in Asks |-> IF r \in R THEN "closed" ELSE dialog[r]]
  /\ twice' = (twice \/ \E r \in R : dialog[r] = "closed")

\* ask() is called; it awaits the configuration and the state.
Ask(r) ==
  /\ state[r] = "new"
  /\ state' = [state EXCEPT ![r] = "asking"]
  /\ UNCHANGED <<auto, store, aborted, dialog, twice, history, restarts>>

-----------------------------------------------------------------------------
(* Permission requests.                                                     *)

\* evaluate() over the configured rules and the approvals; "auto" mode turns a
\* question into a yes.
Action(p) ==
  IF p \in approved THEN "allow"
  ELSE IF Rule[p] = "ask" /\ auto THEN "allow" ELSE Rule[p]

\* The patterns that end ask()'s loop, by position.
Stops(r) == {i \in 1..Len(PatternsOf[r]) : Action(PatternsOf[r][i]) # "allow"}

\* The rest of ask(): the first pattern that is not allowed decides.
Evaluate(r) ==
  /\ r \in Permissions /\ state[r] = "asking"
  /\ \/ /\ Stops(r) = {}
        /\ Settle({r}, "granted") /\ UNCHANGED dialog
     \/ \E i \in Stops(r) :
          /\ \A k \in Stops(r) : i <= k
          /\ IF Action(PatternsOf[r][i]) = "deny"
               THEN Settle({r}, "denied") /\ UNCHANGED dialog
               ELSE Settle({r}, "pending") /\ dialog' = [dialog EXCEPT ![r] = "open"]
  /\ UNCHANGED <<auto, store, aborted, twice, history, restarts>>

Others(r) == {q \in Pending \cap Permissions : q # r /\ StreamOf[q] = StreamOf[r]}

ReplyOnce(r) ==
  /\ r \in Pending \cap Permissions
  /\ Settle({r}, "granted") /\ Closed({r})
  /\ answered' = answered \cup {r}
  /\ UNCHANGED <<auto, store, aborted, given, unsaved, restarts>>

\* A plausible bug: the requests rejected along are not announced.
RejectAnnouncesOne(r) ==
  /\ r \in Pending \cap Permissions
  /\ Settle({r} \cup Others(r), "rejected") /\ Closed({r})
  /\ answered' = answered \cup {r}
  /\ UNCHANGED <<auto, store, aborted, given, unsaved, restarts>>

\* A reject takes the session's other pending requests with it.
ReplyReject(r) ==
  /\ r \in Pending \cap Permissions
  /\ Settle({r} \cup Others(r), "rejected") /\ Closed({r} \cup Others(r))
  /\ answered' = answered \cup {r}
  /\ UNCHANGED <<auto, store, aborted, given, unsaved, restarts>>

\* Plausible bugs: one approved pattern is enough; nothing is released at all.
ReleasedBySome(r) ==
  {q \in Others(r) : \E i \in 1..Len(PatternsOf[q]) : PatternsOf[q][i] \in approved'}
ReleasedNone(r) == {}

\* The pending requests of the session that the approvals now cover.
Released(r) ==
  {q \in Others(r) : \A i \in 1..Len(PatternsOf[q]) : PatternsOf[q][i] \in approved'}

Approves(r) == AlwaysOf[r]

\* "always": approve, release, and start to save.
ReplyAlways(r) ==
  /\ r \in Pending \cap Permissions
  /\ approved' = approved \cup Approves(r)
  /\ Settle({r} \cup Released(r), "granted") /\ Closed({r} \cup Released(r))
  /\ saving' = saving + 1
  /\ answered' = answered \cup {r}
  /\ given' = [given EXCEPT ![StreamOf[r]] = @ \cup AlwaysOf[r]]
  /\ UNCHANGED <<auto, stored, aborted, unsaved, restarts>>

\* A plausible bug: only rules that are not yet on disk are written.
SavedNewOnly == approved \ stored

\* Storage.write serialises the live list when it gets the file's lock.
Saved == approved

Save(ok) ==
  /\ saving > 0
  /\ saving' = saving - 1
  /\ stored' = IF ok THEN Saved ELSE stored
  /\ unsaved' = (unsaved \/ ~ok)
  /\ UNCHANGED <<state, auto, approved, aborted, dialog, twice, answered, given, restarts>>

-----------------------------------------------------------------------------
(* Questions.                                                               *)

\* A plausible bug: an abort before the question is not noticed.
AskIgnoresAbort(q) ==
  /\ q \in Questions /\ state[q] = "asking"
  /\ Settle({q}, "pending") /\ dialog' = [dialog EXCEPT ![q] = "open"]
  /\ UNCHANGED <<auto, store, aborted, twice, history, restarts>>

\* The rest of ask(): a stream that is already torn down gets its rejection, with
\* the event, and no dialog.
AskQuestion(q) ==
  /\ q \in Questions /\ state[q] = "asking"
  /\ IF StreamOf[q] \in aborted
       THEN Settle({q}, "rejected") /\ Closed({q})
       ELSE /\ Settle({q}, "pending") /\ dialog' = [dialog EXCEPT ![q] = "open"]
            /\ UNCHANGED twice
  /\ UNCHANGED <<auto, store, aborted, history, restarts>>

\* reply() and reject(): the abort listener is disposed of.
ReplyQuestion(q) ==
  /\ q \in Pending \cap Questions
  /\ \E to \in {"answered", "rejected"} : Settle({q}, to)
  /\ Closed({q})
  /\ UNCHANGED <<auto, store, aborted, history, restarts>>

\* The abort listeners of the stream's pending questions.
Listening(s) == {q \in Questions : state[q] = "pending" /\ StreamOf[q] = s}

\* The stream is aborted.  Permission requests do not listen.
Abort(s) ==
  /\ s \notin aborted
  /\ aborted' = aborted \cup {s}
  /\ Settle(Listening(s), "rejected") /\ Closed(Listening(s))
  /\ UNCHANGED <<auto, store, history, restarts>>

-----------------------------------------------------------------------------
\* The process ends; the state is made anew from the file.  Clients bootstrap
\* again, which clears their dialogs.
Restart ==
  /\ restarts < MaxRestarts
  /\ restarts' = restarts + 1
  /\ state' = [r \in Asks |-> IF state[r] \in {"asking", "pending"} THEN "lost" ELSE state[r]]
  /\ dialog' = [r \in Asks |-> IF dialog[r] = "open" THEN "none" ELSE dialog[r]]
  /\ approved' = stored
  /\ saving' = 0
  /\ unsaved' = (unsaved \/ saving > 0)
  /\ UNCHANGED <<auto, stored, aborted, twice, answered, given>>

Next ==
  \/ \E r \in Asks : Ask(r)
  \/ \E r \in Permissions : Evaluate(r) \/ ReplyOnce(r) \/ ReplyReject(r) \/ ReplyAlways(r)
  \/ \E ok \in BOOLEAN : Save(ok)
  \/ \E q \in Questions : AskQuestion(q) \/ ReplyQuestion(q)
  \/ \E s \in Streams : Abort(s)
  \/ Restart

Spec == Init /\ [][Next]_vars

-----------------------------------------------------------------------------
\* Requests, dialogs and approvals have the values the code gives them.
TypeOK ==
  /\ state \in [Asks -> {"new", "asking", "pending"} \cup Settled]
  /\ dialog \in [Asks -> {"none", "open", "closed"}]
  /\ given \in [Streams -> SUBSET Patterns]
  /\ approved \subseteq Patterns /\ stored \subseteq Patterns
  /\ saving \in Nat
  /\ aborted \subseteq Streams

\* A client that follows the events shows a dialog exactly while an ask() waits
\* for it: cascades, aborts and late answers announce each request once.
DialogIffPending ==
  /\ \A r \in Asks : dialog[r] = "open" <=> state[r] = "pending"
  /\ ~twice

\* A request that goes through without an answer of its own, at once or in the wake
\* of an "always", has every pattern allowed by a rule or by an approval.
GrantJustified ==
  \A r \in Permissions \ answered : state[r] = "granted" =>
     \A i \in 1..Len(PatternsOf[r]) :
        LET p == PatternsOf[r][i]
        IN Rule[p] = "allow" \/ (auto /\ Rule[p] = "ask") \/ \E s \in Streams : p \in given[s]

\* The user is not asked for what he has approved for good in the same session: a
\* request that was pending then is released, one that was on its way is granted.
\* Approvals that were not saved end with the process.
NoAskForGranted ==
  \A r \in Pending \cap Permissions :
     unsaved \/ \E i \in 1..Len(PatternsOf[r]) : PatternsOf[r][i] \notin given[StreamOf[r]]

\* No question waits on a stream that was aborted, whichever came first.
AbortLeavesNoQuestion == \A q \in Pending \cap Questions : StreamOf[q] \notin aborted

\* next.ts: "This persists user-approved permission rules across sessions": when no
\* write is under way and none was lost, every approval ever given is on disk and
\* in force, restarts included.
ApprovalsPersist ==
  saving = 0 /\ ~unsaved =>
    /\ stored = UNION {given[s] : s \in Streams}
    /\ approved = stored
=============================================================================
