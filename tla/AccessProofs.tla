---------------------------- MODULE AccessProofs ----------------------------
(***************************************************************************)
(* Theorems about Access, for any number of requests, users, codes and     *)
(* sources, whatever administrators, the channel and the clock do.         *)
(***************************************************************************)
EXTENDS Access, ContentCatalogProofs

\* What a step does to the requests: one handler moves, the others stay.
LEMMA BecomeOnly ==
    ASSUME TypeOK, NEW r \in Requests
    PROVE  \A k : Become(r, k) =>
              req'[r] = k /\ \A q \in Requests \ {r} : req'[q] = req[q]
BY DEF TypeOK, Become

LEMMA BecomeType ==
    ASSUME TypeOK, NEW r \in Requests, NEW k \in Handling, Become(r, k)
    PROVE  req' \in [Requests -> Handling]
BY DEF TypeOK, Become

LEMMA GotoType ==
    ASSUME TypeOK, NEW r \in Requests, NEW pc \in {"read", "member", "copy", "done"},
           Goto(r, pc)
    PROVE  req' \in [Requests -> Handling]
<1>1. \A k \in Handling : [k EXCEPT !.pc = pc] \in Handling
  BY DEF Handling
<1>2. req[r] \in Handling
  BY DEF TypeOK
<1> QED
  BY <1>1, <1>2, BecomeType DEF Goto

LEMMA ConcludeType ==
    ASSUME TypeOK, NEW r \in Requests, NEW outcome \in Outcomes, Conclude(r, outcome)
    PROVE  req' \in [Requests -> Handling]
<1>1. \A k \in Handling :
         [k EXCEPT !.pc = "reply", !.outcome = outcome, !.held = {}] \in Handling
  BY DEF Handling
<1>2. req[r] \in Handling
  BY DEF TypeOK
<1> QED
  BY <1>1, <1>2, BecomeType DEF Conclude

\* The handler after Telegram failed to say whether the user is a member.
Unsure(r) == [req[r] EXCEPT !.pc = "reply", !.outcome = "membership",
                            !.held = {}, !.failure = TRUE]

LEMMA UnsureRequest ==
    ASSUME NEW r, req[r] \in Handling
    PROVE  /\ Unsure(r) \in Handling
           /\ Unsure(r).pc = "reply" /\ Unsure(r).outcome = "membership"
           /\ Unsure(r).held = {} /\ Unsure(r).copied = req[r].copied
           /\ Unsure(r).from = req[r].from /\ Unsure(r).failure
<1>1. \A k \in Handling :
         LET next == [k EXCEPT !.pc = "reply", !.outcome = "membership",
                               !.held = {}, !.failure = TRUE]
         IN  /\ next \in Handling
             /\ next.pc = "reply" /\ next.outcome = "membership" /\ next.held = {}
             /\ next.copied = k.copied /\ next.from = k.from /\ next.failure
  BY DEF Handling, Outcomes
<1> QED
  BY <1>1 DEF Unsure

LEMMA OpenedType ==
    ASSUME NEW kind \in {"start", "link", "check"}, NEW pc \in {"new", "ensure", "read"},
           NEW user \in Users, NEW code \in Codes \cup {Malformed}, NEW from \in SUBSET Requests
    PROVE  Opened(kind, pc, user, code, from) \in Handling
BY DEF Opened, Handling, Outcomes

-----------------------------------------------------------------------------
(* The handlers keep the types of what they write.                         *)

Typed == req' \in [Requests -> Handling] /\ prompt' \in [Requests -> {"none", "open", "resolved"}]

LEMMA StartType ==
    ASSUME TypeOK, NEW r \in Requests, Start(r) PROVE Typed
<1>1. ASSUME NEW user \in Users, StartWelcome(r, user) PROVE Typed
  BY <1>1, OpenedType, BecomeType DEF StartWelcome, Typed, TypeOK
<1>2. ASSUME NEW user \in Users, NEW code \in Codes \cup {Malformed},
             StartLink(r, user, code)
      PROVE  Typed
  BY <1>2, OpenedType, BecomeType DEF StartLink, Typed, TypeOK
<1>3. ASSUME NEW user \in Users, NEW p \in Requests, StartCheck(r, user, p)
      PROVE  Typed
  <2>1. req[p].code \in Codes \cup {Malformed}
    BY DEF TypeOK, Handling
  <2> QED
    BY <1>3, <2>1, OpenedType, BecomeType DEF StartCheck, Typed, TypeOK
<1> QED
  BY <1>1, <1>2, <1>3 DEF Start

LEMMA DeliverType ==
    ASSUME TypeOK, NEW r \in Requests,
           EnsureUser(r) \/ Read(r) \/ Check(r) \/ IsMember(r)
    PROVE  Typed
<1>1. ASSUME NEW content \in Content,
             Become(r, [req[r] EXCEPT !.pc = "check", !.held = {content}])
      PROVE  req' \in [Requests -> Handling]
  <2>1. \A k \in Handling : [k EXCEPT !.pc = "check", !.held = {content}] \in Handling
    BY DEF Handling
  <2>2. req[r] \in Handling
    BY DEF TypeOK
  <2> QED
    BY <1>1, <2>1, <2>2, BecomeType
<1>2. {"welcome", "invalid", "not_found", "inactive", "expired", "membership"} \subseteq Outcomes
  BY DEF Outcomes
<1>3. CASE EnsureUser(r) \/ Check(r) \/ IsMember(r)
  <2>1. Become(r, Unsure(r)) => req' \in [Requests -> Handling]
    BY UnsureRequest, BecomeType DEF TypeOK
  <2> QED
    BY <1>2, <1>3, <2>1, GotoType, ConcludeType
       DEF EnsureUser, Check, IsMember, Unsure, Typed, TypeOK
<1>4. CASE Read(r)
  <2>1. req[r].code \in DOMAIN catalog => catalog[req[r].code] \in Content
    BY DEF TypeOK, CatalogTypeOK
  <2> QED
    BY <1>1, <1>2, <1>4, <2>1, ConcludeType DEF Read, Found, Typed, TypeOK
<1> QED
  BY <1>3, <1>4

LEMMA CopyType ==
    ASSUME TypeOK, NEW r \in Requests, CopyMessage(r) PROVE Typed
<1> DEFINE sources == {content.source : content \in req[r].held}
<1>1. PICK copied \in {sources} \cup (IF Faults THEN {{}} ELSE {}), outcome \in {"delivered", "failed"} :
         Become(r, [req[r] EXCEPT !.pc = "reply", !.held = {},
                                  !.copied = copied, !.outcome = outcome,
                                  !.failure = @ \/ outcome = "failed"])
  BY DEF CopyMessage, Copied
<1>2. req[r] \in Handling
  BY DEF TypeOK
<1>3. copied \in SUBSET Sources
  BY <1>2 DEF Handling, Content
<1>4. outcome \in Outcomes
  BY <1>1 DEF Outcomes
<1>5. \A k \in Handling :
         [k EXCEPT !.pc = "reply", !.held = {}, !.copied = copied, !.outcome = outcome,
                   !.failure = @ \/ outcome = "failed"] \in Handling
  BY <1>3, <1>4 DEF Handling
<1> QED
  BY <1>1, <1>2, <1>5, BecomeType DEF CopyMessage, Typed, TypeOK

LEMMA AnswerType ==
    ASSUME TypeOK, NEW r \in Requests,
           ReplyMessage(r) \/ AnswerQuery(r) \/ ResolvePrompt(r) \/ Fault(r)
    PROVE  Typed
<1>1. req[r] \in Handling
  BY DEF TypeOK
<1>2. \A k \in Handling : /\ [k EXCEPT !.pc = "done", !.told = TRUE] \in Handling
                          /\ [k EXCEPT !.told = TRUE, !.pc = "done"] \in Handling
                          /\ [k EXCEPT !.told = TRUE, !.pc = "resolve"] \in Handling
                          /\ [k EXCEPT !.pc = "done", !.held = {}, !.failure = TRUE] \in Handling
  BY DEF Handling
<1>3. CASE ReplyMessage(r)
  BY <1>1, <1>2, <1>3, BecomeType DEF ReplyMessage, Typed, TypeOK
<1>4. CASE AnswerQuery(r)
  <2>1. CASE req[r].outcome = "membership"
    BY <1>1, <1>2, <1>4, <2>1, BecomeType DEF AnswerQuery, Typed, TypeOK
  <2>2. CASE req[r].outcome # "membership"
    BY <1>1, <1>2, <1>4, <2>2, BecomeType DEF AnswerQuery, Typed, TypeOK
  <2> QED
    BY <2>1, <2>2
<1>5. CASE ResolvePrompt(r)
  BY <1>5, GotoType DEF ResolvePrompt, Typed, TypeOK
<1>6. CASE Fault(r)
  BY <1>1, <1>2, <1>6, BecomeType DEF Fault, Typed, TypeOK
<1> QED
  BY <1>3, <1>4, <1>5, <1>6

\* The histories, once the rest of the state has its type.
LEMMA ObserveType ==
    ASSUME TypeOK, CatalogTypeOK', Observe
    PROVE  /\ seen' \in [Requests -> SUBSET Facts]
           /\ open' \in [Requests -> SUBSET Sources]
<1>1. \A r \in Requests : FactsOf(req[r])' \subseteq Facts
  BY SMT DEF FactsOf, Facts
<1>2. \A r \in Requests : OpenOf(req[r])' \subseteq Sources
  BY DEF OpenOf, CatalogTypeOK, Content
<1> QED
  BY <1>1, <1>2 DEF Observe, TypeOK

\* Type correctness, for any number of handlers at any point of theirs.
LEMMA StepTyped ==
    ASSUME TypeOK, Step
    PROVE  CatalogTypeOK' /\ status' \in [Users -> Statuses] /\ Typed
<1>1. ASSUME NEW r \in Requests, Start(r) \/ Handle(r) \/ Fault(r)
      PROVE  UNCHANGED catalogVars /\ UNCHANGED status /\ Typed
  <2>1. UNCHANGED catalogVars /\ UNCHANGED status
    BY <1>1 DEF Start, StartWelcome, StartLink, StartCheck, Handle, EnsureUser, Read,
       Check, IsMember, CopyMessage, ReplyMessage, AnswerQuery, ResolvePrompt, Fault
  <2> QED
    BY <1>1, <2>1, StartType, DeliverType, CopyType, AnswerType DEF Handle
<1>2. UNCHANGED catalogVars => CatalogTypeOK'
  BY DEF catalogVars, CatalogTypeOK, TypeOK
<1>3. ASSUME NEW user \in Users, ChangeStatus(user)
      PROVE  CatalogTypeOK' /\ status' \in [Users -> Statuses] /\ Typed
  BY <1>2, <1>3 DEF ChangeStatus, TypeOK, Typed
<1>4. CASE Administer
  BY <1>4, CatalogType DEF Administer, TypeOK, Typed
<1> QED
  BY <1>1, <1>2, <1>3, <1>4 DEF Step, TypeOK

LEMMA StepType == TypeOK /\ [Next]_vars => TypeOK'
<1>1. ASSUME TypeOK, UNCHANGED vars PROVE TypeOK'
  BY <1>1 DEF vars, catalogVars, TypeOK, CatalogTypeOK
<1>2. ASSUME TypeOK, Next PROVE TypeOK'
  BY <1>2, StepTyped, ObserveType DEF Next, Typed, TypeOK
<1> QED
  BY <1>1, <1>2

LEMMA InitType == Init => TypeOK
<1> SUFFICES ASSUME Init PROVE TypeOK
  OBVIOUS
<1>1. CatalogTypeOK
  BY ClockAssumption, SMT DEF Init, CatalogInit, CatalogTypeOK
<1>2. req \in [Requests -> Handling]
  BY OpenedType DEF Init
<1> QED
  BY <1>1, <1>2 DEF Init, TypeOK

THEOREM TypeCorrect == Spec => []TypeOK
BY InitType, StepType, PTL DEF Spec

-----------------------------------------------------------------------------

\* Why a delivery is permitted although it acts on a row read two awaits
\* before: the row was in the catalog when it was read, and if it passes the
\* checks later it would have passed them then, since time only runs forward.
Vouched(r) ==
    /\ \A content, other \in req[r].held : content = other
    /\ req[r].pc = "check" =>
          \A content \in req[r].held : Deliverable(content) => content.source \in open[r]
    /\ req[r].pc \in {"member", "copy"} =>
          \A content \in req[r].held : content.source \in open[r]
    /\ req[r].pc = "copy" /\ RequiredChannel => "member" \in seen[r]
    /\ req[r].copied \subseteq open[r]
    /\ req[r].copied # {} /\ RequiredChannel => "member" \in seen[r]
    /\ Deciding(req[r]) => req[r].copied = {}

\* The histories of a request being decided only grow, as far as they bear on
\* what is still to be decided, and what a delivery rests on is kept.
LEMMA HistoriesGrow ==
    ASSUME Observe, NEW r \in Requests
    PROVE  /\ Deciding(req'[r]) =>
                /\ (seen[r] \cup FactsOf(req[r])') \cap Bearing(req'[r].pc) \subseteq seen'[r]
                /\ open[r] \cup OpenOf(req[r])' \subseteq open'[r]
           /\ ~Deciding(req'[r]) /\ req'[r].copied # {} /\ "member" \in seen[r]
                => "member" \in seen'[r]
           /\ req'[r].copied \subseteq open[r] => req'[r].copied \subseteq open'[r]
BY DEF Observe, Evidence

\* The clock runs forward, so what is deliverable later was so before.
LEMMA ClockForward ==
    ASSUME TypeOK, Step PROVE now <= now'
<1>1. CASE UNCHANGED now
  BY <1>1, ClockAssumption, SMT DEF TypeOK, CatalogTypeOK
<1>2. CASE Tick
  BY <1>2, ClockAssumption, SMT DEF TypeOK, CatalogTypeOK, Tick
<1> QED
  BY <1>1, <1>2 DEF Step, Start, StartWelcome, StartLink, StartCheck, Handle, EnsureUser,
     Read, Check, IsMember, CopyMessage, ReplyMessage, AnswerQuery, ResolvePrompt, Fault,
     catalogVars, ChangeStatus, Administer, CatalogNext, Create, SetState, SetExpiration,
     Delete

LEMMA DeliverableBefore ==
    ASSUME TypeOK, Step, NEW content \in Content, Deliverable(content)'
    PROVE  Deliverable(content)
<1>1. \A deadline \in content.expires : deadline \in Nat
  BY ClockAssumption, SMT DEF Content, Deadlines, Dates
<1>2. now \in Nat /\ now' \in Nat
  BY StepTyped, ClockAssumption, SMT DEF TypeOK, CatalogTypeOK
<1>3. content.state = "active" /\ \A deadline \in content.expires : ~(now' > deadline)
  BY DEF Deliverable, Expired
<1>4. \A deadline \in content.expires : ~(now > deadline)
  BY <1>1, <1>2, <1>3, ClockForward, SMT
<1> QED
  BY <1>3, <1>4 DEF Deliverable, Expired

\* A request that does not move stays vouched for.
LEMMA StayVouched ==
    ASSUME TypeOK, Step, Observe, NEW r \in Requests, Vouched(r), req'[r] = req[r]
    PROVE  Vouched(r)'
<1>1. req[r] \in Handling
  BY DEF TypeOK
<1>2. req[r].pc \in {"check", "member", "copy"} => Deciding(req'[r])
  BY DEF Deciding
<1>3. \A content \in req[r].held : Deliverable(content)' => Deliverable(content)
  BY <1>1, DeliverableBefore DEF Handling
<1>4. "member" \in Bearing("copy")
  BY DEF Bearing
<1> QED
  BY <1>2, <1>3, <1>4, HistoriesGrow DEF Vouched

\* A request that moves on, with nothing new delivered and nothing in hand.
LEMMA DropVouched ==
    ASSUME Observe, NEW r \in Requests, Vouched(r),
           req'[r].pc \notin {"check", "member", "copy"},
           req'[r].copied \in {{}, req[r].copied}, req'[r].held \in {{}, req[r].held},
           Deciding(req'[r]) => req'[r].copied = {}
    PROVE  Vouched(r)'
BY HistoriesGrow DEF Vouched

LEMMA StartVouched ==
    ASSUME TypeOK, Observe, NEW r \in Requests, Vouched(r), Start(r)
    PROVE  Vouched(r)'
<1>1. ASSUME NEW kind, NEW pc \in {"ensure", "read"}, NEW user, NEW code, NEW from,
             Become(r, Opened(kind, pc, user, code, from))
      PROVE  Vouched(r)'
  <2>1. req'[r].pc = pc /\ req'[r].copied = {} /\ req'[r].held = {}
    BY <1>1, BecomeOnly DEF Opened
  <2> QED
    BY <2>1, DropVouched
<1>2. ASSUME NEW user, NEW code, StartWelcome(r, user) \/ StartLink(r, user, code)
      PROVE  Vouched(r)'
  BY <1>1, <1>2 DEF StartWelcome, StartLink
<1>3. ASSUME NEW user, NEW p, StartCheck(r, user, p) PROVE Vouched(r)'
  BY <1>1, <1>3 DEF StartCheck
<1> QED
  BY <1>2, <1>3 DEF Start

\* What the two common assignments do to the fields of a request.
LEMMA Moved ==
    ASSUME TypeOK, NEW r \in Requests
    PROVE  /\ \A pc : Goto(r, pc) =>
                 /\ req'[r].pc = pc /\ req'[r].held = req[r].held
                 /\ req'[r].copied = req[r].copied /\ req'[r].user = req[r].user
           /\ \A outcome : Conclude(r, outcome) =>
                 /\ req'[r].pc = "reply" /\ req'[r].held = {}
                 /\ req'[r].copied = req[r].copied
<1>1. req[r] \in Handling
  BY DEF TypeOK
<1>2. ASSUME NEW pc, Goto(r, pc)
      PROVE  /\ req'[r].pc = pc /\ req'[r].held = req[r].held
             /\ req'[r].copied = req[r].copied /\ req'[r].user = req[r].user
  <2>1. \A k \in Handling :
           LET next == [k EXCEPT !.pc = pc]
           IN  /\ next.pc = pc /\ next.held = k.held
               /\ next.copied = k.copied /\ next.user = k.user
    BY DEF Handling
  <2>2. req'[r] = [req[r] EXCEPT !.pc = pc]
    BY <1>2, BecomeOnly DEF Goto
  <2> QED
    BY <1>1, <2>1, <2>2
<1>3. ASSUME NEW outcome, Conclude(r, outcome)
      PROVE  req'[r].pc = "reply" /\ req'[r].held = {} /\ req'[r].copied = req[r].copied
  <2>1. \A k \in Handling :
           LET next == [k EXCEPT !.pc = "reply", !.outcome = outcome, !.held = {}]
           IN  next.pc = "reply" /\ next.held = {} /\ next.copied = k.copied
    BY DEF Handling
  <2>2. req'[r] = [req[r] EXCEPT !.pc = "reply", !.outcome = outcome, !.held = {}]
    BY <1>3, BecomeOnly DEF Conclude
  <2> QED
    BY <1>1, <2>1, <2>2
<1> QED
  BY <1>2, <1>3

LEMMA ConcludeVouched ==
    ASSUME TypeOK, Observe, NEW r \in Requests, Vouched(r), NEW outcome, Conclude(r, outcome)
    PROVE  Vouched(r)'
BY Moved, DropVouched DEF Deciding

LEMMA GotoVouched ==
    ASSUME TypeOK, Observe, NEW r \in Requests, Vouched(r),
           NEW pc \in {"read", "done"}, pc = "read" => Deciding(req[r]), Goto(r, pc)
    PROVE  Vouched(r)'
BY Moved, DropVouched DEF Deciding, Vouched

\* Read: if the row passes the checks now, its source counts as open now.
LEMMA ReadVouched ==
    ASSUME TypeOK, Observe, NEW r \in Requests, Vouched(r), Read(r)
    PROVE  Vouched(r)'
<1>1. CASE Conclude(r, "not_found")
  BY <1>1, ConcludeVouched
<1>2. CASE /\ req[r].code \in DOMAIN catalog
           /\ Become(r, [req[r] EXCEPT !.pc = "check", !.held = {catalog[req[r].code]}])
  <2>1. /\ req'[r].pc = "check" /\ req'[r].held = {catalog[req[r].code]}
        /\ req'[r].copied = req[r].copied /\ req'[r].code = req[r].code
    <3>1. \A row : \A k \in Handling :
             LET next == [k EXCEPT !.pc = "check", !.held = {row}]
             IN  /\ next.pc = "check" /\ next.held = {row}
                 /\ next.copied = k.copied /\ next.code = k.code
      BY DEF Handling
    <3>2. req'[r] = [req[r] EXCEPT !.pc = "check", !.held = {catalog[req[r].code]}]
      BY <1>2, BecomeOnly
    <3>3. req[r] \in Handling
      BY DEF TypeOK
    <3> QED
      BY <3>1, <3>2, <3>3
  <2>2. Deciding(req'[r])
    BY <2>1 DEF Deciding
  <2>3. PICK row : row = catalog[req[r].code]
    OBVIOUS
  <2>4. req'[r].code \in DOMAIN catalog' /\ catalog'[req'[r].code] = row
    BY <1>2, <2>1, <2>3 DEF Read, catalogVars
  <2>5. Deliverable(row)' => row.source \in OpenOf(req[r])'
    BY <2>4 DEF OpenOf, Deliverable, Expired
  <2> QED
    BY <2>1, <2>2, <2>3, <2>5, HistoriesGrow DEF Vouched, Read, Deciding
<1> QED
  BY <1>1, <1>2 DEF Read, Found

\* Check: the row in hand passes, so its source was open when it was read.
LEMMA CheckVouched ==
    ASSUME TypeOK, Observe, NEW r \in Requests, Vouched(r), Check(r)
    PROVE  Vouched(r)'
<1>1. ASSUME NEW content \in req[r].held, content.state = "active", ~Overdue(content),
             Goto(r, "member")
      PROVE  Vouched(r)'
  <2>1. /\ req'[r].pc = "member" /\ req'[r].held = req[r].held
        /\ req'[r].copied = req[r].copied
    BY <1>1, Moved
  <2>2. Deciding(req'[r]) /\ Deciding(req[r])
    BY <2>1 DEF Deciding, Check
  <2>3. Deliverable(content)
    BY <1>1 DEF Deliverable, Overdue
  <2> QED
    BY <1>1, <2>1, <2>2, <2>3, HistoriesGrow DEF Vouched, Check
<1> QED
  BY <1>1, ConcludeVouched DEF Check

\* IsMember: whoever passes is in the channel at this moment.
LEMMA MemberVouched ==
    ASSUME TypeOK, Observe, NEW r \in Requests, Vouched(r), IsMember(r)
    PROVE  Vouched(r)'
<1>1. CASE Goto(r, "copy") /\ (RequiredChannel => Eligible(status[req[r].user]))
  <2>1. /\ req'[r].pc = "copy" /\ req'[r].held = req[r].held
        /\ req'[r].copied = req[r].copied /\ req'[r].user = req[r].user
    BY <1>1, Moved
  <2>2. Deciding(req'[r]) /\ Deciding(req[r]) /\ "member" \in Bearing(req'[r].pc)
    BY <2>1 DEF Deciding, Bearing, IsMember
  <2>3. RequiredChannel => "member" \in FactsOf(req[r])'
    BY <1>1, <2>1 DEF FactsOf, IsMember, Eligible, InChannel
  <2> QED
    BY <2>1, <2>2, <2>3, HistoriesGrow DEF Vouched, IsMember
<1>2. CASE Become(r, Unsure(r))
  <2>1. req'[r] = Unsure(r) /\ req[r] \in Handling
    BY <1>2, BecomeOnly DEF TypeOK
  <2>2. req'[r].pc = "reply" /\ req'[r].held = {} /\ req'[r].copied = req[r].copied
    BY <2>1, UnsureRequest
  <2> QED
    BY <2>2, DropVouched DEF Deciding
<1> QED
  BY <1>1, <1>2, ConcludeVouched DEF IsMember, Unsure

\* CopyMessage: the source was open and the user in the channel.
LEMMA CopyVouched ==
    ASSUME TypeOK, Observe, NEW r \in Requests, Vouched(r), CopyMessage(r)
    PROVE  Vouched(r)'
<1> DEFINE sources == {content.source : content \in req[r].held}
<1>1. PICK copied \in {sources} \cup (IF Faults THEN {{}} ELSE {}), outcome \in {"delivered", "failed"} :
         Become(r, [req[r] EXCEPT !.pc = "reply", !.held = {},
                                  !.copied = copied, !.outcome = outcome,
                                  !.failure = @ \/ outcome = "failed"])
  BY DEF CopyMessage, Copied
<1>2. req'[r].pc = "reply" /\ req'[r].held = {} /\ req'[r].copied = copied
  <2>1. \A k \in Handling :
           LET next == [k EXCEPT !.pc = "reply", !.held = {},
                                 !.copied = copied, !.outcome = outcome,
                                 !.failure = @ \/ outcome = "failed"]
           IN  next.pc = "reply" /\ next.held = {} /\ next.copied = copied
    BY DEF Handling
  <2>2. req'[r] = [req[r] EXCEPT !.pc = "reply", !.held = {},
                                 !.copied = copied, !.outcome = outcome,
                                 !.failure = @ \/ outcome = "failed"]
    BY <1>1, BecomeOnly
  <2>3. req[r] \in Handling
    BY DEF TypeOK
  <2> QED
    BY <2>1, <2>2, <2>3
<1>3. copied \subseteq open[r]
  BY <1>1 DEF Vouched, CopyMessage
<1>4. ~Deciding(req'[r])
  BY <1>2 DEF Deciding
<1> QED
  BY <1>2, <1>3, <1>4, HistoriesGrow DEF Vouched, CopyMessage

LEMMA AnswerVouched ==
    ASSUME TypeOK, Observe, NEW r \in Requests, Vouched(r),
           ReplyMessage(r) \/ AnswerQuery(r) \/ Fault(r)
    PROVE  Vouched(r)'
<1>1. req[r] \in Handling
  BY DEF TypeOK
<1>2. \A k \in Handling :
         /\ [k EXCEPT !.pc = "done", !.told = TRUE].pc = "done"
         /\ [k EXCEPT !.pc = "done", !.told = TRUE].held = k.held
         /\ [k EXCEPT !.pc = "done", !.told = TRUE].copied = k.copied
         /\ [k EXCEPT !.pc = "done", !.held = {}, !.failure = TRUE].pc = "done"
         /\ [k EXCEPT !.pc = "done", !.held = {}, !.failure = TRUE].held = {}
         /\ [k EXCEPT !.pc = "done", !.held = {}, !.failure = TRUE].copied = k.copied
  BY DEF Handling
<1>3. ASSUME NEW pc \in {"done", "resolve"}, Become(r, [req[r] EXCEPT !.told = TRUE, !.pc = pc])
      PROVE  Vouched(r)'
  <2>1. \A k \in Handling :
           LET next == [k EXCEPT !.told = TRUE, !.pc = pc]
           IN  next.pc = pc /\ next.held = k.held /\ next.copied = k.copied
    BY DEF Handling
  <2>2. req'[r] = [req[r] EXCEPT !.told = TRUE, !.pc = pc]
    BY <1>3, BecomeOnly
  <2>3. req'[r].pc = pc /\ req'[r].held = req[r].held /\ req'[r].copied = req[r].copied
    BY <1>1, <2>1, <2>2
  <2> QED
    BY <2>3, DropVouched DEF Deciding
<1>4. CASE ReplyMessage(r)
  <2>1. req'[r] = [req[r] EXCEPT !.pc = "done", !.told = TRUE]
    BY <1>4, BecomeOnly DEF ReplyMessage
  <2> QED
    BY <1>1, <1>2, <2>1, DropVouched DEF Deciding
<1>5. CASE AnswerQuery(r)
  <2>1. CASE req[r].outcome = "membership"
    BY <1>3, <1>5, <2>1 DEF AnswerQuery
  <2>2. CASE req[r].outcome # "membership"
    BY <1>3, <1>5, <2>2 DEF AnswerQuery
  <2> QED
    BY <2>1, <2>2
<1>6. CASE Fault(r)
  <2>1. req'[r] = [req[r] EXCEPT !.pc = "done", !.held = {}, !.failure = TRUE]
    BY <1>6, BecomeOnly DEF Fault
  <2> QED
    BY <1>1, <1>2, <2>1, DropVouched DEF Deciding
<1> QED
  BY <1>4, <1>5, <1>6

\* A delivery acts on what it read before, yet no message reaches a user that
\* was not open to him at some moment of his request, whatever administrators,
\* the channel and the clock do in between.
THEOREM DeliveriesPermitted == Spec => []DeliveryPermitted
<1> DEFINE Inv == \A r \in Requests : Vouched(r)
<1>1. Init => Inv
  BY DEF Init, Opened, Vouched, Deciding
<1>2. ASSUME TypeOK, Inv, [Next]_vars PROVE Inv'
  <2>1. CASE UNCHANGED vars
    BY <1>2, <2>1 DEF vars, catalogVars, Vouched, Deliverable, Expired, Deciding
  <2>2. ASSUME NEW r \in Requests, NEW q \in Requests, Next,
               Start(q) \/ Handle(q) \/ Fault(q)
        PROVE  Vouched(r)'
    <3>1. CASE q = r
      BY <1>2, <2>2, <3>1, StartVouched, ConcludeVouched, GotoVouched, ReadVouched,
         CheckVouched, MemberVouched, CopyVouched, AnswerVouched
         DEF Next, Handle, EnsureUser, ResolvePrompt, Deciding
    <3>2. CASE q # r
      <4>1. req'[r] = req[r]
        BY <1>2, <2>2, <3>2, BecomeOnly DEF Start, StartWelcome, StartLink, StartCheck,
           Handle, EnsureUser, Read, Check, IsMember, CopyMessage, ReplyMessage,
           AnswerQuery, ResolvePrompt, Fault, Goto, Conclude
      <4> QED
        BY <1>2, <2>2, <4>1, StayVouched DEF Next
    <3> QED
      BY <3>1, <3>2
  <2>3. ASSUME NEW r \in Requests, Next, UNCHANGED req PROVE Vouched(r)'
    BY <1>2, <2>3, StayVouched DEF Next
  <2>4. CASE Next
    BY <2>2, <2>3, <2>4 DEF Next, Step, ChangeStatus, Administer
  <2> QED
    BY <1>2, <2>1, <2>4
<1>3. Inv => DeliveryPermitted
  BY DEF Vouched, DeliveryPermitted
<1> QED
  BY <1>1, <1>2, <1>3, InitType, StepType, PTL DEF Spec

-----------------------------------------------------------------------------
(* Refusals.                                                               *)

\* What the outcome of a request rests on, among the facts of its history.
Grounded(outcome, facts, failure) ==
    /\ outcome = "not_found" => "absent" \in facts
    /\ outcome = "inactive" => "inactive" \in facts
    /\ outcome = "expired" => {"expired", "redated"} \cap facts # {}
    /\ outcome = "membership" => "outsider" \in facts \/ failure

\* While a request is decided its history holds what is so now and bears on
\* it, and what was so of the row in hand when it was read.
Justified(r) ==
    /\ Deciding(req[r]) => /\ FactsOf(req[r]) \cap Bearing(req[r].pc) \subseteq seen[r]
                           /\ req[r].outcome = "none"
    /\ req[r].pc = "check" => \A content \in req[r].held :
          content.state # "active" => "inactive" \in seen[r]
    /\ Grounded(req[r].outcome, seen[r], req[r].failure)

\* Settled, a request keeps the fact its outcome rests on.
LEMMA SettledJustified ==
    ASSUME Observe, NEW r \in Requests, ~Deciding(req'[r]),
           Grounded(req'[r].outcome, seen[r], req'[r].failure)
    PROVE  Justified(r)'
<1>1. seen'[r] = seen[r] \cap Evidence(req'[r]) /\ req'[r].pc # "check"
  BY DEF Observe, Deciding
<1>2. Grounded(req'[r].outcome, seen'[r], req'[r].failure)
  BY <1>1 DEF Grounded, Evidence
<1> QED
  BY <1>1, <1>2 DEF Justified, Deciding

\* Undecided, it has no outcome yet.
LEMMA DecidingJustified ==
    ASSUME Observe, NEW r \in Requests, Deciding(req'[r]), req'[r].outcome = "none",
           req'[r].pc = "check" => \A content \in req'[r].held :
              content.state # "active" => "inactive" \in seen'[r]
    PROVE  Justified(r)'
<1>1. FactsOf(req[r])' \cap Bearing(req'[r].pc) \subseteq seen'[r]
  BY HistoriesGrow
<1> QED
  BY <1>1 DEF Justified, Grounded

\* A request that does not move, whatever the others do.
LEMMA StayJustified ==
    ASSUME Observe, NEW r \in Requests, Justified(r), req'[r] = req[r]
    PROVE  Justified(r)'
<1>1. CASE Deciding(req'[r])
  <2>1. seen[r] \cap Bearing(req'[r].pc) \subseteq seen'[r]
    BY <1>1, HistoriesGrow
  <2>2. req'[r].outcome = "none"
    BY <1>1 DEF Justified
  <2>3. req'[r].pc = "check" => \A content \in req'[r].held :
           content.state # "active" => "inactive" \in seen'[r]
    BY <2>1 DEF Justified, Bearing
  <2> QED
    BY <1>1, <2>2, <2>3, DecidingJustified
<1>2. CASE ~Deciding(req'[r])
  BY <1>2, SettledJustified DEF Justified
<1> QED
  BY <1>1, <1>2

\* What the assignments of the handlers do to the outcome.
LEMMA OutcomeMoved ==
    ASSUME TypeOK, NEW r \in Requests
    PROVE  /\ \A pc : Goto(r, pc) =>
                 req'[r].pc = pc /\ req'[r].outcome = req[r].outcome
                 /\ req'[r].told = req[r].told /\ req'[r].from = req[r].from
                 /\ req'[r].failure = req[r].failure
           /\ \A outcome : Conclude(r, outcome) =>
                 req'[r].pc = "reply" /\ req'[r].outcome = outcome
                 /\ req'[r].from = req[r].from
<1>1. req[r] \in Handling
  BY DEF TypeOK
<1>2. ASSUME NEW pc, Goto(r, pc)
      PROVE  req'[r].pc = pc /\ req'[r].outcome = req[r].outcome
             /\ req'[r].told = req[r].told /\ req'[r].from = req[r].from
             /\ req'[r].failure = req[r].failure
  <2>1. \A k \in Handling :
           LET next == [k EXCEPT !.pc = pc]
           IN  next.pc = pc /\ next.outcome = k.outcome /\ next.told = k.told
               /\ next.from = k.from /\ next.failure = k.failure
    BY DEF Handling
  <2>2. req'[r] = [req[r] EXCEPT !.pc = pc]
    BY <1>2, BecomeOnly DEF Goto
  <2> QED
    BY <1>1, <2>1, <2>2
<1>3. ASSUME NEW outcome, Conclude(r, outcome)
      PROVE  req'[r].pc = "reply" /\ req'[r].outcome = outcome /\ req'[r].from = req[r].from
  <2>1. \A k \in Handling :
           LET next == [k EXCEPT !.pc = "reply", !.outcome = outcome, !.held = {}]
           IN  next.pc = "reply" /\ next.outcome = outcome /\ next.from = k.from
    BY DEF Handling
  <2>2. req'[r] = [req[r] EXCEPT !.pc = "reply", !.outcome = outcome, !.held = {}]
    BY <1>3, BecomeOnly DEF Conclude
  <2> QED
    BY <1>1, <2>1, <2>2
<1> QED
  BY <1>2, <1>3

LEMMA ConcludeJustified ==
    ASSUME TypeOK, Observe, NEW r \in Requests, NEW outcome, Conclude(r, outcome),
           Grounded(outcome, seen[r], FALSE)
    PROVE  Justified(r)'
<1>1. Grounded(outcome, seen[r], req'[r].failure)
  BY DEF Grounded
<1> QED
  BY <1>1, OutcomeMoved, SettledJustified DEF Deciding

LEMMA GotoJustified ==
    ASSUME TypeOK, Observe, NEW r \in Requests, Justified(r), Deciding(req[r]),
           NEW pc \in {"read", "member", "copy"}, Goto(r, pc)
    PROVE  Justified(r)'
<1>1. req'[r].pc = pc /\ req'[r].outcome = "none"
  BY OutcomeMoved DEF Justified
<1> QED
  BY <1>1, DecidingJustified DEF Deciding

LEMMA StartJustified ==
    ASSUME TypeOK, Observe, NEW r \in Requests, Start(r) PROVE Justified(r)'
<1>1. ASSUME NEW kind, NEW pc \in {"ensure", "read"}, NEW user, NEW code, NEW from,
             Become(r, Opened(kind, pc, user, code, from))
      PROVE  Justified(r)'
  <2>1. req'[r].pc = pc /\ req'[r].outcome = "none"
    BY <1>1, BecomeOnly DEF Opened
  <2> QED
    BY <2>1, DecidingJustified DEF Deciding
<1>2. ASSUME NEW user, NEW code, StartWelcome(r, user) \/ StartLink(r, user, code)
      PROVE  Justified(r)'
  BY <1>1, <1>2 DEF StartWelcome, StartLink
<1>3. ASSUME NEW user, NEW p, StartCheck(r, user, p) PROVE Justified(r)'
  BY <1>1, <1>3 DEF StartCheck
<1> QED
  BY <1>2, <1>3 DEF Start

\* Read: an absent code is seen absent, and a row with what is wrong with it.
LEMMA ReadJustified ==
    ASSUME TypeOK, Observe, NEW r \in Requests, Justified(r), Read(r)
    PROVE  Justified(r)'
<1>1. {"absent", "inactive"} \cap FactsOf(req[r]) \subseteq seen[r]
  BY DEF Read, Justified, Deciding, Bearing
<1>2. CASE req[r].code \notin DOMAIN catalog /\ Conclude(r, "not_found")
  <2>1. "absent" \in seen[r]
    BY <1>1, <1>2 DEF FactsOf
  <2> QED
    BY <1>2, <2>1, ConcludeJustified DEF Grounded
<1>3. CASE /\ req[r].code \in DOMAIN catalog
           /\ Become(r, [req[r] EXCEPT !.pc = "check", !.held = {catalog[req[r].code]}])
  <2>1. /\ req'[r].pc = "check" /\ req'[r].held = {catalog[req[r].code]}
        /\ req'[r].outcome = req[r].outcome
    <3>1. \A row : \A k \in Handling :
             LET next == [k EXCEPT !.pc = "check", !.held = {row}]
             IN  next.pc = "check" /\ next.held = {row} /\ next.outcome = k.outcome
      BY DEF Handling
    <3>2. req'[r] = [req[r] EXCEPT !.pc = "check", !.held = {catalog[req[r].code]}]
      BY <1>3, BecomeOnly
    <3>3. req[r] \in Handling
      BY DEF TypeOK
    <3> QED
      BY <3>1, <3>2, <3>3
  <2>2. /\ Deciding(req'[r]) /\ req'[r].outcome = "none"
    BY <2>1 DEF Deciding, Justified, Read
  <2>3. seen[r] \cap {"inactive"} \subseteq seen'[r]
    BY <2>1, <2>2, HistoriesGrow DEF Bearing
  <2>4. \A content \in req'[r].held : content.state # "active" => "inactive" \in seen[r]
    BY <1>1, <1>3, <2>1 DEF FactsOf
  <2> QED
    BY <2>2, <2>3, <2>4, DecidingJustified
<1> QED
  BY <1>2, <1>3 DEF Read, Found

LEMMA CheckJustified ==
    ASSUME TypeOK, Observe, NEW r \in Requests, Justified(r), Check(r)
    PROVE  Justified(r)'
<1>1. CASE Goto(r, "member")
  BY <1>1, GotoJustified DEF Check, Deciding
<1>2. ASSUME NEW content \in req[r].held, content.state # "active", Conclude(r, "inactive")
      PROVE  Justified(r)'
  <2>1. "inactive" \in seen[r]
    BY <1>2 DEF Check, Justified
  <2> QED
    BY <1>2, <2>1, ConcludeJustified DEF Grounded
<1>3. ASSUME NEW content \in req[r].held, Overdue(content), Conclude(r, "expired")
      PROVE  Justified(r)'
  <2>1. {"expired", "redated"} \cap FactsOf(req[r]) \subseteq seen[r]
    BY DEF Check, Justified, Deciding, Bearing
  <2>2. CASE Redated(req[r])
    BY <1>3, <2>1, <2>2, ConcludeJustified DEF FactsOf, Grounded
  <2>3. CASE ~Redated(req[r])
    <3>1. /\ req[r].code \in DOMAIN catalog
          /\ catalog[req[r].code].expires = content.expires
      BY <1>3, <2>3 DEF Redated
    <3>2. Expired(catalog[req[r].code])
      BY <1>3, <3>1 DEF Overdue, Expired
    <3> QED
      BY <1>3, <2>1, <3>1, <3>2, ConcludeJustified DEF FactsOf, Grounded
  <2> QED
    BY <2>2, <2>3
<1> QED
  BY <1>1, <1>2, <1>3 DEF Check

\* IsMember: whoever is refused without a failure is outside at this moment.
LEMMA MemberJustified ==
    ASSUME TypeOK, Observe, NEW r \in Requests, Justified(r), IsMember(r)
    PROVE  Justified(r)'
<1>1. CASE Goto(r, "copy")
  BY <1>1, GotoJustified DEF IsMember, Deciding
<1>2. CASE Conclude(r, "membership") /\ ~Eligible(status[req[r].user])
  <2>1. status[req[r].user] \in ChatStatuses
    BY AccessAssumption DEF TypeOK, Handling
  <2>2. ~InChannel(status[req[r].user])
    BY <1>2, <2>1 DEF Eligible, InChannel, ChatStatuses
  <2>3. "outsider" \in seen[r]
    BY <2>2 DEF IsMember, Justified, Deciding, FactsOf, Bearing
  <2> QED
    BY <1>2, <2>3, ConcludeJustified DEF Grounded
<1>3. CASE Become(r, Unsure(r))
  <2>1. req'[r] = Unsure(r) /\ req[r] \in Handling
    BY <1>3, BecomeOnly DEF TypeOK
  <2>2. req'[r].pc = "reply" /\ req'[r].outcome = "membership" /\ req'[r].failure
    BY <2>1, UnsureRequest
  <2> QED
    BY <2>2, SettledJustified DEF Deciding, Grounded
<1> QED
  BY <1>1, <1>2, <1>3 DEF IsMember, Unsure

\* The copy and the answers refuse nothing that was not refused already.
LEMMA CopyOutcome ==
    ASSUME TypeOK, NEW r \in Requests, CopyMessage(r)
    PROVE  /\ req'[r].pc = "reply" /\ req'[r].outcome \in {"delivered", "failed"}
           /\ req'[r].from = req[r].from
<1>1. PICK copied \in {Copied(req[r])} \cup (IF Faults THEN {{}} ELSE {}),
            outcome \in {"delivered", "failed"} :
         Become(r, [req[r] EXCEPT !.pc = "reply", !.held = {},
                                  !.copied = copied, !.outcome = outcome,
                                  !.failure = @ \/ outcome = "failed"])
  BY DEF CopyMessage
<1>2. req'[r] = [req[r] EXCEPT !.pc = "reply", !.held = {},
                               !.copied = copied, !.outcome = outcome,
                               !.failure = @ \/ outcome = "failed"]
  BY <1>1, BecomeOnly
<1>3. \A k \in Handling :
         LET next == [k EXCEPT !.pc = "reply", !.held = {},
                               !.copied = copied, !.outcome = outcome,
                               !.failure = @ \/ outcome = "failed"]
         IN  next.pc = "reply" /\ next.outcome = outcome /\ next.from = k.from
  BY DEF Handling
<1>4. req[r] \in Handling
  BY DEF TypeOK
<1> QED
  BY <1>2, <1>3, <1>4

LEMMA AnswerOutcome ==
    ASSUME TypeOK, NEW r \in Requests,
           ReplyMessage(r) \/ AnswerQuery(r) \/ ResolvePrompt(r) \/ Fault(r)
    PROVE  /\ req'[r].pc \in {"done", "resolve"} /\ req'[r].outcome = req[r].outcome
           /\ req'[r].from = req[r].from
           /\ req[r].told => req'[r].told
           /\ req[r].failure => req'[r].failure
           /\ req'[r].pc = "resolve" => /\ req[r].pc = "reply" /\ req'[r].told
                                        /\ req[r].outcome # "membership"
<1>1. req[r] \in Handling
  BY DEF TypeOK
<1>2. ASSUME NEW pc \in {"done", "resolve"},
             \/ req'[r] = [req[r] EXCEPT !.told = TRUE, !.pc = pc]
             \/ req'[r] = [req[r] EXCEPT !.pc = pc, !.told = TRUE]
      PROVE  /\ req'[r].pc = pc /\ req'[r].outcome = req[r].outcome
             /\ req'[r].from = req[r].from /\ req'[r].told
             /\ req'[r].failure = req[r].failure
  <2>1. \A k \in Handling :
           LET one == [k EXCEPT !.told = TRUE, !.pc = pc]
               two == [k EXCEPT !.pc = pc, !.told = TRUE]
           IN  /\ one.pc = pc /\ one.outcome = k.outcome /\ one.from = k.from /\ one.told
               /\ two.pc = pc /\ two.outcome = k.outcome /\ two.from = k.from /\ two.told
               /\ one.failure = k.failure /\ two.failure = k.failure
    BY DEF Handling
  <2> QED
    BY <1>1, <1>2, <2>1
<1>3. CASE ReplyMessage(r)
  <2>1. req'[r] = [req[r] EXCEPT !.pc = "done", !.told = TRUE]
    BY <1>3, BecomeOnly DEF ReplyMessage
  <2> QED
    BY <1>2, <2>1
<1>4. CASE AnswerQuery(r)
  <2>1. CASE req[r].outcome = "membership"
    <3>1. req'[r] = [req[r] EXCEPT !.told = TRUE, !.pc = "done"]
      BY <1>4, <2>1, BecomeOnly DEF AnswerQuery
    <3> QED
      BY <1>2, <3>1
  <2>2. CASE req[r].outcome # "membership"
    <3>1. req'[r] = [req[r] EXCEPT !.told = TRUE, !.pc = "resolve"] /\ req[r].pc = "reply"
      BY <1>4, <2>2, BecomeOnly DEF AnswerQuery
    <3> QED
      BY <1>2, <2>2, <3>1
  <2> QED
    BY <2>1, <2>2
<1>5. CASE ResolvePrompt(r)
  BY <1>5, OutcomeMoved DEF ResolvePrompt
<1>6. CASE Fault(r)
  <2>1. req'[r] = [req[r] EXCEPT !.pc = "done", !.held = {}, !.failure = TRUE]
    BY <1>6, BecomeOnly DEF Fault
  <2>2. \A k \in Handling :
           LET next == [k EXCEPT !.pc = "done", !.held = {}, !.failure = TRUE]
           IN  next.pc = "done" /\ next.outcome = k.outcome /\ next.from = k.from
               /\ next.told = k.told /\ next.failure
    BY DEF Handling
  <2>3. req'[r].pc = "done" /\ req'[r].outcome = req[r].outcome
        /\ req'[r].from = req[r].from /\ req'[r].told = req[r].told /\ req'[r].failure
    BY <1>1, <2>1, <2>2
  <2> QED
    BY <2>3
<1> QED
  BY <1>3, <1>4, <1>5, <1>6

LEMMA HandleJustified ==
    ASSUME TypeOK, Observe, NEW r \in Requests, Justified(r), Handle(r) \/ Fault(r)
    PROVE  Justified(r)'
<1>1. CASE EnsureUser(r)
  <2>1. \A outcome \in {"welcome", "invalid"} : Grounded(outcome, seen[r], FALSE)
    BY DEF Grounded
  <2> QED
    BY <1>1, <2>1, ConcludeJustified, GotoJustified DEF EnsureUser, Deciding
<1>2. CASE CopyMessage(r)
  <2>1. ~Deciding(req'[r]) /\ Grounded(req'[r].outcome, seen[r], req'[r].failure)
    BY <1>2, CopyOutcome DEF Deciding, Grounded
  <2> QED
    BY <2>1, SettledJustified
<1>3. CASE ReplyMessage(r) \/ AnswerQuery(r) \/ ResolvePrompt(r) \/ Fault(r)
  <2>1. /\ ~Deciding(req'[r]) /\ req'[r].outcome = req[r].outcome
        /\ req[r].failure => req'[r].failure
    BY <1>3, AnswerOutcome DEF Deciding
  <2>2. Grounded(req'[r].outcome, seen[r], req'[r].failure)
    BY <2>1 DEF Justified, Grounded
  <2> QED
    BY <2>1, <2>2, SettledJustified
<1> QED
  BY <1>1, <1>2, <1>3, ReadJustified, CheckJustified, MemberJustified DEF Handle

LEMMA OthersStay ==
    ASSUME TypeOK, NEW q \in Requests, Start(q) \/ Handle(q) \/ Fault(q)
    PROVE  \A r \in Requests \ {q} : req'[r] = req[r]
BY BecomeOnly DEF Start, StartWelcome, StartLink, StartCheck, Handle, EnsureUser, Read,
   Check, IsMember, CopyMessage, ReplyMessage, AnswerQuery, ResolvePrompt, Fault, Goto,
   Conclude

\* Nobody is refused for what was not so at any moment of his request, with
\* two exceptions: Telegram failed to tell a membership, or the deadline a
\* content is refused for was no longer its own.
THEOREM RefusalsAreJustified == Spec => []RefusalsJustified
<1> DEFINE Inv == \A r \in Requests : Justified(r)
<1>1. Init => Inv
  BY DEF Init, Opened, Justified, Deciding, Grounded
<1>2. ASSUME TypeOK, Inv, [Next]_vars PROVE Inv'
  <2>1. CASE UNCHANGED vars
    <3>1. UNCHANGED <<catalog, now, status, req, seen>>
      BY <2>1 DEF vars, catalogVars
    <3> QED
      BY <1>2, <3>1 DEF Justified, FactsOf, Redated, Expired, Deciding
  <2>2. ASSUME Next, NEW q \in Requests, Start(q) \/ Handle(q) \/ Fault(q) PROVE Inv'
    BY <1>2, <2>2, OthersStay, StayJustified, StartJustified, HandleJustified DEF Next
  <2>3. ASSUME Next, UNCHANGED req PROVE Inv'
    BY <1>2, <2>3, StayJustified DEF Next
  <2> QED
    BY <1>2, <2>1, <2>2, <2>3 DEF Next, Step, ChangeStatus, Administer
<1>3. Inv => RefusalsJustified
  BY DEF Justified, Grounded, RefusalsJustified
<1> QED
  BY <1>1, <1>2, <1>3, InitType, StepType, PTL DEF Spec

-----------------------------------------------------------------------------
(* Prompts.                                                                *)

\* Some press of p's button has been answered, and not with "join first".
Answered(p) ==
    \E r \in Requests :
        /\ req[r].pc \in {"resolve", "done"}
        /\ req[r].from = {p} /\ req[r].told
        /\ req[r].outcome \notin {"none", "membership"}

\* A request that is about to resolve a prompt has answered a press of it.
Pressed(r) ==
    /\ \A p \in req[r].from : req[r].from = {p}
    /\ req[r].pc = "reply" => req[r].outcome # "none"
    /\ req[r].pc = "resolve" => req[r].told /\ req[r].outcome \notin {"none", "membership"}

Prompted ==
    /\ \A r \in Requests : Pressed(r)
    /\ \A p \in Requests : prompt[p] = "resolved" => Answered(p)

\* The steps of the handlers, as far as prompts are concerned.
LEMMA HandlePressed ==
    ASSUME TypeOK, NEW r \in Requests, Pressed(r), Handle(r) \/ Fault(r)
    PROVE  /\ Pressed(r)'
           /\ req[r].pc \in {"resolve", "done"} =>
                 /\ req'[r].pc \in {"resolve", "done"} /\ req'[r].from = req[r].from
                 /\ req[r].told => req'[r].told
                 /\ req'[r].outcome = req[r].outcome
<1>1. CASE ReplyMessage(r) \/ AnswerQuery(r) \/ ResolvePrompt(r) \/ Fault(r)
  BY <1>1, AnswerOutcome DEF Pressed
<1>2. CASE CopyMessage(r)
  BY <1>2, CopyOutcome DEF Pressed, CopyMessage
<1>3. ASSUME NEW outcome, outcome # "none", Conclude(r, outcome) PROVE Pressed(r)'
  BY <1>3, OutcomeMoved DEF Pressed
<1>4. ASSUME NEW pc \in {"read", "member", "copy"}, Goto(r, pc) PROVE Pressed(r)'
  BY <1>4, OutcomeMoved DEF Pressed
<1>5. CASE EnsureUser(r) \/ Check(r) \/ IsMember(r)
  <2>1. ASSUME Become(r, Unsure(r)) PROVE Pressed(r)'
    <3>1. req'[r] = Unsure(r) /\ req[r] \in Handling
      BY <2>1, BecomeOnly DEF TypeOK
    <3>2. /\ req'[r].pc = "reply" /\ req'[r].outcome = "membership"
          /\ req'[r].from = req[r].from
      BY <3>1, UnsureRequest
    <3> QED
      BY <3>2 DEF Pressed
  <2> QED
    BY <1>3, <1>4, <1>5, <2>1 DEF EnsureUser, Check, IsMember, Unsure
<1>6. ASSUME NEW row, Become(r, [req[r] EXCEPT !.pc = "check", !.held = {row}])
      PROVE  Pressed(r)'
  <2>1. \A k \in Handling :
           LET next == [k EXCEPT !.pc = "check", !.held = {row}]
           IN  next.pc = "check" /\ next.from = k.from
    BY DEF Handling
  <2>2. req'[r] = [req[r] EXCEPT !.pc = "check", !.held = {row}] /\ req[r] \in Handling
    BY <1>6, BecomeOnly DEF TypeOK
  <2>3. req'[r].pc = "check" /\ req'[r].from = req[r].from
    BY <2>1, <2>2
  <2> QED
    BY <2>3 DEF Pressed
<1>7. CASE Read(r)
  BY <1>3, <1>6, <1>7 DEF Read
<1> QED
  BY <1>1, <1>2, <1>5, <1>7 DEF Handle, EnsureUser, Check, IsMember, Read, CopyMessage

LEMMA StartPressed ==
    ASSUME TypeOK, NEW r \in Requests, Start(r)
    PROVE  Pressed(r)' /\ req[r].pc = "new"
<1>1. ASSUME NEW kind, NEW pc \in {"ensure", "read"}, NEW user, NEW code, NEW from,
             \A p \in from : from = {p},
             Become(r, Opened(kind, pc, user, code, from))
      PROVE  Pressed(r)'
  <2>1. req'[r].pc = pc /\ req'[r].from = from
    BY <1>1, BecomeOnly DEF Opened
  <2> QED
    BY <1>1, <2>1 DEF Pressed
<1>2. ASSUME NEW user, NEW code, StartWelcome(r, user) \/ StartLink(r, user, code)
      PROVE  Pressed(r)'
  BY <1>1, <1>2 DEF StartWelcome, StartLink
<1>3. ASSUME NEW user, NEW p, StartCheck(r, user, p) PROVE Pressed(r)'
  BY <1>1, <1>3 DEF StartCheck
<1>4. req[r].pc = "new"
  BY DEF Start, StartWelcome, StartLink, StartCheck
<1> QED
  BY <1>2, <1>3, <1>4 DEF Start

\* Which prompts a step resolves: none, or the one its request was pressed on.
LEMMA PromptResolved ==
    ASSUME TypeOK, NEW r \in Requests, Start(r) \/ Handle(r) \/ Fault(r),
           NEW p \in Requests, prompt'[p] = "resolved", prompt[p] # "resolved"
    PROVE  p \in req[r].from /\ ResolvePrompt(r)
BY DEF TypeOK, Start, StartWelcome, StartLink, StartCheck, Handle, EnsureUser, Read, Check,
   IsMember, CopyMessage, ReplyMessage, AnswerQuery, ResolvePrompt, Fault

LEMMA MovePrompted ==
    ASSUME TypeOK, Prompted, NEW q \in Requests, Start(q) \/ Handle(q) \/ Fault(q)
    PROVE  Prompted'
<1>1. \A r \in Requests : Pressed(r)'
  BY OthersStay, StartPressed, HandlePressed DEF Prompted, Pressed
<1>2. ASSUME NEW p \in Requests, Answered(p) PROVE Answered(p)'
  <2>1. PICK r \in Requests : /\ req[r].pc \in {"resolve", "done"}
                              /\ req[r].from = {p} /\ req[r].told
                              /\ req[r].outcome \notin {"none", "membership"}
    BY <1>2 DEF Answered
  <2>2. CASE r = q
    BY <2>1, <2>2, StartPressed, HandlePressed DEF Answered, Prompted
  <2>3. CASE r # q
    BY <2>1, <2>3, OthersStay DEF Answered
  <2> QED
    BY <2>2, <2>3
<1>3. ASSUME NEW p \in Requests, prompt'[p] = "resolved", prompt[p] # "resolved"
      PROVE  Answered(p)'
  <2>1. p \in req[q].from /\ ResolvePrompt(q) /\ Pressed(q)
    BY <1>3, PromptResolved DEF Prompted
  <2>2. /\ req[q].from = {p} /\ req[q].told
        /\ req[q].outcome \notin {"none", "membership"}
    BY <2>1 DEF Pressed, ResolvePrompt
  <2>3. /\ req'[q].pc = "done" /\ req'[q].from = req[q].from
        /\ req'[q].told = req[q].told /\ req'[q].outcome = req[q].outcome
    BY <2>1, OutcomeMoved DEF ResolvePrompt
  <2> QED
    BY <2>2, <2>3 DEF Answered
<1> QED
  BY <1>1, <1>2, <1>3 DEF Prompted

\* As long as every press of a prompt's button has been answered with "join
\* first", or not at all, the button is there to be pressed again.
THEOREM PromptsKept == Spec => []PromptKept
<1>1. Init => Prompted
  BY DEF Init, Opened, Prompted, Pressed
<1>2. ASSUME TypeOK, Prompted, [Next]_vars PROVE Prompted'
  <2>1. ASSUME UNCHANGED <<req, prompt>> PROVE Prompted'
    BY <1>2, <2>1 DEF Prompted, Pressed, Answered
  <2> QED
    BY <1>2, <2>1, MovePrompted DEF Next, Step, ChangeStatus, Administer, vars
<1>3. Prompted => PromptKept
  BY DEF Prompted, Answered, PromptKept
<1> QED
  BY <1>1, <1>2, <1>3, InitType, StepType, PTL DEF Spec
=============================================================================
