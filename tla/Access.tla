------------------------------- MODULE Access -------------------------------
(***************************************************************************)
(* Delivery of a content to a user: app/services/access_service and        *)
(* membership_service under the two handlers that call them, the deep link *)
(* /start <code> and the "check membership" button of the prompt that the  *)
(* first one leaves behind (app/router/user/handlers.py).                  *)
(*                                                                         *)
(* A delivery reads the content, checks the row it read, asks Telegram     *)
(* about the user and copies the message: an await between any two of      *)
(* these, during which administrators change the catalog (the steps of     *)
(* ContentCatalog), users join and leave the channel, and days pass.       *)
(***************************************************************************)
EXTENDS ContentCatalog

CONSTANTS
    Requests,           \* updates from users, each handled once
    Users,
    Malformed,          \* a code is_deep_link_safe_code rejects
    Statuses,           \* the channel statuses users take, among ChatStatuses
    RequiredChannel,    \* whether REQUIRED_CHANNEL_ID is set
    Faults              \* whether the database and Telegram may fail

ChatStatuses == {"creator", "administrator", "member", "restricted_member",
                 "restricted", "left", "kicked"}

ASSUME AccessAssumption ==
    /\ Malformed \notin Codes
    /\ Statuses \subseteq ChatStatuses
    /\ RequiredChannel \in BOOLEAN
    /\ Faults \in BOOLEAN

VARIABLES
    status,     \* each user's status in the required channel, at Telegram
    req,        \* what the handler of each request is doing
    prompt,     \* the membership prompt a request left in the chat
    seen,       \* history: what held of each request's code and user meanwhile
    open        \* history: the sources that were deliverable meanwhile

vars == <<catalogVars, status, req, prompt, seen, open>>

Outcomes == {"none", "welcome", "invalid", "not_found", "inactive", "expired",
             "membership", "failed", "delivered"}

Handling ==
    [pc : {"new", "ensure", "read", "check", "member", "copy",
           "reply", "resolve", "done"},
     kind : {"start", "link", "check"}, user : Users,
     code : Codes \cup {Malformed},
     from : SUBSET Requests,    \* the request whose prompt was pressed
     held : SUBSET Content,     \* the row get_content_by_code returned
     copied : SUBSET Sources,   \* the message that reached the user's chat
     outcome : Outcomes, told : BOOLEAN,
     failure : BOOLEAN]         \* history: something it called has failed

Facts == {"member", "outsider", "absent", "inactive", "expired", "redated"}

TypeOK ==
    /\ CatalogTypeOK
    /\ status \in [Users -> Statuses]
    /\ req \in [Requests -> Handling]
    /\ prompt \in [Requests -> {"none", "open", "resolved"}]
    /\ seen \in [Requests -> SUBSET Facts]
    /\ open \in [Requests -> SUBSET Sources]

Running(k) == k.pc \notin {"new", "done"}
Become(r, k) == req' = [req EXCEPT ![r] = k]
Goto(r, pc) == Become(r, [req[r] EXCEPT !.pc = pc])

\* deliver_content returns or raises; the handler words the outcome.
Conclude(r, outcome) ==
    Become(r, [req[r] EXCEPT !.pc = "reply", !.outcome = outcome, !.held = {}])

-----------------------------------------------------------------------------
(* The handlers start.                                                     *)

Opened(kind, pc, user, code, from) ==
    [pc |-> pc, kind |-> kind, user |-> user, code |-> code, from |-> from,
     held |-> {}, copied |-> {}, outcome |-> "none", told |-> FALSE,
     failure |-> FALSE]

StartWelcome(r, user) ==
    /\ req[r].pc = "new"
    /\ Become(r, Opened("start", "ensure", user, Malformed, {}))
    /\ UNCHANGED <<catalogVars, status, prompt>>

StartLink(r, user, code) ==
    /\ req[r].pc = "new"
    /\ Become(r, Opened("link", "ensure", user, code, {}))
    /\ UNCHANGED <<catalogVars, status, prompt>>

\* A press of the button of p's prompt, by anyone in that chat.  It may have
\* been pressed before the prompt was resolved and handled after.  The code
\* of a prompt was found well formed when the prompt was made.
StartCheck(r, user, p) ==
    /\ req[r].pc = "new"
    /\ prompt[p] # "none"
    /\ Become(r, Opened("check", "read", user, req[p].code, {p}))
    /\ UNCHANGED <<catalogVars, status, prompt>>

\* ensure_user, which Identity models; then deliver_content begins, with the
\* check of the code.
EnsureUser(r) ==
    /\ req[r].pc = "ensure"
    /\ \/ req[r].kind = "start" /\ Conclude(r, "welcome")
       \/ req[r].kind = "link" /\ req[r].code = Malformed /\ Conclude(r, "invalid")
       \/ req[r].kind = "link" /\ req[r].code # Malformed /\ Goto(r, "read")
    /\ UNCHANGED <<catalogVars, status, prompt>>

-----------------------------------------------------------------------------
(* deliver_content.                                                        *)

\* get_content_by_code: a row is found whatever its state.
Found(code) == code \in DOMAIN catalog

Read(r) ==
    LET code == req[r].code IN
    /\ req[r].pc = "read"
    /\ \/ ~Found(code) /\ Conclude(r, "not_found")
       \/ /\ Found(code)
          /\ Become(r, [req[r] EXCEPT !.pc = "check", !.held = {catalog[code]}])
    /\ UNCHANGED <<catalogVars, status, prompt>>

\* The checks on the row that was read; the clock is read here.
OnTheDay(content) ==    \* mutant: the day of the deadline is too late already
    \E deadline \in content.expires : now >= deadline
Overdue(content) == Expired(content)

Check(r) ==
    /\ req[r].pc = "check"
    /\ \E content \in req[r].held :
        \/ content.state # "active" /\ Conclude(r, "inactive")
        \/ content.state = "active" /\ Overdue(content) /\ Conclude(r, "expired")
        \/ content.state = "active" /\ ~Overdue(content) /\ Goto(r, "member")
    /\ UNCHANGED <<catalogVars, status, prompt>>

\* ELIGIBLE_STATUSES, and the restricted users who are members.
AnyRestricted(s) ==     \* mutant: is_member of a restricted user is ignored
    s \notin {"left", "kicked"}
AdministratorsOnly(s) ==    \* mutant: "member" forgotten
    s \in {"creator", "administrator"}
Eligible(s) == s \in {"creator", "administrator", "member", "restricted_member"}

\* is_member, as Telegram answers get_chat_member at that moment; an error
\* counts as not being a member.
IsMember(r) ==
    /\ req[r].pc = "member"
    /\ \/ /\ RequiredChannel => Eligible(status[req[r].user])
          /\ Goto(r, "copy")
       \/ /\ RequiredChannel /\ ~Eligible(status[req[r].user])
          /\ Conclude(r, "membership")
       \/ /\ RequiredChannel /\ Faults
          /\ Become(r, [req[r] EXCEPT !.pc = "reply", !.outcome = "membership",
                                      !.held = {}, !.failure = TRUE])
    /\ UNCHANGED <<catalogVars, status, prompt>>

\* What copy_message is given to copy.
CodeCopied(k) == {k.code}       \* mutant: the code for the message
Copied(k) == {content.source : content \in k.held}

\* bot.copy_message.  When the answer is lost the message may have arrived.
CopyMessage(r) ==
    LET sources == Copied(req[r]) IN
    /\ req[r].pc = "copy"
    /\ \E copied \in {sources} \cup (IF Faults THEN {{}} ELSE {}),
          outcome \in {"delivered"} \cup (IF Faults THEN {"failed"} ELSE {}) :
        /\ outcome = "delivered" => copied = sources
        /\ Become(r, [req[r] EXCEPT !.pc = "reply", !.held = {}, !.copied = copied,
                          !.outcome = outcome, !.failure = @ \/ outcome = "failed"])
    /\ UNCHANGED <<catalogVars, status, prompt>>

-----------------------------------------------------------------------------
(* The answers.                                                            *)

\* The message handlers: a delivery answers for itself, and a membership
\* refusal carries the prompt.  The link in it is fetched before (one more
\* await, which touches nothing that is modelled).
ReplyMessage(r) ==
    /\ req[r].pc = "reply" /\ req[r].kind # "check"
    /\ Become(r, [req[r] EXCEPT !.pc = "done", !.told = TRUE])
    /\ prompt' = IF req[r].outcome = "membership"
                 THEN [prompt EXCEPT ![r] = "open"] ELSE prompt
    /\ UNCHANGED <<catalogVars, status>>

\* Mutants of AnswerQuery: the prompt is resolved whatever the answer, or the
\* handler tries again until the user has joined.
ResolveAlways(r) ==
    /\ req[r].pc = "reply" /\ req[r].kind = "check"
    /\ Become(r, [req[r] EXCEPT !.told = TRUE, !.pc = "resolve"])
    /\ UNCHANGED <<catalogVars, status, prompt>>

RetryUntilMember(r) ==
    /\ req[r].pc = "reply" /\ req[r].kind = "check"
    /\ Become(r, [req[r] EXCEPT !.told = TRUE,
                      !.pc = IF req[r].outcome = "membership"
                             THEN "read" ELSE "resolve"])
    /\ UNCHANGED <<catalogVars, status, prompt>>

\* query.answer; while membership is pending the prompt is left alone.
AnswerQuery(r) ==
    /\ req[r].pc = "reply" /\ req[r].kind = "check"
    /\ Become(r, [req[r] EXCEPT !.told = TRUE,
                      !.pc = IF req[r].outcome = "membership"
                             THEN "done" ELSE "resolve"])
    /\ UNCHANGED <<catalogVars, status, prompt>>

\* _resolve_prompt: the edit drops the button; its errors are swallowed.
ResolvePrompt(r) ==
    /\ req[r].pc = "resolve"
    /\ Goto(r, "done")
    /\ \/ prompt' = [p \in Requests |->
                        IF p \in req[r].from THEN "resolved" ELSE prompt[p]]
       \/ Faults /\ UNCHANGED prompt
    /\ UNCHANGED <<catalogVars, status>>

\* An exception no handler catches: a failing statement, an undecodable
\* response, a refused answer to the message or to the query.
Fault(r) ==
    /\ Faults /\ Running(req[r])
    /\ Become(r, [req[r] EXCEPT !.pc = "done", !.held = {}, !.failure = TRUE])
    /\ UNCHANGED <<catalogVars, status, prompt>>

-----------------------------------------------------------------------------
(* The others.                                                             *)

ChangeStatus(user) ==
    /\ \E s \in Statuses : s # status[user] /\ status' = [status EXCEPT ![user] = s]
    /\ UNCHANGED <<catalogVars, req, prompt>>

Administer == CatalogNext /\ UNCHANGED <<status, req, prompt>>

\* History.  Whether a status means being in the channel, at Telegram.
InChannel(s) == s \notin {"restricted", "left", "kicked"}

\* The deadline of the row in hand is not, or no longer, one of that code.
Redated(k) ==
    \E row \in k.held :
        k.code \in DOMAIN catalog => catalog[k.code].expires # row.expires

FactsOf(k) ==
    {IF InChannel(status[k.user]) THEN "member" ELSE "outsider"}
    \cup (IF Redated(k) THEN {"redated"} ELSE {})
    \cup (IF k.code \notin DOMAIN catalog THEN {"absent"}
          ELSE (IF catalog[k.code].state # "active" THEN {"inactive"} ELSE {})
               \cup (IF Expired(catalog[k.code]) THEN {"expired"} ELSE {}))

OpenOf(k) ==
    {catalog[code].source :
        code \in {c \in DOMAIN catalog \cap {k.code} : Deliverable(catalog[c])}}

\* Gathered from the start of a request until its outcome is settled, as far
\* as what is still to be decided may rest on it; after that, only what the
\* outcome does rest on is kept.
Deciding(k) == k.pc \in {"ensure", "read", "check", "member", "copy"}

Bearing(pc) ==
    CASE pc \in {"ensure", "read"}  -> {"absent", "inactive", "expired"}
      [] pc = "check"               -> {"inactive", "expired", "redated"}
      [] OTHER                      -> {"member", "outsider"}

Evidence(k) ==
    (IF k.copied # {} THEN {"member"} ELSE {})
    \cup (CASE k.outcome = "not_found"  -> {"absent"}
            [] k.outcome = "inactive"   -> {"inactive"}
            [] k.outcome = "expired"    -> {"expired", "redated"}
            [] k.outcome = "membership" -> {"outsider"}
            [] OTHER -> {})

Observe ==
    /\ seen' = [r \in Requests |->
                  IF Deciding(req'[r])
                  THEN (seen[r] \cup FactsOf(req[r])') \cap Bearing(req'[r].pc)
                  ELSE seen[r] \cap Evidence(req'[r])]
    /\ open' = [r \in Requests |->
                  IF Deciding(req'[r]) THEN open[r] \cup OpenOf(req[r])'
                  ELSE open[r] \cap req'[r].copied]

-----------------------------------------------------------------------------

Init ==
    /\ CatalogInit
    /\ status \in [Users -> Statuses]
    /\ \E user \in Users :
        req = [r \in Requests |-> Opened("start", "new", user, Malformed, {})]
    /\ prompt = [r \in Requests |-> "none"]
    /\ seen = [r \in Requests |-> {}]
    /\ open = [r \in Requests |-> {}]

Start(r) ==
    \/ \E user \in Users : StartWelcome(r, user)
    \/ \E user \in Users, code \in Codes \cup {Malformed} : StartLink(r, user, code)
    \/ \E user \in Users, p \in Requests : StartCheck(r, user, p)

Handle(r) ==
    \/ EnsureUser(r) \/ Read(r) \/ Check(r) \/ IsMember(r)
    \/ CopyMessage(r) \/ ReplyMessage(r) \/ AnswerQuery(r) \/ ResolvePrompt(r)

Step ==
    \/ \E r \in Requests : Start(r) \/ Handle(r) \/ Fault(r)
    \/ \E user \in Users : ChangeStatus(user)
    \/ Administer

Next == Step /\ Observe

Spec == Init /\ [][Next]_vars

\* A handler that started runs on; users, administrators and the clock are
\* under no obligation.
FairSpec == Spec /\ \A r \in Requests : WF_vars(Handle(r) /\ Observe)

-----------------------------------------------------------------------------
(* Properties                                                              *)

\* A message reaches a user only if, at some moment of the request, the code
\* named a content with that source that was active and not expired, and, if
\* a channel is required, the user was in it at some moment after the checks.
\* The code checks a row it read earlier and copies after two more awaits.
DeliveryPermitted ==
    \A r \in Requests :
        /\ req[r].copied \subseteq open[r]
        /\ req[r].copied # {} /\ RequiredChannel => "member" \in seen[r]

\* A refusal was true at some moment of the request, with two exceptions that
\* the code has: Telegram failed to say whether the user is in the channel,
\* which counts as a no; and a content is refused as expired that never was,
\* because its deadline was put off or cleared, or it was deleted, after its
\* row had been read, and the old deadline passed before the clock was.
RefusalsJustified ==
    \A r \in Requests :
        /\ req[r].outcome = "not_found" => "absent" \in seen[r]
        /\ req[r].outcome = "inactive" => "inactive" \in seen[r]
        /\ req[r].outcome = "expired" => {"expired", "redated"} \cap seen[r] # {}
        /\ req[r].outcome = "membership" => "outsider" \in seen[r] \/ req[r].failure

\* A prompt loses its button only after a press of it was answered with
\* something other than "you are not in the channel": as long as that is the
\* only answer, the user can press again.
PromptKept ==
    \A p \in Requests : prompt[p] = "resolved" =>
        \E r \in Requests :
            /\ req[r].from = {p} /\ req[r].told
            /\ req[r].outcome \notin {"none", "membership"}

\* Every handler ends.
RequestsEnd == \A r \in Requests : Running(req[r]) ~> ~Running(req[r])

\* Whoever asks for a content that stays active and without a deadline, while
\* staying in the channel, gets the message, unless something that his own
\* request calls fails.  (With a deadline it is not so: see RefusalsJustified.)
Good(k) ==
    /\ k.code \in DOMAIN catalog
    /\ catalog[k.code].state = "active" /\ catalog[k.code].expires = {}
    /\ RequiredChannel => InChannel(status[k.user])

EligibleServed ==
    \A r \in Requests :
        (req[r].pc \in {"ensure", "read"} /\ Good(req[r]))
            ~> (req[r].copied # {} \/ ~Good(req[r]) \/ req[r].failure)

=============================================================================
