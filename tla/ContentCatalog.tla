--------------------------- MODULE ContentCatalog ---------------------------
(***************************************************************************)
(* What the content table promises to the rest of the bot: a map from      *)
(* deep-link codes to contents (app/database/models.py, class Content),    *)
(* changed one code and one column at a time by the functions of           *)
(* app/database/repositories.py.                                           *)
(*                                                                         *)
(* It says nothing of row ids, sessions or handlers.  Access uses it as    *)
(* the environment of a delivery: whatever administrators do, they do it   *)
(* through these steps.  ContentManagement, which has the ids and the      *)
(* sessions, is shown to implement it.                                     *)
(***************************************************************************)
EXTENDS Integers

CONSTANTS
    Codes,      \* the deep-link codes that can be generated
    Sources,    \* the Telegram messages (chat and message id) contents point to
    MaxTime,    \* bound: the wall clock stops here
    MaxDate     \* the largest date a datetime can hold

ASSUME ClockAssumption == MaxTime \in Nat /\ MaxDate \in Nat

VARIABLES
    catalog,    \* the contents that exist, by code
    now         \* datetime.now(UTC), in days

catalogVars == <<catalog, now>>

States == {"active", "inactive"}
Dates == 0..MaxDate

\* expires_at is nullable: the empty set, or the set of the one deadline.
Deadlines == {{}} \cup {{d} : d \in Dates}

Content == [source : Sources, state : States, expires : Deadlines]

CatalogTypeOK ==
    /\ catalog \in [DOMAIN catalog -> Content]
    /\ DOMAIN catalog \subseteq Codes
    /\ now \in 0..MaxTime

\* The policy of deliver_content: active, and not past its deadline.
Expired(content) == \E deadline \in content.expires : now > deadline
Deliverable(content) == content.state = "active" /\ ~Expired(content)

-----------------------------------------------------------------------------

CatalogInit == catalog = [code \in {} |-> {}] /\ now = 0

\* create_content: contents start active and without a deadline.
Create(code, source) ==
    /\ code \notin DOMAIN catalog
    /\ catalog' = [c \in DOMAIN catalog \cup {code} |->
                     IF c = code
                     THEN [source |-> source, state |-> "active", expires |-> {}]
                     ELSE catalog[c]]
    /\ UNCHANGED now

\* activate_content and deactivate_content.
SetState(code, state) ==
    /\ code \in DOMAIN catalog
    /\ catalog' = [catalog EXCEPT ![code].state = state]
    /\ UNCHANGED now

\* update_content_expiration: cleared, or a deadline later than today.
SetExpiration(code, expires) ==
    /\ code \in DOMAIN catalog
    /\ \A deadline \in expires : deadline > 0
    /\ catalog' = [catalog EXCEPT ![code].expires = expires]
    /\ UNCHANGED now

\* delete_content.
Delete(code) ==
    /\ code \in DOMAIN catalog
    /\ catalog' = [c \in DOMAIN catalog \ {code} |-> catalog[c]]
    /\ UNCHANGED now

\* Time passes; the wall clock is taken never to step back.
Tick == now < MaxTime /\ now' = now + 1 /\ UNCHANGED catalog

CatalogNext ==
    \/ \E code \in Codes, source \in Sources : Create(code, source)
    \/ \E code \in Codes, state \in States : SetState(code, state)
    \/ \E code \in Codes, expires \in Deadlines : SetExpiration(code, expires)
    \/ \E code \in Codes : Delete(code)
    \/ Tick

CatalogSpec == CatalogInit /\ [][CatalogNext]_catalogVars

=============================================================================
