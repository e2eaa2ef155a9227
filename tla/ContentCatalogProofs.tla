------------------------ MODULE ContentCatalogProofs ------------------------
(***************************************************************************)
(* The catalog keeps its type under every step, for any codes, sources and *)
(* dates.  Access and AdminPanel take these steps.                         *)
(***************************************************************************)
EXTENDS ContentCatalog, TLAPS

LEMMA CreateType ==
    ASSUME CatalogTypeOK, NEW code \in Codes, NEW source \in Sources,
           Create(code, source)
    PROVE  CatalogTypeOK'
<1>1. [source |-> source, state |-> "active", expires |-> {}] \in Content
  BY DEF Content, States, Deadlines
<1> QED
  BY <1>1 DEF CatalogTypeOK, Create

LEMMA SetStateType ==
    ASSUME CatalogTypeOK, NEW code, NEW state \in States, SetState(code, state)
    PROVE  CatalogTypeOK'
<1>1. \A content \in Content : [content EXCEPT !.state = state] \in Content
  BY DEF Content
<1>2. catalog' = [catalog EXCEPT ![code] = [catalog[code] EXCEPT !.state = state]]
  BY DEF SetState
<1> QED
  BY <1>1, <1>2 DEF CatalogTypeOK, SetState

LEMMA SetExpirationType ==
    ASSUME CatalogTypeOK, NEW code, NEW expires \in Deadlines,
           SetExpiration(code, expires)
    PROVE  CatalogTypeOK'
<1>1. \A content \in Content : [content EXCEPT !.expires = expires] \in Content
  BY DEF Content
<1>2. catalog' = [catalog EXCEPT ![code] = [catalog[code] EXCEPT !.expires = expires]]
  BY DEF SetExpiration
<1> QED
  BY <1>1, <1>2 DEF CatalogTypeOK, SetExpiration

LEMMA DeleteType ==
    ASSUME CatalogTypeOK, NEW code, Delete(code) PROVE CatalogTypeOK'
BY DEF CatalogTypeOK, Delete

LEMMA CatalogType ==
    ASSUME CatalogTypeOK, CatalogNext PROVE CatalogTypeOK'
<1>1. CASE Tick
  BY <1>1, ClockAssumption, SMT DEF CatalogTypeOK, Tick
<1> QED
  BY <1>1, CreateType, SetStateType, SetExpirationType, DeleteType DEF CatalogNext

=============================================================================
