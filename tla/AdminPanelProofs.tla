-------------------------- MODULE AdminPanelProofs --------------------------
(***************************************************************************)
(* Theorems about AdminPanel, for any number of updates, messages, codes   *)
(* and sources, any page size, and whatever the other administrators, the  *)
(* faults and the restarts do.                                             *)
(***************************************************************************)
EXTENDS AdminPanel, ContentCatalogProofs

-----------------------------------------------------------------------------
(* The inductive invariant.                                                *)

\* A keyboard the code makes: buttons about a content name one, and a button
\* that deletes is found on the two questions about its content only.
NamesContent == (UxActs \ {"list"}) \cup ConfirmActs
Questions(code) == {DeleteKeyboard(code), ConfirmationKeyboard("content:delete", code)}
Proper(keys) ==
    /\ keys \subseteq Button
    /\ \A b \in keys : b.act \in NamesContent => b.code \in Codes
    /\ \A b \in keys : b.act \in DeleteActs => keys \in Questions(b.code)

\* What a handler may have left to do, with what it has told: nothing so far,
\* or all there is; but CANCEL tells a second time of a content that is gone.
Unanswered ==
    {<<>>, <<"filter">>, <<"service">>, <<"load">>, <<"write">>, <<"refresh">>,
     <<"answer">>, <<"post">>,
     <<"edit", "answer">>, <<"answer", "edit">>, <<"replace", "answer">>}
CancelUnanswered == {<<"filter">>, <<"answer", "preview">>}
CancelAnswered == {<<"preview">>, <<"answer">>}

Course(k) ==
    \/ k.told = 0 /\ k.todo \in Unanswered
    \/ k.told = 0 /\ k.todo = <<"answer", "preview">> /\ k.act = "cancel"
    \/ k.told = 1 /\ k.todo = <<"edit">>
    \/ k.told = 1 /\ k.todo \in CancelAnswered /\ k.act = "cancel"

CancelCourse(k) ==
    k.act = "cancel" =>
        \/ k.told = 0 /\ k.todo \in CancelUnanswered /\ k.show = {}
        \/ k.told = 1 /\ k.todo \in CancelAnswered /\ k.show = {}
        \/ k.told = 1 /\ k.todo = <<"edit">>

Sound(k) ==
    /\ k \in Handling
    /\ Proper(k.show)
    /\ k.act \in NamesContent => k.code \in Codes
    /\ k.act \in DeleteActs => k.from \in Questions(k.code)
    /\ Course(k)
    /\ CancelCourse(k)

PanelInv ==
    /\ TypeOK
    /\ \A c, d \in DOMAIN catalog : key[c] = key[d] => c = d
    /\ \A u \in Updates : Sound(req[u])
    /\ \A m \in Messages : Proper(screen[m])

\* The dialogue in progress is about the content of the last EXPIRE.
AboutLatest == \A data \in dialogue : data.code \in latest

\* A days message that is handled may be an answer to that one, and what its
\* handler read from the dialogue was the last one at some moment.
AskedInv ==
    \A u \in Updates : req[u].act = "days" =>
        /\ latest \subseteq asked[u]
        /\ req[u].code # NoCode => req[u].code \in asked[u]

Inv == PanelInv /\ AboutLatest /\ AskedInv

\* When keys do not come back, the row a handler is about to write is still
\* that of the content it selected, or gone.
Addressed ==
    \A u \in Updates : req[u].todo = <<"write">> =>
        \A c \in Keyed(u) : c = req[u].code

-----------------------------------------------------------------------------
(* Keyboards.                                                              *)

LEMMA ActSets ==
    /\ NavActs \cup UxActs \cup ConfirmActs = PressActs
    /\ PressActs \subseteq Acts /\ Commands \subseteq Acts /\ Typed \subseteq Acts
    /\ DeleteActs \subseteq NamesContent
    /\ NamesContent \cap (NavActs \cup {"list"} \cup Commands \cup Typed) = {}
BY DEF PressActs, Acts, NamesContent, DeleteActs, NavActs, UxActs, ConfirmActs,
       Commands, Typed

LEMMA OnType ==
    ASSUME NEW acts \in SUBSET PressActs, NEW code \in Codes \cup {NoCode}
    PROVE  /\ On(acts, code) \subseteq Button
           /\ \A b \in On(acts, code) : b.act \in acts /\ b.code = code
BY DEF On, Button

LEMMA NoKeyboard == Proper({})
BY DEF Proper

LEMMA NavigationKeyboards ==
    Proper(DashboardKeyboard) /\ Proper(BackKeyboard)
<1>1. {"upload", "manage", "help"} \subseteq PressActs /\ {"dashboard"} \subseteq PressActs
  BY DEF PressActs, NavActs
<1>2. ({"upload", "manage", "help"} \cup {"dashboard"}) \cap NamesContent = {}
  BY DEF NamesContent, UxActs, ConfirmActs
<1> QED
  BY <1>1, <1>2, OnType, ActSets DEF Proper, DashboardKeyboard, BackKeyboard

LEMMA ListKeyboardProper ==
    ASSUME NEW shown \in SUBSET Codes PROVE Proper(ListKeyboard(shown))
<1>1. {"dashboard", "list"} \subseteq PressActs /\ {"detail"} \subseteq PressActs
  BY DEF PressActs, NavActs, UxActs
<1>2. {"dashboard", "list"} \cap NamesContent = {} /\ {"dashboard", "list", "detail"} \cap DeleteActs = {}
  BY DEF NamesContent, UxActs, ConfirmActs, DeleteActs
<1>3. \A b \in ListKeyboard(shown) :
        /\ b \in Button
        /\ b.act \in {"dashboard", "list"} \/ (b.act = "detail" /\ b.code \in Codes)
  BY <1>1, OnType DEF ListKeyboard
<1> QED
  BY <1>2, <1>3 DEF Proper

LEMMA DetailKeyboardProper ==
    ASSUME NEW code \in Codes, NEW state PROVE Proper(DetailKeyboard(code, state))
<1> DEFINE switch == IF state = "active" THEN "deactivate" ELSE "activate"
<1>1. {switch, "expire", "delete_start"} \subseteq PressActs /\ {"list"} \subseteq PressActs
  BY DEF PressActs, UxActs
<1>2. "list" \notin NamesContent /\ {switch, "expire", "delete_start", "list"} \cap DeleteActs = {}
  BY DEF NamesContent, UxActs, ConfirmActs, DeleteActs
<1>3. \A b \in DetailKeyboard(code, state) :
        /\ b \in Button
        /\ b.act \in {switch, "expire", "delete_start", "list"}
        /\ b.act = "list" \/ b.code = code
  BY <1>1, OnType DEF DetailKeyboard
<1> QED
  BY <1>2, <1>3 DEF Proper

LEMMA QuestionsProper ==
    ASSUME NEW code \in Codes
    PROVE  /\ Proper(DeleteKeyboard(code)) /\ Proper(ExpirationKeyboard(code))
           /\ \A act \in {"content:activate", "content:deactivate", "content:delete"} :
                Proper(ConfirmationKeyboard(act, code))
<1>1. {"delete_confirm", "cancel"} \subseteq PressActs /\ {"expire_off", "cancel"} \subseteq PressActs
  BY DEF PressActs, UxActs
<1>2. \A act \in {"content:activate", "content:deactivate", "content:delete"} :
        {act, "content:cancel"} \subseteq PressActs
  BY DEF PressActs, ConfirmActs
<1>3. Proper(DeleteKeyboard(code))
  BY <1>1, OnType DEF Proper, Questions, DeleteKeyboard
<1>4. Proper(ExpirationKeyboard(code))
  BY <1>1, OnType DEF Proper, ExpirationKeyboard, DeleteActs
<1>5. ASSUME NEW act \in {"content:activate", "content:deactivate", "content:delete"}
      PROVE  Proper(ConfirmationKeyboard(act, code))
  <2>1. \A b \in ConfirmationKeyboard(act, code) :
            b \in Button /\ b.act \in {act, "content:cancel"} /\ b.code = code
    BY <1>2, OnType DEF ConfirmationKeyboard
  <2>2. \A b \in ConfirmationKeyboard(act, code) :
            b.act \in DeleteActs => act = "content:delete"
    BY <2>1 DEF DeleteActs
  <2> QED
    BY <2>1, <2>2 DEF Proper, Questions
<1> QED
  BY <1>3, <1>4, <1>5

-----------------------------------------------------------------------------
(* Courses.                                                                *)

\* Where a handler is, from what it has to do next.
LEMMA Heads ==
    ASSUME NEW k, Course(k), k.todo # <<>>
    PROVE  /\ Head(k.todo) = "filter"  => k.todo = <<"filter">> /\ k.told = 0
           /\ \A step \in {"service", "load", "write", "refresh"} :
                Head(k.todo) = step => k.todo = <<step>> /\ k.told = 0
           /\ Head(k.todo) = "preview" => k.todo = <<"preview">> /\ k.told = 1 /\ k.act = "cancel"
           /\ Head(k.todo) = "replace" => k.todo = <<"replace", "answer">> /\ k.told = 0
           /\ Head(k.todo) = "post"    => k.todo = <<"post">> /\ k.told = 0
           /\ Head(k.todo) = "edit"    =>
                \/ k.todo = <<"edit", "answer">> /\ k.told = 0
                \/ k.todo = <<"edit">> /\ k.told = 1
           /\ Head(k.todo) = "answer"  =>
                \/ k.todo \in {<<"answer">>, <<"answer", "edit">>} /\ k.told = 0
                \/ k.todo = <<"answer", "preview">> /\ k.told = 0 /\ k.act = "cancel"
                \/ k.todo = <<"answer">> /\ k.told = 1 /\ k.act = "cancel"
BY DEF Course, Unanswered, CancelAnswered

LEMMA TailOfOne == ASSUME NEW s PROVE Tail(<<s>>) = <<>>
OBVIOUS

LEMMA TailOfTwo == ASSUME NEW s, NEW t PROVE Tail(<<s, t>>) = <<t>>
OBVIOUS

LEMMA CourseType ==
    /\ Unanswered \subseteq Seq(Steps)
    /\ <<"edit">> \in Seq(Steps) /\ CancelAnswered \subseteq Seq(Steps)
    /\ CancelUnanswered \subseteq Seq(Steps)
BY DEF CancelUnanswered, Unanswered, CancelAnswered, Steps

LEMMA FreeSound == ASSUME NEW failed \in BOOLEAN PROVE Sound(Free(failed))
<1>1. Free(failed) \in Handling
  BY CourseType, ActSets DEF Free, Handling, Unanswered, Typed
<1>2. "words" \notin NamesContent /\ "words" \notin DeleteActs /\ "words" # "cancel"
  BY ActSets DEF Typed
<1> QED
  BY <1>1, <1>2, NoKeyboard DEF Sound, Free, Course, CancelCourse, Unanswered

-----------------------------------------------------------------------------
(* A step of one handler.                                                  *)

\* The handler of u goes on soundly; no update of another kind comes of it.
Goes(u) ==
    /\ req' \in [Updates -> Handling]
    /\ \A v \in Updates : Sound(req[v])'
    /\ \A v \in Updates \ {u} : req'[v] = req[v]

Stays(u) ==
    \/ req'[u].act = req[u].act /\ req'[u].code = req[u].code
    \/ req'[u].act = "words"

LEMMA BecomeGoes ==
    ASSUME PanelInv, NEW u \in Updates, NEW k, Sound(k), Become(u, k)
    PROVE  /\ Goes(u)
           /\ req'[u] = k \/ req'[u] = Free(k.failed)
<1> DEFINE n == IF k.todo = <<>> THEN Free(k.failed) ELSE k
<1>1. k \in Handling /\ k.failed \in BOOLEAN
  BY DEF Sound, Handling
<1>2. Sound(n) /\ n \in Handling
  BY <1>1, FreeSound DEF Sound
<1> HIDE DEF n
<1>3. req \in [Updates -> Handling] /\ \A v \in Updates : Sound(req[v])
  BY DEF PanelInv, TypeOK
<1>4. req' = [req EXCEPT ![u] = n]
  BY DEF Become, n
<1>5. req'[u] = n /\ \A v \in Updates \ {u} : req'[v] = req[v]
  BY <1>3, <1>4
<1>6. ASSUME NEW v \in Updates PROVE Sound(req'[v])
  BY <1>2, <1>3, <1>5
<1>7. req' \in [Updates -> Handling]
  BY <1>2, <1>3, <1>4
<1>8. n = k \/ n = Free(k.failed)
  BY DEF n
<1> QED
  BY <1>5, <1>6, <1>7, <1>8 DEF Goes

LEMMA NextSound ==
    ASSUME NEW k \in Handling, Sound(k), NEW todo \in Seq(Steps), NEW show \in SUBSET Button,
           NEW held \in SUBSET Keys, Proper(show),
           \/ k.told = 0 /\ todo \in Unanswered /\ k.act # "cancel"
           \/ /\ k.act = "cancel" /\ k.told = 0 /\ todo = <<"answer", "preview">>
              /\ show = {}
           \/ /\ k.act = "cancel" /\ k.told = 1 /\ todo \in CancelAnswered
              /\ show = {}
           \/ k.act = "cancel" /\ k.told = 1 /\ todo = <<"edit">>
    PROVE  Sound([k EXCEPT !.todo = todo, !.show = show, !.held = held])
<1> DEFINE n == [k EXCEPT !.todo = todo, !.show = show, !.held = held]
<1>1. /\ n \in Handling
      /\ n.act = k.act /\ n.code = k.code /\ n.from = k.from
      /\ n.told = k.told /\ n.failed = k.failed
      /\ n.todo = todo /\ n.show = show
  BY DEF Handling
<1> HIDE DEF n
<1>2. Course(n) /\ CancelCourse(n)
  BY <1>1 DEF Course, CancelCourse, Unanswered, CancelUnanswered
<1>3. Sound(n)
  BY <1>1, <1>2 DEF Sound
<1> QED
  BY <1>3 DEF n

LEMMA NextGoes ==
    ASSUME PanelInv, NEW u \in Updates, NEW todo \in Unanswered, NEW show,
           NEW held \in SUBSET Keys,
           Proper(show), req[u].told = 0, req[u].act # "cancel",
           Become(u, [req[u] EXCEPT !.todo = todo, !.show = show, !.held = held])
    PROVE  Goes(u) /\ Stays(u)
<1> DEFINE n == [req[u] EXCEPT !.todo = todo, !.show = show, !.held = held]
<1>1. Sound(req[u]) /\ req[u] \in Handling
  BY DEF PanelInv, Sound
<1>2. todo \in Seq(Steps) /\ show \in SUBSET Button
  BY CourseType DEF Proper
<1>3. n.act = req[u].act /\ n.code = req[u].code
  BY <1>1 DEF Handling
<1>4. Sound(n)
  BY <1>1, <1>2, NextSound
<1> HIDE DEF n
<1>5. Goes(u) /\ (req'[u] = n \/ req'[u] = Free(n.failed))
  BY <1>4, BecomeGoes DEF n
<1> QED
  BY <1>3, <1>5 DEF Stays, Free

LEMMA ShowingGoes ==
    ASSUME PanelInv, NEW u \in Updates, NEW todo \in Unanswered, NEW show,
           Proper(show), req[u].told = 0, req[u].act # "cancel",
           Showing(u, todo, show)
    PROVE  Goes(u) /\ Stays(u)
BY NextGoes DEF Showing

LEMMA HoldingGoes ==
    ASSUME PanelInv, NEW u \in Updates, NEW todo \in Unanswered, NEW held \in SUBSET Keys,
           req[u].told = 0, req[u].act # "cancel",
           Become(u, [req[u] EXCEPT !.todo = todo, !.held = held])
    PROVE  Goes(u) /\ Stays(u)
<1>1. req[u] \in Handling /\ Proper(req[u].show)
  BY DEF PanelInv, Sound
<1>2. [req[u] EXCEPT !.todo = todo, !.held = held]
        = [req[u] EXCEPT !.todo = todo, !.show = req[u].show, !.held = held]
  BY <1>1 DEF Handling
<1> QED
  BY <1>1, <1>2, NextGoes

LEMMA ThenGoes ==
    ASSUME PanelInv, NEW u \in Updates, NEW todo \in Unanswered,
           req[u].told = 0, req[u].act # "cancel", Then(u, todo)
    PROVE  Goes(u) /\ Stays(u)
<1>1. req[u] \in Handling /\ req[u].held \in SUBSET Keys
  BY DEF PanelInv, Sound, Handling
<1>2. [req[u] EXCEPT !.todo = todo] = [req[u] EXCEPT !.todo = todo, !.held = req[u].held]
  BY <1>1 DEF Handling
<1> QED
  BY <1>1, <1>2, HoldingGoes DEF Then

\* A handler that has nothing left to do ends.
LEMMA EndGoes ==
    ASSUME PanelInv, NEW u \in Updates, NEW k, k.todo = <<>>, k.failed \in BOOLEAN,
           Become(u, k)
    PROVE  Goes(u) /\ req'[u] = Free(k.failed) /\ Stays(u)
<1>1. req \in [Updates -> Handling] /\ \A v \in Updates : Sound(req[v])
  BY DEF PanelInv, TypeOK
<1>2. req' = [req EXCEPT ![u] = Free(k.failed)]
  BY DEF Become
<1>3. Sound(Free(k.failed)) /\ Free(k.failed) \in Handling
  BY FreeSound DEF Sound
<1>4. req'[u] = Free(k.failed) /\ \A v \in Updates \ {u} : req'[v] = req[v]
  BY <1>1, <1>2
<1>5. ASSUME NEW v \in Updates PROVE Sound(req'[v])
  BY <1>1, <1>3, <1>4
<1>6. req' \in [Updates -> Handling]
  BY <1>1, <1>2, <1>3
<1> QED
  BY <1>4, <1>5, <1>6 DEF Goes, Stays, Free

LEMMA FailGoes ==
    ASSUME PanelInv, NEW u \in Updates, Fail(u)
    PROVE  Goes(u) /\ req'[u] = Free(TRUE) /\ Stays(u)
<1> DEFINE k == [req[u] EXCEPT !.todo = <<>>, !.failed = TRUE]
<1>1. k.todo = <<>> /\ k.failed = TRUE
  BY DEF PanelInv, Sound, Handling
<1>2. Become(u, k)
  BY DEF Fail
<1> HIDE DEF k
<1> QED
  BY <1>1, <1>2, EndGoes

LEMMA ThenEnd ==
    ASSUME PanelInv, NEW u \in Updates, Then(u, <<>>)
    PROVE  Goes(u) /\ req'[u] = Free(req[u].failed) /\ Stays(u)
<1> DEFINE k == [req[u] EXCEPT !.todo = <<>>]
<1>1. k.todo = <<>> /\ k.failed = req[u].failed /\ req[u].failed \in BOOLEAN
  BY DEF PanelInv, Sound, Handling
<1>2. Become(u, k)
  BY DEF Then
<1> HIDE DEF k
<1> QED
  BY <1>1, <1>2, EndGoes

\* The first await of a handler, and what is true there.
LEMMA AtStep ==
    ASSUME PanelInv, NEW u \in Updates, NEW step, NEW acts, At(u, step, acts)
    PROVE  /\ Sound(req[u]) /\ req[u].act \in acts /\ Head(req[u].todo) = step
           /\ req[u].todo # <<>>
           /\ step \in {"filter", "service", "load", "write", "refresh", "replace", "post"}
                => req[u].told = 0
           /\ step \in {"filter", "service", "load", "write", "refresh"}
                => req[u].todo = <<step>>
           /\ step = "preview" => req[u].todo = <<"preview">> /\ req[u].told = 1
           /\ step = "replace" => req[u].todo = <<"replace", "answer">>
           /\ step = "post" => req[u].todo = <<"post">>
BY Heads DEF PanelInv, Sound, At, Running

LEMMA NamedCode ==
    ASSUME PanelInv, NEW u \in Updates, NEW content \in Named(u)
    PROVE  req[u].code \in Codes
BY DEF PanelInv, TypeOK, CatalogTypeOK, Named

-----------------------------------------------------------------------------
(* Each handler goes on soundly.                                           *)

LEMMA Screens ==
    ASSUME PanelInv, NEW u \in Updates, Navigate(u) \/ ShowPage(u)
    PROVE  Goes(u) /\ Stays(u)
<1>1. {<<"post">>, <<"edit", "answer">>} \subseteq Unanswered
  BY DEF Unanswered
<1>2. CASE Navigate(u)
  BY <1>1, <1>2, AtStep, NavigationKeyboards, ShowingGoes DEF Navigate
<1>3. CASE ShowPage(u)
  <2>1. PICK shown \in SUBSET DOMAIN catalog :
          Showing(u, IF req[u].act = "/list" THEN <<"post">> ELSE <<"edit", "answer">>,
                  ListKeyboard(shown))
    BY <1>3 DEF ShowPage
  <2>2. Proper(ListKeyboard(shown))
    BY ListKeyboardProper DEF PanelInv, TypeOK, CatalogTypeOK
  <2>3. req[u].told = 0 /\ req[u].act # "cancel"
    BY <1>3, AtStep DEF ShowPage
  <2> QED
    BY <1>1, <2>1, <2>2, <2>3, ShowingGoes
<1> QED
  BY <1>2, <1>3

LEMMA RenderGoes ==
    ASSUME PanelInv, NEW u \in Updates, Render(u) PROVE Goes(u) /\ Stays(u)
<1>1. {<<"answer">>, <<"edit", "answer">>} \subseteq Unanswered
  BY DEF Unanswered
<1>2. req[u].told = 0 /\ req[u].act # "cancel"
  BY AtStep DEF Render
<1>3. \A content \in Named(u) :
         /\ Proper(DetailKeyboard(req[u].code, content.state))
         /\ Proper(DeleteKeyboard(req[u].code))
  BY NamedCode, DetailKeyboardProper, QuestionsProper
<1>4. CASE Missing(u) /\ Then(u, <<"answer">>)
  BY <1>1, <1>2, <1>4, ThenGoes
<1>5. ASSUME NEW content \in Named(u),
             Showing(u, <<"edit", "answer">>,
                     IF req[u].act = "detail"
                     THEN DetailKeyboard(req[u].code, content.state)
                     ELSE DeleteKeyboard(req[u].code))
      PROVE  Goes(u) /\ Stays(u)
  BY <1>1, <1>2, <1>3, <1>5, ShowingGoes
<1> QED
  BY <1>4, <1>5 DEF Render

LEMMA AskGoes ==
    ASSUME PanelInv, NEW u \in Updates, Ask(u) PROVE Goes(u) /\ Stays(u)
<1> DEFINE act == CASE req[u].act = "/activate"   -> "content:activate"
                    [] req[u].act = "/deactivate" -> "content:deactivate"
                    [] req[u].act = "/delete"     -> "content:delete"
<1>1. {<<"answer">>, <<"post">>} \subseteq Unanswered
  BY DEF Unanswered
<1>2. req[u].told = 0 /\ req[u].act \in {"/activate", "/deactivate", "/delete"}
  BY AtStep DEF Ask
<1>3. act \in {"content:activate", "content:deactivate", "content:delete"}
  BY <1>2
<1>4. CASE Then(u, <<"answer">>)
  BY <1>1, <1>2, <1>4, ThenGoes
<1>5. ASSUME NEW content \in Named(u),
             Showing(u, <<"post">>, ConfirmationKeyboard(act, req[u].code))
      PROVE  Goes(u) /\ Stays(u)
  <2>1. Proper(ConfirmationKeyboard(act, req[u].code))
    BY <1>3, NamedCode, QuestionsProper
  <2> QED
    BY <1>1, <1>2, <1>5, <2>1, ShowingGoes
<1> QED
  BY <1>4, <1>5 DEF Ask

LEMMA ChangesGo ==
    ASSUME PanelInv, NEW u \in Updates,
           SwitchState(u) \/ Write(u) \/ ConfirmDelete(u) \/ Dismiss(u)
    PROVE  Goes(u) /\ Stays(u)
<1>1. {<<"load">>, <<"refresh">>, <<"answer">>, <<"answer", "edit">>} \subseteq Unanswered
  BY DEF Unanswered
<1>2. CASE Fail(u)
  BY <1>2, FailGoes
<1>3. CASE ~ Fail(u)
  <2>1. req[u].told = 0
    BY <1>3, AtStep DEF SwitchState, Write, ConfirmDelete, Dismiss
  <2>2. req[u].act # "cancel"
    <3>1. At(u, "write", Acts \ DeleteActs) => req[u].act # "cancel"
      BY AtStep DEF Sound, CancelCourse, CancelUnanswered, CancelAnswered
    <3> QED
      BY <3>1, AtStep DEF SwitchState, Write, ConfirmDelete, Dismiss, StateActs, DeleteActs
  <2>3. \/ \E todo \in {<<"load">>, <<"refresh">>, <<"answer">>} : Then(u, todo)
        \/ Showing(u, <<"answer", "edit">>, {})
    BY <1>3 DEF SwitchState, Write, ConfirmDelete, Dismiss
  <2>4. ASSUME NEW todo \in {<<"load">>, <<"refresh">>, <<"answer">>}, Then(u, todo)
        PROVE  Goes(u) /\ Stays(u)
    BY <1>1, <2>1, <2>2, <2>4, ThenGoes
  <2> QED
    BY <1>1, <2>1, <2>2, <2>3, <2>4, NoKeyboard, ShowingGoes
<1> QED
  BY <1>2, <1>3

LEMMA LoadGoes ==
    ASSUME PanelInv, NEW u \in Updates, Load(u) PROVE Goes(u) /\ Stays(u)
<1>1. {<<"write">>, <<"refresh">>, <<"answer">>} \subseteq Unanswered
  BY DEF Unanswered
<1>2. req[u].told = 0 /\ req[u].act # "cancel"
  <2>1. CASE At(u, "filter", DeleteActs)
    BY <2>1, AtStep DEF DeleteActs
  <2>2. CASE At(u, "load", Acts)
    <3>1. req[u].told = 0 /\ req[u].todo = <<"load">> /\ CancelCourse(req[u])
      BY <2>2, AtStep DEF Sound
    <3>2. <<"load">> \notin CancelUnanswered
      BY DEF CancelUnanswered
    <3> QED
      BY <3>1, <3>2 DEF CancelCourse
  <2> QED
    BY <2>1, <2>2 DEF Load
<1>3. CASE Then(u, <<"answer">>)
  BY <1>1, <1>2, <1>3, ThenGoes
<1>4. ASSUME NEW content \in Named(u),
             Become(u, [req[u] EXCEPT
                          !.todo = <<IF Dirty(req[u].act, content)
                                     THEN "write" ELSE "refresh">>,
                          !.held = {key[req[u].code]}])
      PROVE  Goes(u) /\ Stays(u)
  <2> DEFINE todo == <<IF Dirty(req[u].act, content) THEN "write" ELSE "refresh">>
  <2>1. todo \in Unanswered
    BY <1>1
  <2>2. {key[req[u].code]} \in SUBSET Keys
    BY DEF PanelInv, TypeOK, Named
  <2> HIDE DEF todo
  <2> QED
    BY <1>2, <1>4, <2>1, <2>2, HoldingGoes DEF todo
<1> QED
  BY <1>3, <1>4 DEF Load

LEMMA RefreshGoes ==
    ASSUME PanelInv, NEW u \in Updates, Refresh(u) PROVE Goes(u) /\ Stays(u)
<1>1. {<<"answer">>, <<"replace", "answer">>, <<"answer", "edit">>} \subseteq Unanswered
  BY DEF Unanswered
<1>2. req[u].told = 0 /\ req[u].act # "cancel"
  BY AtStep DEF Refresh, Sound, CancelCourse, CancelUnanswered, CancelAnswered
<1>3. CASE Fail(u)
  BY <1>3, FailGoes
<1>4. ASSUME NEW code \in Keyed(u),
             Showing(u, ReplyTo(req[u].act),
                     IF req[u].act \in UxActs
                     THEN DetailKeyboard(code, catalog[code].state) ELSE {})
      PROVE  Goes(u) /\ Stays(u)
  <2>1. code \in Codes
    BY DEF PanelInv, TypeOK, CatalogTypeOK, Keyed
  <2>2. Proper(IF req[u].act \in UxActs
               THEN DetailKeyboard(code, catalog[code].state) ELSE {})
    BY <2>1, NoKeyboard, DetailKeyboardProper
  <2>3. ReplyTo(req[u].act) \in Unanswered
    BY <1>1 DEF ReplyTo
  <2> QED
    BY <1>2, <1>4, <2>2, <2>3, ShowingGoes
<1> QED
  BY <1>3, <1>4 DEF Refresh

LEMMA TypedGoes ==
    ASSUME PanelInv, NEW u \in Updates,
           Upload(u) \/ ExpireCommand(u) \/ DaysSet(u) \/ Decline(u)
    PROVE  Goes(u) /\ Stays(u)
<1>1. {<<"answer">>, <<"load">>, <<"refresh">>} \subseteq Unanswered
  BY DEF Unanswered
<1>2. req[u].told = 0 /\ req[u].act # "cancel"
  <2>1. PICK step \in {"filter", "service"}, acts \in SUBSET (Acts \ {"cancel"}) :
            At(u, step, acts)
    <3>1. /\ {"media"} \subseteq Acts \ {"cancel"} /\ {"days"} \subseteq Acts \ {"cancel"}
          /\ {"/expire", "/expire off"} \subseteq Acts \ {"cancel"}
          /\ {"words", "/list"} \subseteq Acts \ {"cancel"}
      BY DEF Acts, Typed, Commands
    <3> QED
      BY <3>1 DEF Upload, ExpireCommand, DaysSet, Decline
  <2> QED
    BY <2>1, AtStep
<1>3. ASSUME NEW todo \in {<<"answer">>, <<"load">>}, Then(u, todo)
      PROVE  Goes(u) /\ Stays(u)
  BY <1>1, <1>2, <1>3, ThenGoes
<1>4. ASSUME NEW k \in NewKeys,
             Become(u, [req[u] EXCEPT !.todo = <<"refresh">>, !.held = {k}])
      PROVE  Goes(u) /\ Stays(u)
  BY <1>1, <1>2, <1>4, HoldingGoes DEF NewKeys
<1> QED
  BY <1>3, <1>4 DEF Upload, ExpireCommand, DaysSet, Decline

LEMMA ExpirationGoes ==
    ASSUME PanelInv, NEW u \in Updates,
           StartExpiration(u) \/ ClearExpiration(u) \/ ExpirationOff(u)
    PROVE  Goes(u) /\ Stays(u)
<1>1. {<<"service">>, <<"load">>, <<"answer">>, <<"edit", "answer">>} \subseteq Unanswered
  BY DEF Unanswered
<1>2. req[u].told = 0 /\ req[u].act \in {"expire", "expire_off"}
  BY AtStep DEF StartExpiration, ClearExpiration, ExpirationOff
<1>3. req[u].code \in Codes
  BY <1>2 DEF PanelInv, Sound, NamesContent, UxActs
<1>4. ASSUME NEW todo \in {<<"service">>, <<"load">>, <<"answer">>}, Then(u, todo)
      PROVE  Goes(u) /\ Stays(u)
  BY <1>1, <1>2, <1>4, ThenGoes
<1>5. CASE Showing(u, <<"edit", "answer">>, ExpirationKeyboard(req[u].code))
  BY <1>1, <1>2, <1>3, <1>5, QuestionsProper, ShowingGoes
<1> QED
  BY <1>4, <1>5 DEF StartExpiration, ClearExpiration, ExpirationOff

LEMMA CancelGoes ==
    ASSUME PanelInv, NEW u \in Updates, Cancel(u) \/ CancelDetail(u)
    PROVE  Goes(u) /\ Stays(u)
<1> DEFINE k == req[u]
<1>1. k \in Handling /\ Sound(k) /\ k.act = "cancel"
  BY AtStep DEF Cancel, CancelDetail, Sound
<1>2. ASSUME NEW todo, NEW show, NEW held,
             Sound([k EXCEPT !.todo = todo, !.show = show, !.held = held]),
             Become(u, [k EXCEPT !.todo = todo, !.show = show, !.held = held])
      PROVE  Goes(u) /\ Stays(u)
  <2> DEFINE n == [k EXCEPT !.todo = todo, !.show = show, !.held = held]
  <2>1. n.act = k.act /\ n.code = k.code
    BY <1>1 DEF Handling
  <2> HIDE DEF n
  <2>2. Goes(u) /\ (req'[u] = n \/ req'[u] = Free(n.failed))
    BY <1>2, BecomeGoes DEF n
  <2> QED
    BY <2>1, <2>2 DEF Stays, Free
<1>3. ASSUME NEW todo, Then(u, todo)
      PROVE  Become(u, [k EXCEPT !.todo = todo, !.show = k.show, !.held = k.held])
  <2>1. [k EXCEPT !.todo = todo] = [k EXCEPT !.todo = todo, !.show = k.show, !.held = k.held]
    BY <1>1 DEF Handling
  <2> QED
    BY <1>3, <2>1 DEF Then
<1>4. k.held \in SUBSET Keys /\ k.show \in SUBSET Button
  BY <1>1 DEF Handling
<1>5. CASE Cancel(u)
  <2>1. k.told = 0 /\ k.todo = <<"filter">>
    BY <1>5, AtStep DEF Cancel
  <2>2. k.show = {}
    BY <1>1, <2>1 DEF Sound, CancelCourse
  <2>3. <<"answer", "preview">> \in Seq(Steps)
    BY CourseType DEF CancelUnanswered
  <2>4. Sound([k EXCEPT !.todo = <<"answer", "preview">>, !.show = k.show, !.held = k.held])
    BY <1>1, <1>4, <2>1, <2>2, <2>3, NoKeyboard, NextSound
  <2> QED
    BY <1>2, <1>3, <1>5, <2>4 DEF Cancel
<1>6. CASE CancelDetail(u)
  <2>1. k.told = 1 /\ k.todo = <<"preview">>
    BY <1>6, AtStep DEF CancelDetail
  <2>2. k.show = {}
    BY <1>1, <2>1 DEF Sound, CancelCourse
  <2>3. CASE Then(u, <<"answer">>)
    <3>1. Sound([k EXCEPT !.todo = <<"answer">>, !.show = k.show, !.held = k.held])
      BY <1>1, <1>4, <2>1, <2>2, NoKeyboard, CourseType, NextSound DEF CancelAnswered
    <3> QED
      BY <1>2, <1>3, <2>3, <3>1
  <2>4. ASSUME NEW content \in Named(u),
               Showing(u, <<"edit">>, DetailKeyboard(k.code, content.state))
        PROVE  Goes(u) /\ Stays(u)
    <3> DEFINE show == DetailKeyboard(k.code, content.state)
    <3>1. Proper(show)
      BY NamedCode, DetailKeyboardProper
    <3> HIDE DEF show
    <3>2. show \in SUBSET Button /\ {} \in SUBSET Keys
      BY <3>1 DEF Proper
    <3>3. Sound([k EXCEPT !.todo = <<"edit">>, !.show = show, !.held = {}])
      BY <1>1, <2>1, <3>1, <3>2, CourseType, NextSound
    <3> QED
      BY <1>2, <2>4, <3>3 DEF show, Showing
  <2> QED
    BY <1>6, <2>3, <2>4 DEF CancelDetail
<1> QED
  BY <1>5, <1>6

LEMMA GoingSound ==
    ASSUME NEW k, Sound(k), NEW n \in Handling, n.act = k.act, n.code = k.code,
           n.from = k.from, n.show = k.show, Course(n), CancelCourse(n)
    PROVE  Sound(n)
BY DEF Sound

LEMMA TelegramGoes ==
    ASSUME PanelInv, NEW u \in Updates, Answer(u) \/ Edit(u) \/ Post(u)
    PROVE  Goes(u) /\ Stays(u)
<1> DEFINE k == req[u]
<1>1. k \in Handling /\ Sound(k) /\ Course(k) /\ CancelCourse(k) /\ k.todo # <<>>
  BY AtStep DEF Answer, Edit, Post, Sound
<1>2. CASE Answer(u)
  <2> DEFINE n == [k EXCEPT !.todo = Tail(@), !.told = @ + 1]
  <2>1. /\ n.act = k.act /\ n.code = k.code /\ n.from = k.from /\ n.show = k.show
        /\ n.failed = k.failed /\ n.todo = Tail(k.todo) /\ n.told = k.told + 1
    BY <1>1 DEF Handling
  <2>2. Become(u, n)
    BY <1>2 DEF Answer
  <2>3. Head(k.todo) = "answer"
    BY <1>2, AtStep DEF Answer
  <2>4. \/ k.todo = <<"answer">>
        \/ k.todo = <<"answer", "edit">> /\ k.told = 0
        \/ k.todo = <<"answer", "preview">> /\ k.told = 0 /\ k.act = "cancel"
    BY <1>1, <2>3, Heads
  <2>5. CASE k.todo = <<"answer">>
    <3>1. n.todo = <<>> /\ n.failed \in BOOLEAN
      BY <1>1, <2>1, <2>5, TailOfOne DEF Handling
    <3> HIDE DEF n
    <3> QED
      BY <2>2, <3>1, EndGoes
  <2>6. ASSUME k.todo \in {<<"answer", "edit">>, <<"answer", "preview">>}, k.told = 0,
               k.todo = <<"answer", "preview">> => k.act = "cancel"
        PROVE  Goes(u) /\ Stays(u)
    <3>1. n.told = 1 /\ n.told \in 0..1
      BY <2>1, <2>6
    <3>2. \/ k.todo = <<"answer", "edit">> /\ n.todo = <<"edit">>
          \/ k.todo = <<"answer", "preview">> /\ n.todo = <<"preview">>
      BY <2>1, <2>6, TailOfTwo
    <3>3. n.todo \in Seq(Steps)
      BY <3>2, CourseType DEF CancelAnswered
    <3>4. n \in Handling
      BY <1>1, <2>1, <3>1, <3>3 DEF Handling
    <3>5. Course(n)
      BY <2>1, <2>6, <3>1, <3>2 DEF Course, CancelAnswered
    <3>6. CancelCourse(n)
      BY <1>1, <2>1, <2>6, <3>1, <3>2 DEF CancelCourse, CancelUnanswered, CancelAnswered
    <3> HIDE DEF n
    <3>7. Sound(n)
      BY <1>1, <2>1, <3>4, <3>5, <3>6, GoingSound
    <3>8. Goes(u) /\ (req'[u] = n \/ req'[u] = Free(n.failed))
      BY <2>2, <3>7, BecomeGoes
    <3> QED
      BY <2>1, <3>8 DEF Stays, Free
  <2> QED
    BY <2>4, <2>5, <2>6
<1>3. CASE Edit(u)
  <2>1. Head(k.todo) = "edit"
    BY <1>3, AtStep DEF Edit
  <2>2. \/ k.todo = <<"edit", "answer">> /\ k.told = 0
        \/ k.todo = <<"edit">> /\ k.told = 1
    BY <1>1, <2>1, Heads
  <2> DEFINE n == [k EXCEPT !.todo = Tail(k.todo)]
  <2>4. /\ n.act = k.act /\ n.code = k.code /\ n.from = k.from /\ n.show = k.show
        /\ n.failed = k.failed /\ n.todo = Tail(k.todo) /\ n.told = k.told
    BY <1>1 DEF Handling
  <2>5. Become(u, n)
    BY <1>3 DEF Edit, Then
  <2>6. CASE k.todo = <<"edit">>
    <3>1. n.todo = <<>> /\ n.failed \in BOOLEAN
      BY <1>1, <2>4, <2>6, TailOfOne DEF Handling
    <3> HIDE DEF n
    <3> QED
      BY <2>5, <3>1, EndGoes
  <2>7. CASE k.todo = <<"edit", "answer">> /\ k.told = 0
    <3>1. n.todo = <<"answer">> /\ n.told = 0
      BY <2>4, <2>7, TailOfTwo
    <3>2. n.todo \in Unanswered
      BY <3>1 DEF Unanswered
    <3>3. n \in Handling
      BY <1>1, <2>4, <3>2, CourseType DEF Handling
    <3>4. n.act # "cancel"
      BY <1>1, <2>4, <2>7 DEF CancelCourse, CancelUnanswered
    <3>5. Course(n) /\ CancelCourse(n)
      BY <3>1, <3>2, <3>4 DEF Course, CancelCourse
    <3> HIDE DEF n
    <3>6. Sound(n)
      BY <1>1, <2>4, <3>3, <3>5, GoingSound
    <3>7. Goes(u) /\ (req'[u] = n \/ req'[u] = Free(n.failed))
      BY <2>5, <3>6, BecomeGoes
    <3> QED
      BY <2>4, <3>7 DEF Stays, Free
  <2> QED
    BY <2>2, <2>6, <2>7
<1>4. CASE Post(u)
  BY <1>4, ThenEnd DEF Post
<1> QED
  BY <1>2, <1>3, <1>4

LEMMA ReplaceGoes ==
    ASSUME PanelInv, NEW u \in Updates, ReplacePrompt(u) PROVE Goes(u) /\ Stays(u)
<1>1. /\ req[u].told = 0 /\ req[u].act # "cancel"
      /\ req[u].todo = <<"replace", "answer">>
  BY AtStep DEF ReplacePrompt
<1>2. Then(u, <<"answer">>)
  BY <1>1, TailOfTwo DEF ReplacePrompt
<1> QED
  BY <1>1, <1>2, ThenGoes DEF Unanswered

\* The days typed are about the content the data names, and no other.
LEMMA DaysGoes ==
    ASSUME PanelInv, NEW u \in Updates, Days(u)
    PROVE  /\ Goes(u)
           /\ \/ Stays(u)
              \/ req[u].act = "days" /\ \E data \in dialogue : req'[u].code = data.code
<1>1. req[u].told = 0 /\ req[u].act = "days" /\ Sound(req[u]) /\ req[u] \in Handling
  <2>1. At(u, "filter", {"days"})
    BY DEF Days
  <2> QED
    BY <2>1, AtStep DEF Sound
<1>2. CASE Then(u, <<"answer">>)
  BY <1>1, <1>2, ThenGoes DEF Unanswered
<1>3. ASSUME NEW data \in dialogue,
             Become(u, [req[u] EXCEPT !.todo = <<"service">>,
                                      !.code = data.code, !.at = data.at])
      PROVE  Goes(u) /\ (Stays(u) \/ req'[u].code = data.code)
  <2> DEFINE n == [req[u] EXCEPT !.todo = <<"service">>,
                                 !.code = data.code, !.at = data.at]
  <2>1. data.code \in Codes /\ data.at \in SUBSET Messages
    BY DEF PanelInv, TypeOK
  <2>2. /\ n.act = "days" /\ n.code = data.code /\ n.show = req[u].show
        /\ n.todo = <<"service">> /\ n.told = 0
    BY <1>1 DEF Handling
  <2>3. <<"service">> \in Unanswered
    BY DEF Unanswered
  <2>4. n \in Handling
    BY <1>1, <2>1, <2>3, CourseType DEF Handling
  <2> HIDE DEF n
  <2>5. Sound(n)
    BY <1>1, <2>2, <2>3, <2>4 DEF Sound, Course, CancelCourse, NamesContent, UxActs,
                                 ConfirmActs, DeleteActs
  <2>6. Goes(u) /\ (req'[u] = n \/ req'[u] = Free(n.failed))
    BY <1>3, <2>5, BecomeGoes DEF n
  <2> QED
    BY <2>2, <2>6 DEF Stays, Free
<1> QED
  BY <1>1, <1>2, <1>3 DEF Days

LEMMA ArriveGoes ==
    ASSUME PanelInv, NEW u \in Updates, NEW act \in Acts, NEW code \in Codes \cup {NoCode},
           NEW at \in SUBSET Messages, NEW from \in SUBSET Button,
           act \in NamesContent => code \in Codes,
           act \in DeleteActs => from \in Questions(code),
           Arrive(u, act, code, at, from)
    PROVE  /\ Goes(u)
           /\ req'[u].act = "words" \/ (req'[u].act = act /\ req'[u].code = code)
<1> DEFINE f == Free(FALSE)
           n == [f EXCEPT
                    !.todo = <<"filter">>, !.act = act, !.code = code, !.at = at,
                    !.from = IF act \in DeleteActs THEN from ELSE {},
                    !.awaited = act \in Typed /\ dialogue # {}]
<1>1. f \in Handling /\ f.told = 0 /\ f.show = {}
  BY FreeSound DEF Sound, Free
<1> HIDE DEF f
<1>2. /\ n.act = act /\ n.code = code /\ n.show = {} /\ n.todo = <<"filter">>
      /\ n.told = 0 /\ n.from = IF act \in DeleteActs THEN from ELSE {}
  BY <1>1 DEF Handling
<1>3. <<"filter">> \in Unanswered /\ <<"filter">> \in CancelUnanswered
  BY DEF Unanswered, CancelUnanswered
<1>4. (act \in Typed /\ dialogue # {}) \in BOOLEAN
  OBVIOUS
<1>5. n \in Handling
  BY <1>1, <1>3, <1>4, CourseType DEF Handling
<1>6. Become(u, n)
  BY DEF Arrive, f
<1> HIDE DEF n
<1>7. Sound(n)
  BY <1>2, <1>3, <1>5, NoKeyboard DEF Sound, Course, CancelCourse
<1>8. Goes(u) /\ (req'[u] = n \/ req'[u] = Free(n.failed))
  BY <1>6, <1>7, BecomeGoes
<1> QED
  BY <1>2, <1>8 DEF Free

\* What arrives keeps no other handler from going on soundly.  A days message
\* names no content when it arrives.
LEMMA ArrivalsGo ==
    ASSUME PanelInv, NEW u \in Updates, Press(u) \/ Send(u)
    PROVE  Goes(u) /\ (req'[u].act = "days" => req'[u].code = NoCode)
<1>2. CASE Press(u)
  <2>1. PICK m \in sent : \E b \in screen[m] : Arrive(u, b.act, b.code, {m}, screen[m])
    BY <1>2 DEF Press
  <2>2. PICK b \in screen[m] : Arrive(u, b.act, b.code, {m}, screen[m])
    BY <2>1
  <2>3. m \in Messages /\ Proper(screen[m]) /\ screen[m] \in SUBSET Button
    BY DEF PanelInv, TypeOK
  <2>4. /\ b.act \in PressActs /\ b.code \in Codes \cup {NoCode}
        /\ b.act \in NamesContent => b.code \in Codes
        /\ b.act \in DeleteActs => screen[m] \in Questions(b.code)
    BY <2>3 DEF Proper, Button
  <2>5. b.act \in Acts
    BY <2>4, ActSets
  <2>6. /\ Goes(u)
        /\ req'[u].act = "words" \/ (req'[u].act = b.act /\ req'[u].code = b.code)
    BY <2>2, <2>3, <2>4, <2>5, ArriveGoes
  <2>7. b.act # "days"
    BY <2>4 DEF PressActs, NavActs, UxActs, ConfirmActs
  <2> QED
    BY <2>6, <2>7
<1>3. CASE Send(u)
  <2>1. PICK act \in Commands \cup Typed, code \in Codes \cup {NoCode} :
            /\ Arrive(u, act, code, {}, {})
            /\ act \in Typed => code = NoCode
    BY <1>3 DEF Send, Typed, Commands
  <2>2. act \in Acts /\ act \notin NamesContent /\ act \notin DeleteActs
    BY ActSets
  <2>3. Goes(u) /\ (req'[u].act = "words" \/ (req'[u].act = act /\ req'[u].code = code))
    BY <2>1, <2>2, ArriveGoes
  <2> QED
    BY <2>1, <2>3 DEF Typed
<1> QED
  BY <1>2, <1>3

-----------------------------------------------------------------------------
(* What each handler does to the rows, the dialogue and the messages.      *)

RowsType ==
    /\ CatalogTypeOK
    /\ key \in [DOMAIN catalog -> Keys]
    /\ \A c, d \in DOMAIN catalog : key[c] = key[d] => c = d

LEMMA InsertRows ==
    ASSUME PanelInv, NEW code \in Codes, NEW source \in Sources, NEW k, Insert(code, source, k)
    PROVE  RowsType'
<1>1. CatalogTypeOK'
  BY CreateType DEF Insert, PanelInv, TypeOK
<1>2. DOMAIN catalog' = DOMAIN catalog \cup {code} /\ code \notin DOMAIN catalog
  BY DEF Insert, Create
<1>3. k \in Keys /\ \A c \in DOMAIN catalog : key[c] # k
  BY DEF Insert, NewKeys
<1>4. key' = [c \in DOMAIN catalog' |-> IF c = code THEN k ELSE key[c]]
  BY DEF Insert
<1>5. key' \in [DOMAIN catalog' -> Keys]
  BY <1>2, <1>3, <1>4 DEF PanelInv, TypeOK
<1>6. \A c, d \in DOMAIN catalog' : key'[c] = key'[d] => c = d
  BY <1>2, <1>3, <1>4 DEF PanelInv
<1> QED
  BY <1>1, <1>5, <1>6 DEF RowsType

LEMMA RemoveRows ==
    ASSUME PanelInv, NEW code, Remove(code) PROVE RowsType'
<1>1. CatalogTypeOK'
  BY DeleteType DEF Remove, PanelInv, TypeOK
<1>2. DOMAIN catalog' \subseteq DOMAIN catalog
  BY DEF Remove, Delete
<1>3. key' = [c \in DOMAIN catalog' |-> key[c]]
  BY DEF Remove
<1>4. key' \in [DOMAIN catalog' -> Keys]
  BY <1>2, <1>3 DEF PanelInv, TypeOK
<1>5. \A c, d \in DOMAIN catalog' : key'[c] = key'[d] => c = d
  BY <1>2, <1>3 DEF PanelInv
<1> QED
  BY <1>1, <1>4, <1>5 DEF RowsType

LEMMA SameKeys ==
    ASSUME PanelInv, CatalogTypeOK', DOMAIN catalog' = DOMAIN catalog, UNCHANGED key
    PROVE  RowsType'
BY DEF PanelInv, TypeOK, RowsType

LEMMA ChangeCatalog ==
    ASSUME PanelInv, NEW act, NEW code, Change(act, code)
    PROVE  CatalogTypeOK' /\ DOMAIN catalog' = DOMAIN catalog
<1>1. TargetOf(act) \subseteq States
  BY DEF TargetOf, States
<1>2. {} \in Deadlines /\ \A deadline \in Dates : {deadline} \in Deadlines
  BY DEF Deadlines
<1>3. CatalogTypeOK'
  BY <1>1, <1>2, SetStateType, SetExpirationType DEF Change, PanelInv, TypeOK
<1>4. DOMAIN catalog' = DOMAIN catalog
  BY DEF Change, SetState, SetExpiration
<1> QED
  BY <1>3, <1>4

LEMMA HandledRows ==
    ASSUME PanelInv, NEW u \in Updates, Handle(u) PROVE RowsType'
<1>1. CASE UNCHANGED rows
  <2>1. UNCHANGED <<catalog, now, key>>
    BY <1>1 DEF rows, catalogVars
  <2> QED
    BY <2>1 DEF RowsType, PanelInv, TypeOK, CatalogTypeOK
<1>2. CASE Write(u) /\ ~ UNCHANGED rows
  <2>1. PICK code \in Keyed(u) : Change(req[u].act, code) /\ UNCHANGED key
    BY <1>2 DEF Write
  <2> QED
    BY <2>1, ChangeCatalog, SameKeys
<1>3. CASE ConfirmDelete(u)
  BY <1>1, <1>3, RemoveRows DEF ConfirmDelete
<1>4. CASE Upload(u)
  BY <1>4, InsertRows DEF Upload
<1> QED
  BY <1>1, <1>2, <1>3, <1>4
     DEF Handle, Navigate, ShowPage, Render, Ask, SwitchState, Load, Refresh, Dismiss,
         ExpireCommand, StartExpiration, ClearExpiration, ExpirationOff, Cancel,
         CancelDetail, Days, DaysSet, ReplacePrompt, Decline, Answer, Edit, Post

LEMMA OthersRows == ASSUME PanelInv, Others PROVE RowsType'
<1>1. CASE CatalogNext /\ DOMAIN catalog' = DOMAIN catalog /\ UNCHANGED key
  BY <1>1, CatalogType, SameKeys DEF PanelInv, TypeOK
<1> QED
  BY <1>1, InsertRows, RemoveRows DEF Others

DialogueType ==
    /\ dialogue \in SUBSET [code : Codes, at : SUBSET Messages]
    /\ latest \subseteq Codes

LEMMA HandledDialogue ==
    ASSUME PanelInv, AboutLatest, NEW u \in Updates, Handle(u)
    PROVE  DialogueType' /\ AboutLatest'
<1>1. DialogueType
  BY DEF PanelInv, TypeOK, DialogueType
<1>2. CASE StartExpiration(u)
  <2>1. req[u].act = "expire" /\ Sound(req[u])
    BY <1>2, AtStep DEF StartExpiration
  <2>2. req[u].code \in Codes /\ req[u].at \in SUBSET Messages
    BY <2>1 DEF Sound, Handling, NamesContent, UxActs
  <2> QED
    BY <1>2, <2>2 DEF StartExpiration, DialogueType, AboutLatest
<1>3. CASE NoDialogue
  BY <1>3 DEF NoDialogue, DialogueType, AboutLatest
<1>4. CASE UNCHANGED fsm
  BY <1>1, <1>4 DEF fsm, DialogueType, AboutLatest
<1> QED
  BY <1>2, <1>3, <1>4
     DEF Handle, Navigate, ShowPage, Render, Ask, SwitchState, ConfirmDelete,
         Dismiss, Upload, Load, Write, Refresh, ExpireCommand, ClearExpiration,
         ExpirationOff, Cancel, CancelDetail, Days, DaysSet, ReplacePrompt, Decline, Answer, Edit, Post

ChatType ==
    /\ screen \in [Messages -> SUBSET Button] /\ sent \subseteq Messages
    /\ \A m \in Messages : Proper(screen[m])

LEMMA HandledChat ==
    ASSUME PanelInv, NEW u \in Updates, Handle(u) PROVE ChatType'
<1>1. ChatType
  BY DEF PanelInv, TypeOK, ChatType
<1>2. ASSUME NEW at, NEW show, Proper(show), screen' = Shown(at, show)
      PROVE  /\ screen' \in [Messages -> SUBSET Button]
             /\ \A m \in Messages : Proper(screen'[m])
  <2>1. show \in SUBSET Button
    BY <1>2 DEF Proper
  <2>2. \A m \in Messages : screen'[m] = IF m \in at THEN show ELSE screen[m]
    BY <1>2 DEF Shown
  <2> QED
    BY <1>1, <1>2, <2>1, <2>2 DEF ChatType, Shown
<1>3. Proper(req[u].show)
  BY DEF PanelInv, Sound
<1>4. CASE UNCHANGED chat
  BY <1>1, <1>4 DEF ChatType, chat
<1>5. CASE ReplacePrompt(u)
  BY <1>1, <1>2, <1>5, NoKeyboard DEF ReplacePrompt, ChatType
<1>6. CASE Edit(u)
  BY <1>1, <1>2, <1>3, <1>6 DEF Edit, ChatType
<1>7. CASE Post(u)
  <2>1. PICK m \in Messages : /\ sent' = sent \cup {m}
                              /\ screen' = [screen EXCEPT ![m] = req[u].show]
    BY <1>7 DEF Post
  <2>2. req[u].show \in SUBSET Button
    BY <1>3 DEF Proper
  <2> QED
    BY <1>1, <1>3, <2>1, <2>2 DEF ChatType
<1> QED
  BY <1>4, <1>5, <1>6, <1>7
     DEF Handle, Navigate, ShowPage, Render, Ask, SwitchState, Load, Write, Refresh,
         ConfirmDelete, Dismiss, Upload, ExpireCommand, StartExpiration, ClearExpiration,
         ExpirationOff, Cancel, CancelDetail, Days, DaysSet, Decline, Answer

LEMMA HandledGoes ==
    ASSUME PanelInv, NEW u \in Updates, Handle(u)
    PROVE  /\ Goes(u)
           /\ \/ Stays(u)
              \/ req[u].act = "days" /\ \E data \in dialogue : req'[u].code = data.code
BY Screens, RenderGoes, AskGoes, ChangesGo, LoadGoes, RefreshGoes, TypedGoes, ExpirationGoes, CancelGoes,
   ReplaceGoes, DaysGoes, TelegramGoes DEF Handle

-----------------------------------------------------------------------------
(* The invariant is inductive.                                             *)

\* A days message arrives without a code, and gets it from the dialogue only.
Kin(v) ==
    req'[v].act = "days" =>
        \/ req[v].act = "days" /\ req'[v].code = req[v].code
        \/ req'[v].code = NoCode
        \/ req[v].act = "days" /\ \E data \in dialogue : req'[v].code = data.code

Sane ==
    /\ RowsType' /\ DialogueType' /\ AboutLatest' /\ ChatType'
    /\ req' \in [Updates -> Handling]
    /\ \A v \in Updates : Sound(req[v])' /\ Kin(v)

LEMMA Initially == Init => Inv
<1> SUFFICES ASSUME Init PROVE Inv
  OBVIOUS
<1>1. CatalogTypeOK
  BY ClockAssumption, SMT DEF Init, CatalogInit, CatalogTypeOK
<1>2. Sound(Free(FALSE)) /\ Free(FALSE) \in Handling /\ Free(FALSE).act # "days"
  BY FreeSound DEF Sound, Free
<1>3. \A u \in Updates : req[u] = Free(FALSE)
  BY DEF Init
<1>4. \A u \in Updates : Sound(req[u]) /\ req[u].act # "days"
  BY <1>2, <1>3
<1>5. TypeOK /\ \A c, d \in DOMAIN catalog : key[c] = key[d] => c = d
  BY <1>1, <1>2 DEF Init, CatalogInit, TypeOK
<1>6. \A m \in Messages : Proper(screen[m])
  BY NoKeyboard DEF Init
<1> QED
  BY <1>4, <1>5, <1>6 DEF Inv, PanelInv, AboutLatest, AskedInv, Init

LEMMA Unchanged ==
    ASSUME Inv
    PROVE  /\ UNCHANGED rows => RowsType'
           /\ UNCHANGED fsm => DialogueType' /\ AboutLatest'
           /\ NoDialogue => DialogueType' /\ AboutLatest'
           /\ UNCHANGED chat => ChatType'
           /\ UNCHANGED req => /\ req' \in [Updates -> Handling]
                               /\ \A v \in Updates : Sound(req[v])' /\ Kin(v)
BY DEF Inv, PanelInv, TypeOK, CatalogTypeOK, RowsType, DialogueType, AboutLatest,
       ChatType, Kin, rows, catalogVars, fsm, chat, NoDialogue

LEMMA StepSane ==
    ASSUME Inv, Step PROVE Sane
<1> USE DEF Inv
<1>1. ASSUME NEW u \in Updates, Press(u) \/ Send(u) PROVE Sane
  <2>1. UNCHANGED <<rows, fsm, chat>>
    BY <1>1 DEF Press, Send, Arrive
  <2>2. Goes(u) /\ (req'[u].act = "days" => req'[u].code = NoCode)
    BY <1>1, ArrivalsGo
  <2> QED
    BY <2>1, <2>2, Unchanged DEF Sane, Goes, Kin
<1>2. ASSUME NEW u \in Updates, Handle(u) PROVE Sane
  <2>1. RowsType' /\ DialogueType' /\ AboutLatest' /\ ChatType'
    BY <1>2, HandledRows, HandledDialogue, HandledChat
  <2>2. /\ Goes(u)
        /\ \/ Stays(u)
           \/ req[u].act = "days" /\ \E data \in dialogue : req'[u].code = data.code
    BY <1>2, HandledGoes
  <2> QED
    BY <2>1, <2>2 DEF Sane, Goes, Stays, Kin
<1>3. ASSUME NEW u \in Updates, Block(u) \/ Fault(u) PROVE Sane
  <2>1. UNCHANGED <<rows, fsm, chat>> /\ Fail(u)
    BY <1>3 DEF Block, Fault
  <2>2. Goes(u) /\ Stays(u)
    BY <2>1, FailGoes
  <2> QED
    BY <2>1, <2>2, Unchanged DEF Sane, Goes, Stays, Kin
<1>4. CASE Restart
  <2>1. UNCHANGED <<rows, chat>> /\ NoDialogue
    BY <1>4 DEF Restart
  <2>2. \A v \in Updates : req'[v] = Free(TRUE) \/ req'[v] = req[v]
    BY <1>4 DEF Restart
  <2>3. Sound(Free(TRUE)) /\ Free(TRUE) \in Handling /\ Free(TRUE).act # "days"
    BY FreeSound DEF Sound, Free
  <2>4. \A v \in Updates : Sound(req[v]) /\ req[v] \in Handling
    BY DEF PanelInv, Sound
  <2>5. req' \in [Updates -> Handling]
    BY <1>4, <2>3, <2>4 DEF Restart
  <2>6. \A v \in Updates : Sound(req[v])' /\ Kin(v)
    BY <2>2, <2>3, <2>4 DEF Kin
  <2> QED
    BY <2>1, <2>5, <2>6, Unchanged DEF Sane
<1>5. CASE Others
  <2>1. RowsType'
    BY <1>5, OthersRows
  <2> QED
    BY <1>5, <2>1, Unchanged DEF Others, Sane
<1> QED
  BY <1>1, <1>2, <1>3, <1>4, <1>5 DEF Step

LEMMA NextInv ==
    ASSUME Inv, Next PROVE Inv'
<1>1. Sane
  BY StepSane DEF Next
<1>2. asked' = [u \in Updates |->
                   IF req'[u].act # "days" THEN {} ELSE asked[u] \cup latest']
  BY DEF Next, Observe
<1>3. asked \in [Updates -> SUBSET Codes] /\ latest' \in SUBSET Codes
  BY <1>1 DEF Inv, PanelInv, TypeOK, Sane, DialogueType
<1>4. asked' \in [Updates -> SUBSET Codes]
  BY <1>2, <1>3
<1>5. PanelInv'
  BY <1>1, <1>4 DEF Sane, PanelInv, TypeOK, RowsType, DialogueType, ChatType
<1>6. ASSUME NEW u \in Updates, req'[u].act = "days"
      PROVE  /\ latest' \subseteq asked'[u]
             /\ req'[u].code # NoCode => req'[u].code \in asked'[u]
  <2>1. asked'[u] = asked[u] \cup latest'
    BY <1>2, <1>6
  <2>2. Kin(u)
    BY <1>1 DEF Sane
  <2>3. req[u].act = "days" =>
            /\ \A data \in dialogue : data.code \in asked[u]
            /\ req[u].code # NoCode => req[u].code \in asked[u]
    BY DEF Inv, AskedInv, AboutLatest
  <2> QED
    BY <1>6, <2>1, <2>2, <2>3 DEF Kin
<1> QED
  BY <1>1, <1>5, <1>6 DEF Inv, Sane, AskedInv

LEMMA StutterInv ==
    ASSUME Inv, UNCHANGED vars PROVE Inv'
<1>1. UNCHANGED <<catalog, now, key, dialogue, latest, screen, sent, req, asked>>
  BY DEF vars, rows, catalogVars, fsm, chat
<1> QED
  BY <1>1 DEF Inv, PanelInv, TypeOK, CatalogTypeOK, AboutLatest, AskedInv

THEOREM Invariance == Spec => []Inv
<1>1. Inv /\ [Next]_vars => Inv'
  BY NextInv, StutterInv
<1> QED
  BY <1>1, Initially, PTL DEF Spec

\* Every handler, message and dialogue keeps its type, and no update is told
\* more than one answer before it ends (app/router/admin).
THEOREM TypeCorrect == Spec => []TypeOK
<1>1. Inv => TypeOK
  BY DEF Inv, PanelInv
<1> QED
  BY <1>1, Invariance, PTL

-----------------------------------------------------------------------------
(* Whose step it was.                                                      *)

LEMMA OwnStep ==
    ASSUME Inv, Next, NEW u \in Updates, Own(u)
    PROVE  \/ Handle(u)
           \/ (Press(u) \/ Send(u)) /\ ~Running(u) /\ UNCHANGED rows
           \/ req'[u] = Free(TRUE) /\ UNCHANGED rows
<1> USE DEF Inv
<1>1. ASSUME NEW v \in Updates, Press(v) \/ Send(v)
      PROVE  u = v /\ ~Running(v) /\ UNCHANGED rows
  <2>1. Goes(v)
    BY <1>1, ArrivalsGo
  <2>2. ~Running(v) /\ UNCHANGED rows
    BY <1>1 DEF Press, Send, Arrive
  <2> QED
    BY <2>1, <2>2 DEF Goes, Own
<1>2. ASSUME NEW v \in Updates, Handle(v) PROVE u = v
  BY <1>2, HandledGoes DEF Goes, Own
<1>3. ASSUME NEW v \in Updates, Block(v) \/ Fault(v)
      PROVE  u = v /\ req'[u] = Free(TRUE) /\ UNCHANGED rows
  <2>1. Fail(v) /\ UNCHANGED rows
    BY <1>3 DEF Block, Fault
  <2> QED
    BY <2>1, FailGoes DEF Goes, Own
<1>4. CASE Restart
  BY <1>4 DEF Restart, Own
<1>5. CASE Others
  BY <1>5 DEF Others, Own
<1> QED
  BY <1>1, <1>2, <1>3, <1>4, <1>5 DEF Next, Step

-----------------------------------------------------------------------------
(* What a handler has left to do.                                          *)

LEMMA NextTodo ==
    ASSUME PanelInv, NEW u \in Updates, NEW k, Become(u, k)
    PROVE  req'[u].todo = k.todo
BY DEF PanelInv, TypeOK, Become, Free

LEMMA Continues ==
    ASSUME PanelInv, NEW u \in Updates, NEW todo,
           Then(u, todo) \/ \E show : Showing(u, todo, show)
    PROVE  req'[u].todo = todo
<1>1. req[u] \in Handling
  BY DEF PanelInv, TypeOK
<1>2. CASE Then(u, todo)
  <2> DEFINE n == [req[u] EXCEPT !.todo = todo]
  <2>1. n.todo = todo /\ Become(u, n)
    BY <1>1, <1>2 DEF Then, Handling
  <2> HIDE DEF n
  <2> QED
    BY <2>1, NextTodo
<1>3. ASSUME NEW show, Showing(u, todo, show) PROVE req'[u].todo = todo
  <2> DEFINE n == [req[u] EXCEPT !.todo = todo, !.show = show, !.held = {}]
  <2>1. n.todo = todo /\ Become(u, n)
    BY <1>1, <1>3 DEF Showing, Handling
  <2> HIDE DEF n
  <2> QED
    BY <2>1, NextTodo
<1> QED
  BY <1>2, <1>3

-----------------------------------------------------------------------------
(* What a handler does to the contents.                                    *)

\* A handler writes the row whose key it holds, to do what it was asked.
LEMMA HandledWrites ==
    ASSUME PanelInv, NEW u \in Updates, Handle(u), ~ UNCHANGED rows
    PROVE  \/ /\ req[u].todo = <<"write">> /\ UNCHANGED key
              /\ \E code \in Keyed(u) : Change(req[u].act, code)
           \/ /\ req[u].act \in DeleteActs /\ req[u].todo = <<"write">>
              /\ \E code \in Keyed(u) : Remove(code)
           \/ req[u].act = "media" /\ \E code, source, k : Insert(code, source, k)
<1>1. CASE Write(u)
  BY <1>1, AtStep DEF Write
<1>2. CASE ConfirmDelete(u)
  BY <1>2, AtStep DEF ConfirmDelete
<1>3. CASE Upload(u)
  BY <1>3, AtStep DEF Upload
<1> QED
  BY <1>1, <1>2, <1>3
     DEF Handle, Navigate, ShowPage, Render, Ask, SwitchState, Load, Refresh, Dismiss,
         ExpireCommand, StartExpiration, ClearExpiration, ExpirationOff, Cancel,
         CancelDetail, Days, DaysSet, ReplacePrompt, Decline, Answer, Edit, Post

-----------------------------------------------------------------------------
(* Keys that no handler holds when they are handed out.                    *)

LEMMA RowsKept ==
    ASSUME Inv, Next, NEW c \in DOMAIN catalog'
    PROVE  \/ c \in DOMAIN catalog /\ key'[c] = key[c]
           \/ key'[c] \in NewKeys
<1> DEFINE Kept == \/ c \in DOMAIN catalog /\ key'[c] = key[c]
                   \/ key'[c] \in NewKeys
<1> USE DEF Inv
<1>1. CASE UNCHANGED rows
  BY <1>1 DEF rows, catalogVars
<1>2. CASE DOMAIN catalog' = DOMAIN catalog /\ UNCHANGED key
  BY <1>2
<1>3. ASSUME NEW code, NEW source, NEW k, Insert(code, source, k) PROVE Kept
  <2>1. DOMAIN catalog' = DOMAIN catalog \cup {code} /\ k \in NewKeys
    BY <1>3 DEF Insert, Create
  <2>2. key'[c] = IF c = code THEN k ELSE key[c]
    BY <1>3 DEF Insert
  <2> QED
    BY <2>1, <2>2
<1>4. ASSUME NEW code, Remove(code) PROVE Kept
  BY <1>4 DEF Remove, Delete
<1>5. ASSUME NEW u \in Updates, Handle(u) PROVE Kept
  <2>1. CASE ~ UNCHANGED rows
    BY <1>2, <1>3, <1>4, <1>5, <2>1, HandledWrites, ChangeCatalog
  <2> QED
    BY <1>1, <2>1
<1>6. CASE Others
  BY <1>2, <1>3, <1>4, <1>6 DEF Others
<1> HIDE DEF Kept
<1> QED
  BY <1>1, <1>5, <1>6 DEF Next, Step, Press, Send, Arrive, Block, Fault, Restart, Kept

\* Only a row that was just selected is written next.
LEMMA OnlyLoaded ==
    ASSUME PanelInv, NEW u \in Updates, Handle(u), req'[u].todo = <<"write">>
    PROVE  Load(u)
<1>1. /\ <<"write">> \notin {<<>>, <<"service">>, <<"load">>, <<"refresh">>, <<"answer">>,
                             <<"edit">>, <<"post">>, <<"preview">>}
      /\ <<"write">> \notin {<<"edit", "answer">>, <<"answer", "edit">>,
                             <<"answer", "answer">>, <<"answer", "preview">>,
                             <<"replace", "answer">>}
  OBVIOUS
<1>2. \A todo, show : Then(u, todo) \/ Showing(u, todo, show) => todo = <<"write">>
  BY Continues
<1>3. ~ Fail(u)
  <2>1. Free(TRUE).todo = <<>>
    BY DEF Free
  <2> QED
    BY <1>1, <2>1, FailGoes
<1>4. ~ Navigate(u) /\ ~ ShowPage(u) /\ ~ Render(u) /\ ~ Ask(u)
  BY <1>1, <1>2 DEF Navigate, ShowPage, Render, Ask
<1>5. ~ SwitchState(u) /\ ~ Write(u) /\ ~ ConfirmDelete(u) /\ ~ Dismiss(u)
  BY <1>1, <1>2, <1>3 DEF SwitchState, Write, ConfirmDelete, Dismiss
<1>6. ~ Refresh(u)
  <2>1. \A act : ReplyTo(act) # <<"write">>
    BY <1>1 DEF ReplyTo
  <2> QED
    BY <1>2, <1>3, <2>1 DEF Refresh
<1>7. /\ ~ ExpireCommand(u) /\ ~ StartExpiration(u) /\ ~ ClearExpiration(u)
      /\ ~ ExpirationOff(u) /\ ~ Cancel(u) /\ ~ CancelDetail(u) /\ ~ DaysSet(u)
      /\ ~ Decline(u) /\ ~ Post(u)
  BY <1>1, <1>2 DEF ExpireCommand, StartExpiration, ClearExpiration, ExpirationOff,
                    Cancel, CancelDetail, DaysSet, Decline, Post
<1>8. req[u] \in Handling /\ Course(req[u])
  BY DEF PanelInv, Sound
<1>9. ~ Upload(u)
  <2>1. ASSUME NEW k, Become(u, [req[u] EXCEPT !.todo = <<"refresh">>, !.held = {k}])
        PROVE  FALSE
    <3> DEFINE n == [req[u] EXCEPT !.todo = <<"refresh">>, !.held = {k}]
    <3>1. n.todo = <<"refresh">> /\ Become(u, n)
      BY <1>8, <2>1 DEF Handling
    <3> HIDE DEF n
    <3> QED
      BY <1>1, <3>1, NextTodo
  <2> QED
    BY <2>1 DEF Upload
<1>10. ~ Days(u)
  <2>1. ASSUME NEW data,
               Become(u, [req[u] EXCEPT !.todo = <<"service">>,
                                        !.code = data.code, !.at = data.at])
        PROVE  FALSE
    <3> DEFINE n == [req[u] EXCEPT !.todo = <<"service">>,
                                   !.code = data.code, !.at = data.at]
    <3>1. n.todo = <<"service">> /\ Become(u, n)
      BY <1>8, <2>1 DEF Handling
    <3> HIDE DEF n
    <3> QED
      BY <1>1, <3>1, NextTodo
  <2> QED
    BY <1>1, <1>2, <2>1 DEF Days
<1>11. Tail(req[u].todo) # <<"write">>
       \/ ~ (Answer(u) \/ Edit(u) \/ ReplacePrompt(u))
  <2> SUFFICES ASSUME Answer(u) \/ Edit(u) \/ ReplacePrompt(u)
               PROVE  Tail(req[u].todo) # <<"write">>
    OBVIOUS
  <2>1. /\ req[u].todo # <<>>
        /\ Head(req[u].todo) \in {"answer", "edit", "replace"}
    BY AtStep DEF Answer, Edit, ReplacePrompt
  <2>2. req[u].todo \in {<<"answer">>, <<"answer", "edit">>, <<"answer", "preview">>,
                         <<"edit">>, <<"edit", "answer">>, <<"replace", "answer">>}
    BY <1>8, <2>1, Heads
  <2> QED
    BY <1>1, <2>2, TailOfOne, TailOfTwo
<1>12. ~ Edit(u) /\ ~ ReplacePrompt(u)
  BY <1>2, <1>11 DEF Edit, ReplacePrompt
<1>13. ~ Answer(u)
  <2> DEFINE n == [req[u] EXCEPT !.todo = Tail(@), !.told = @ + 1]
  <2>1. n.todo = Tail(req[u].todo)
    BY <1>8 DEF Handling
  <2>2. Answer(u) => Become(u, n)
    BY DEF Answer
  <2> HIDE DEF n
  <2> QED
    BY <1>11, <2>1, <2>2, NextTodo
<1> QED
  BY <1>4, <1>5, <1>6, <1>7, <1>9, <1>10, <1>12, <1>13 DEF Handle

LEMMA LoadAddresses ==
    ASSUME PanelInv, NEW u \in Updates, Load(u), req'[u].todo = <<"write">>
    PROVE  \A c \in Keyed(u)' : c = req'[u].code
<1>1. ~ Then(u, <<"answer">>)
  BY Continues
<1>2. PICK content \in Named(u) :
        Become(u, [req[u] EXCEPT
                     !.todo = <<IF Dirty(req[u].act, content)
                                THEN "write" ELSE "refresh">>,
                     !.held = {key[req[u].code]}])
  BY <1>1 DEF Load
<1> DEFINE todo == <<IF Dirty(req[u].act, content) THEN "write" ELSE "refresh">>
           n == [req[u] EXCEPT !.todo = todo, !.held = {key[req[u].code]}]
<1>3. todo # <<>>
  OBVIOUS
<1> HIDE DEF todo
<1>4. n.todo = todo /\ n.code = req[u].code /\ n.held = {key[req[u].code]}
  BY DEF PanelInv, TypeOK, Handling
<1>5. Become(u, n)
  BY <1>2 DEF todo
<1> HIDE DEF n
<1>6. req'[u] = n
  BY <1>3, <1>4, <1>5 DEF Become, PanelInv, TypeOK
<1>7. req[u].code \in DOMAIN catalog /\ UNCHANGED <<catalog, key>>
  BY DEF Named, Load, rows, catalogVars
<1> QED
  BY <1>4, <1>6, <1>7 DEF Keyed, PanelInv

LEMMA NextAddressed ==
    ASSUME RowidReuse = FALSE, Inv, Addressed, Next PROVE Addressed'
<1> SUFFICES ASSUME NEW u \in Updates, req'[u].todo = <<"write">>, NEW c \in Keyed(u)'
             PROVE  c = req'[u].code
  BY DEF Addressed
<1>1. c \in DOMAIN catalog' /\ key'[c] \in req'[u].held
  BY DEF Keyed
<1>2. CASE req'[u] = req[u]
  <2>1. key'[c] \notin NewKeys
    BY <1>1, <1>2 DEF NewKeys
  <2>2. c \in Keyed(u)
    BY <1>1, <1>2, <2>1, RowsKept DEF Keyed
  <2> QED
    BY <1>2, <2>2 DEF Addressed
<1>3. CASE Own(u)
  <2>1. req'[u] # Free(TRUE)
    BY DEF Free
  <2>2. ~ (Press(u) \/ Send(u))
    <3>1. ASSUME NEW act, NEW code, NEW at, NEW from, Arrive(u, act, code, at, from)
          PROVE  FALSE
      <4> DEFINE n == [Free(FALSE) EXCEPT
                    !.todo = <<"filter">>, !.act = act, !.code = code, !.at = at,
                    !.from = IF act \in DeleteActs THEN from ELSE {},
                    !.awaited = act \in Typed /\ dialogue # {}]
      <4>1. n.todo = <<"filter">>
        BY DEF Free
      <4>2. Become(u, n)
        BY <3>1 DEF Arrive
      <4> HIDE DEF n
      <4>3. req'[u].todo = <<"filter">>
        BY <4>1, <4>2, NextTodo DEF Inv
      <4> QED
        BY <4>3
    <3> QED
      BY <3>1 DEF Press, Send
  <2>3. Handle(u)
    BY <1>3, <2>1, <2>2, OwnStep
  <2> QED
    BY <2>3, OnlyLoaded, LoadAddresses DEF Inv
<1> QED
  BY <1>2, <1>3 DEF Own

LEMMA KeysAddressed ==
    ASSUME RowidReuse = FALSE
    PROVE  Spec => []Addressed
<1>1. Init => Addressed
  <2> SUFFICES ASSUME Init PROVE Addressed
    OBVIOUS
  <2>1. \A u \in Updates : req[u].todo = <<>>
    BY DEF Init, Free
  <2> QED
    BY <2>1 DEF Addressed
<1>2. Inv /\ Addressed /\ [Next]_vars => Addressed'
  <2>1. ASSUME Addressed, UNCHANGED vars PROVE Addressed'
    BY <2>1 DEF Addressed, Keyed, vars, rows, catalogVars
  <2> QED
    BY <2>1, NextAddressed
<1> QED
  BY <1>1, <1>2, Invariance, PTL DEF Spec

-----------------------------------------------------------------------------
(* What reaches the contents.                                              *)

LEMMA ChangeOne ==
    ASSUME NEW act, NEW code, Change(act, code), NEW c \in DOMAIN catalog
    PROVE  /\ c \in DOMAIN catalog'
           /\ catalog'[c] # catalog[c] => c = code
BY DEF Change, SetState, SetExpiration

\* The days an administrator types set only the deadline of a content whose
\* EXPIRE press was the last one while his message was in flight, when no key
\* is handed out that a handler holds (expiration_days_handler).
THEOREM DaysReachWhatWasAsked ==
    ASSUME RowidReuse = FALSE
    PROVE  Spec => DaysReachAsked
<1> DEFINE A == \A u \in Updates, c \in DOMAIN catalog \cap DOMAIN catalog' :
                  (Own(u) /\ req[u].act = "days" /\ catalog'[c] # catalog[c])
                      => c \in asked[u]
<1>1. ASSUME Inv, Addressed, Next PROVE A
  <2> SUFFICES ASSUME NEW u \in Updates, NEW c \in DOMAIN catalog \cap DOMAIN catalog',
                      Own(u), req[u].act = "days", catalog'[c] # catalog[c]
               PROVE  c \in asked[u]
    OBVIOUS
  <2>1. ~ UNCHANGED rows
    BY DEF rows, catalogVars
  <2>2. Handle(u)
    BY <1>1, <2>1, OwnStep
  <2>3. PICK code \in Keyed(u) : Change("days", code) /\ req[u].todo = <<"write">>
    BY <1>1, <2>1, <2>2, HandledWrites DEF Inv, DeleteActs
  <2>4. c = code /\ code = req[u].code
    BY <1>1, <2>3, ChangeOne DEF Addressed
  <2>5. c \in Codes
    BY <1>1 DEF Inv, PanelInv, TypeOK, CatalogTypeOK
  <2> QED
    BY <1>1, <2>4, <2>5, PanelAssumption DEF Inv, AskedInv
<1>2. ASSUME UNCHANGED vars PROVE A
  BY <1>2 DEF vars, Own
<1> HIDE DEF A
<1>3. Inv /\ Addressed /\ [Next]_vars => A
  BY <1>1, <1>2
<1>4. Spec => [][A]_vars
  BY <1>3, Invariance, KeysAddressed, PTL DEF Spec
<1> QED
  BY <1>4 DEF A, DaysReachAsked

\* No content goes but by a press under a message that asked whether to delete
\* that very content, when no key is handed out that a handler holds
\* (delete_confirm_keyboard, confirmation_keyboard).
THEOREM DeletionsAreConfirmed ==
    ASSUME RowidReuse = FALSE
    PROVE  Spec => DeletionsConfirmed
<1> DEFINE A == \A u \in Updates, c \in DOMAIN catalog \ DOMAIN catalog' : Own(u) =>
                  req[u].from \in {DeleteKeyboard(c),
                                   ConfirmationKeyboard("content:delete", c)}
<1>1. ASSUME Inv, Addressed, Next PROVE A
  <2> SUFFICES ASSUME NEW u \in Updates, NEW c \in DOMAIN catalog \ DOMAIN catalog', Own(u)
               PROVE  req[u].from \in Questions(c)
    BY DEF Questions
  <2>1. ~ UNCHANGED rows
    BY DEF rows, catalogVars
  <2>2. Handle(u)
    BY <1>1, <2>1, OwnStep
  <2>3. \A code, source, k : ~ Insert(code, source, k)
    BY DEF Insert, Create
  <2>4. \A code \in Keyed(u) : ~ Change(req[u].act, code)
    BY ChangeOne
  <2>5. /\ req[u].act \in DeleteActs /\ req[u].todo = <<"write">>
        /\ \E code \in Keyed(u) : Remove(code)
    BY <1>1, <2>1, <2>2, <2>3, <2>4, HandledWrites DEF Inv
  <2>6. PICK code \in Keyed(u) : Remove(code)
    BY <2>5
  <2>7. c = code /\ code = req[u].code
    BY <1>1, <2>5, <2>6 DEF Addressed, Remove, Delete
  <2> QED
    BY <1>1, <2>5, <2>7 DEF Inv, PanelInv, Sound
<1>2. ASSUME UNCHANGED vars PROVE A
  BY <1>2 DEF vars, rows, catalogVars
<1> HIDE DEF A
<1>3. Inv /\ Addressed /\ [Next]_vars => A
  BY <1>1, <1>2
<1>4. Spec => [][A]_vars
  BY <1>3, Invariance, KeysAddressed, PTL DEF Spec
<1> QED
  BY <1>4 DEF A, DeletionsConfirmed

-----------------------------------------------------------------------------
(* How handlers end.                                                       *)

\* Only an answer, an edit or a new message can be the last step of a handler.
LEMMA LastStep ==
    ASSUME PanelInv, NEW u \in Updates, Handle(u), Ends(u)
    PROVE  Answer(u) \/ Edit(u) \/ Post(u)
<1>1. /\ <<"answer">> # <<>> /\ <<"post">> # <<>> /\ <<"service">> # <<>>
      /\ <<"load">> # <<>> /\ <<"refresh">> # <<>>
      /\ <<"edit">> # <<>> /\ <<"edit", "answer">> # <<>> /\ <<"answer", "edit">> # <<>>
      /\ <<"answer", "preview">> # <<>> /\ <<"replace", "answer">> # <<>>
  OBVIOUS
<1>2. \A todo, show : Then(u, todo) \/ Showing(u, todo, show) => todo = <<>>
  BY Continues DEF Ends, Running
<1>3. ~ Fail(u)
  BY FailGoes DEF Ends, Free
<1>4. ~ Navigate(u) /\ ~ ShowPage(u) /\ ~ Render(u) /\ ~ Ask(u)
  BY <1>1, <1>2 DEF Navigate, ShowPage, Render, Ask
<1>5. ~ SwitchState(u) /\ ~ Write(u) /\ ~ ConfirmDelete(u) /\ ~ Dismiss(u)
  BY <1>1, <1>2, <1>3 DEF SwitchState, Write, ConfirmDelete, Dismiss
<1>6. ~ Refresh(u)
  <2>1. \A act : ReplyTo(act) # <<>>
    BY <1>1 DEF ReplyTo
  <2> QED
    BY <1>2, <1>3, <2>1 DEF Refresh
<1>7. ~ ExpireCommand(u) /\ ~ StartExpiration(u) /\ ~ ClearExpiration(u)
      /\ ~ ExpirationOff(u) /\ ~ Cancel(u) /\ ~ CancelDetail(u) /\ ~ DaysSet(u) /\ ~ Decline(u)
  BY <1>1, <1>2 DEF ExpireCommand, StartExpiration, ClearExpiration, ExpirationOff,
                    Cancel, CancelDetail, DaysSet, Decline
<1>8. ~ ReplacePrompt(u)
  <2> SUFFICES ASSUME ReplacePrompt(u) PROVE FALSE
    OBVIOUS
  <2>1. req[u].todo = <<"replace", "answer">>
    BY AtStep DEF ReplacePrompt
  <2>2. Then(u, <<"answer">>)
    BY <2>1, TailOfTwo DEF ReplacePrompt
  <2> QED
    BY <1>1, <1>2, <2>2
<1>9. req[u] \in Handling
  BY DEF PanelInv, Sound
<1>10. ASSUME NEW k, k.todo # <<>>, Become(u, k) PROVE FALSE
  BY <1>10, NextTodo DEF Ends, Running
<1>11. ~ Load(u)
  <2>1. ASSUME NEW content \in Named(u),
               Become(u, [req[u] EXCEPT
                            !.todo = <<IF Dirty(req[u].act, content)
                                       THEN "write" ELSE "refresh">>,
                            !.held = {key[req[u].code]}])
        PROVE  FALSE
    <3> DEFINE n == [req[u] EXCEPT
                       !.todo = <<IF Dirty(req[u].act, content)
                                  THEN "write" ELSE "refresh">>,
                       !.held = {key[req[u].code]}]
    <3>1. n.todo # <<>>
      BY <1>9 DEF Handling
    <3>2. Become(u, n)
      BY <2>1
    <3> HIDE DEF n
    <3> QED
      BY <1>10, <3>1, <3>2
  <2> QED
    BY <1>1, <1>2, <2>1 DEF Load
<1>12. ~ Upload(u)
  <2>1. ASSUME NEW k, Become(u, [req[u] EXCEPT !.todo = <<"refresh">>, !.held = {k}])
        PROVE  FALSE
    <3> DEFINE n == [req[u] EXCEPT !.todo = <<"refresh">>, !.held = {k}]
    <3>1. n.todo # <<>> /\ Become(u, n)
      BY <1>9, <2>1 DEF Handling
    <3> HIDE DEF n
    <3> QED
      BY <1>10, <3>1
  <2> QED
    BY <2>1 DEF Upload
<1>13. ~ Days(u)
  <2>1. ASSUME NEW data,
               Become(u, [req[u] EXCEPT !.todo = <<"service">>,
                                        !.code = data.code, !.at = data.at])
        PROVE  FALSE
    <3> DEFINE n == [req[u] EXCEPT !.todo = <<"service">>,
                                   !.code = data.code, !.at = data.at]
    <3>1. n.todo # <<>> /\ Become(u, n)
      BY <1>9, <2>1 DEF Handling
    <3> HIDE DEF n
    <3> QED
      BY <1>10, <3>1
  <2> QED
    BY <1>1, <1>2, <2>1 DEF Days
<1> QED
  BY <1>4, <1>5, <1>6, <1>7, <1>8, <1>11, <1>12, <1>13 DEF Handle

\* Where it is then.
LEMMA Ending ==
    ASSUME PanelInv, NEW u \in Updates, Handle(u), Ends(u)
    PROVE  \/ req[u].todo = <<"post">> /\ req[u].told = 0
           \/ req[u].todo = <<"answer">>
           \/ req[u].todo = <<"edit">> /\ req[u].told = 1
<1> DEFINE k == req[u]
<1>1. k \in Handling /\ Sound(k) /\ Course(k) /\ k.todo # <<>>
  BY DEF PanelInv, Sound, Ends, Running
<1>2. req'[u].todo = <<>>
  BY DEF Ends, Running
<1>3. <<"answer">> # <<>> /\ <<"edit">> # <<>> /\ <<"preview">> # <<>>
  OBVIOUS
<1>4. CASE Post(u)
  BY <1>4, AtStep DEF Post
<1>5. CASE Answer(u)
  <2> DEFINE n == [k EXCEPT !.todo = Tail(@), !.told = @ + 1]
  <2>1. n.todo = Tail(k.todo)
    BY <1>1 DEF Handling
  <2>2. Become(u, n)
    BY <1>5 DEF Answer
  <2> HIDE DEF n
  <2>3. Tail(k.todo) = <<>>
    BY <1>2, <2>1, <2>2, NextTodo
  <2>4. k.todo \in {<<"answer">>, <<"answer", "edit">>, <<"answer", "preview">>}
    BY <1>1, <1>5, AtStep, Heads DEF Answer
  <2>5. /\ Tail(<<"answer", "edit">>) = <<"edit">>
        /\ Tail(<<"answer", "preview">>) = <<"preview">>
    BY TailOfTwo
  <2> QED
    BY <1>3, <2>3, <2>4, <2>5
<1>6. CASE Edit(u)
  <2>1. Tail(k.todo) = <<>>
    BY <1>2, <1>6, Continues DEF Edit
  <2>2. \/ k.todo = <<"edit", "answer">>
        \/ k.todo = <<"edit">> /\ k.told = 1
    BY <1>1, <1>6, AtStep, Heads DEF Edit
  <2> QED
    BY <1>3, <2>1, <2>2, TailOfTwo
<1> QED
  BY <1>4, <1>5, <1>6, LastStep

\* An update that nothing interrupts is answered exactly once, whether Telegram
\* lets the bot edit the message or not, but for CANCEL on a content that is gone (app/router/admin/content/handlers.py).
THEOREM UpdatesAnsweredOnce == Spec => AnsweredOnce
<1> DEFINE A == \A u \in Updates : Ends(u) =>
                  \/ Answers(u) = 1
                  \/ Answers(u) = 2 /\ req[u].act = "cancel" /\ req[u].show = {}
<1>1. ASSUME Inv, Next PROVE A
  <2> SUFFICES ASSUME NEW u \in Updates, Ends(u)
               PROVE  \/ Answers(u) = 1
                      \/ Answers(u) = 2 /\ req[u].act = "cancel" /\ req[u].show = {}
    OBVIOUS
  <2>1. Handle(u)
    BY <1>1, OwnStep DEF Ends, Running, Own, Free
  <2>2. Sound(req[u])
    BY <1>1 DEF Inv, PanelInv
  <2>3. Head(<<"answer">>) = "answer" /\ Head(<<"post">>) = "post" /\ Head(<<"edit">>) = "edit"
    OBVIOUS
  <2>4. req[u].todo = <<"answer">> =>
            req[u].told = 0 \/ (req[u].told = 1 /\ req[u].act = "cancel" /\ req[u].show = {})
    BY <2>2 DEF Sound, Course, CancelCourse, CancelUnanswered
  <2> QED
    BY <1>1, <2>1, <2>3, <2>4, Ending DEF Inv, Answers
<1>2. ASSUME UNCHANGED vars PROVE A
  BY <1>2 DEF vars, Ends, Running
<1> HIDE DEF A
<1>3. Inv /\ [Next]_vars => A
  BY <1>1, <1>2
<1>4. Spec => [][A]_vars
  BY <1>3, Invariance, PTL DEF Spec
<1> QED
  BY <1>4 DEF A, AnsweredOnce

=============================================================================
