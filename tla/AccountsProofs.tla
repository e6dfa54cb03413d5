---------------------------- MODULE AccountsProofs -----------------------------
(***************************************************************************)
(* Safety of accounts and sessions for any tabs, forms and number of       *)
(* clicks.  A browser follows a redirect to the address it names, so type  *)
(* correctness needs that no middleware redirects to the error page        *)
(* (RedirectInv), and that a registration has a form (FormInv).            *)
(* NobodyLockedOut is inductive with them: an organization comes with a    *)
(* slot in createUser, or with a lost answer, and a slot leaves createUser *)
(* only by creating the user or by a failure that broken records.          *)
(***************************************************************************)
EXTENDS Accounts, TLAPS

RedirectInv == \A s \in Slot : request[s].pc = "redirect" =>
                 request[s].to \in {"/", "login", "root"}

Registering == {"validate", "count", "createOrganization", "createUser"}

\* A registration has a form.
FormInv ==
  \A s \in Slot :
    /\ request[s].pc \in Registering =>
         request[s].method = "POST" /\ request[s].path = "root"
    /\ request[s].method = "POST" /\ request[s].path = "root" =>
         request[s].form \in Form

Inv == TypeOK /\ RedirectInv /\ FormInv /\ NobodyLockedOut
-------------------------------------------------------------------------------
\* A request that has been answered is a request.
LEMMA AnsweredType ==
  ASSUME NEW r \in Request, NEW kind \in {"redirect", "page"}, NEW to \in Page,
         NEW sets \in Form \cup {None, Keep}
  PROVE  [r EXCEPT !.pc = kind, !.to = to, !.sets = sets] \in Request
BY DEF Request

\* The cookie an answer leaves in the browser.
LEMMA JarType ==
  ASSUME NEW r \in Request, cookie \in Form \cup {None}
  PROVE  Jar(r) \in Form \cup {None}
BY DEF Jar, Request

\* A click puts a request that has just been sent into the tab's slot.
LEMMA ClickStep ==
  ASSUME Inv, NEW t \in Tab, NEW r \in Request, r.pc = "sent",
         r.method = "POST" /\ r.path = "root" => r.form \in Form, Click(t, r)
  PROVE  Inv'
<1>. USE DEF Inv, Click, database
<1>1. request' \in [Slot -> Request]
  BY DEF TypeOK, Slot
<1>2. TypeOK'
  BY <1>1, ClicksAssumption DEF TypeOK
<1>3. RedirectInv'
  BY DEF RedirectInv, TypeOK, Slot
<1>4. ASSUME NEW s \in Slot, request[s].pc = "createUser"
      PROVE  \E d \in Slot : request'[d].pc = "createUser"
  <2>1. s # <<t, "abandoned">>
    BY <1>4
  <2>2. CASE s = <<t, "current">>
    <3>1. <<t, "abandoned">> \in Slot /\ <<t, "abandoned">> # <<t, "current">>
      BY DEF Slot
    <3>2. request'[<<t, "abandoned">>] = request[s]
      BY <2>2, <3>1 DEF TypeOK
    <3>. QED  BY <1>4, <3>1, <3>2
  <2>3. CASE s # <<t, "current">>
    BY <1>4, <2>1, <2>3 DEF TypeOK
  <2>. QED  BY <2>2, <2>3
<1>5. NobodyLockedOut'
  BY <1>4 DEF NobodyLockedOut
<1>6. FormInv'
  BY DEF FormInv, TypeOK, Slot, Registering
<1>. QED  BY <1>2, <1>3, <1>5, <1>6

\* An answer, to a request that is not about to create a user, or was.
LEMMA AnswerStep ==
  ASSUME Inv, NEW s \in Slot,
         request[s].pc # "createUser" \/ users' # {} \/ broken',
         NEW kind \in {"redirect", "page"}, NEW to \in Page,
         NEW sets \in Form \cup {None, Keep},
         kind = "redirect" => to \in {"/", "login", "root"},
         Answer(s, kind, to, sets),
         organizations' \in SUBSET Form,
         UNCHANGED organizations \/ broken',
         users' \in SUBSET Form, users \subseteq users',
         broken' \in BOOLEAN, broken => broken'
  PROVE  Inv'
<1>. USE DEF Inv, Answer, database
<1>1. request' \in [Slot -> Request]
  <2>. DEFINE r == [request[s] EXCEPT !.pc = kind, !.to = to, !.sets = sets]
  <2>1. request[s] \in Request
    BY DEF TypeOK
  <2>2. r \in Request
    BY <2>1, AnsweredType
  <2>3. request' = [request EXCEPT ![s] = r]
    BY DEF TypeOK
  <2>. HIDE DEF r
  <2>. QED  BY <2>2, <2>3 DEF TypeOK
<1>2. TypeOK'
  BY <1>1 DEF TypeOK
<1>3. RedirectInv'
  BY DEF RedirectInv, TypeOK, Request
<1>4. FormInv'
  BY DEF FormInv, TypeOK, Request, Registering
<1>5. NobodyLockedOut'
  BY DEF NobodyLockedOut, TypeOK
<1>. QED  BY <1>2, <1>3, <1>4, <1>5

\* A handler goes on, with or without a new organization.
LEMMA GotoStep ==
  ASSUME Inv, NEW s \in Slot, request[s].pc # "createUser",
         NEW pc \in Registering,
         request[s].method = "POST", request[s].path = "root",
         organizations' \in SUBSET Form,
         organizations' # organizations => pc = "createUser",
         Goto(s, pc), UNCHANGED <<users, broken>>
  PROVE  Inv'
<1>. USE DEF Inv, Goto
<1>1. request' \in [Slot -> Request]
  <2>1. [request[s] EXCEPT !.pc = pc] \in Request
    BY DEF TypeOK, Request, Registering
  <2>. QED  BY <2>1 DEF TypeOK
<1>2. TypeOK'
  BY <1>1 DEF TypeOK
<1>3. RedirectInv'
  BY DEF RedirectInv, TypeOK, Request, Registering
<1>4. request'[s].pc = pc
  BY DEF TypeOK, Request
<1>5. \A d \in Slot \ {s} : request'[d] = request[d]
  BY DEF TypeOK
<1>6. NobodyLockedOut'
  BY <1>4, <1>5 DEF NobodyLockedOut
<1>7. FormInv'
  BY DEF FormInv, TypeOK, Request, Registering
<1>. QED  BY <1>2, <1>3, <1>6, <1>7

\* An answer the browser takes, or drops, frees its slot for a new request.
LEMMA ReceiveStep ==
  ASSUME Inv, NEW s \in Slot, request[s].pc \in {"redirect", "page"},
         NEW r \in Request, r.pc \in {"none", "sent"}, r.method = "GET",
         request' = [request EXCEPT ![s] = r],
         cookie' \in Form \cup {None}, shown' \in [Tab -> Page],
         UNCHANGED <<database, clicks, broken>>
  PROVE  Inv'
<1>. USE DEF Inv, database
<1>1. TypeOK'
  BY DEF TypeOK
<1>2. RedirectInv'
  BY DEF RedirectInv, TypeOK
<1>3. FormInv'
  BY DEF FormInv, TypeOK, Registering
<1>4. NobodyLockedOut'
  BY DEF NobodyLockedOut, TypeOK
<1>. QED  BY <1>1, <1>2, <1>3, <1>4
-------------------------------------------------------------------------------
\* Every click keeps the invariant.
LEMMA UserStep ==
  ASSUME Inv, User
  PROVE  Inv'
<1>. USE DEF Inv
<1>1. PICK t \in Tab :
        \/ \E path \in {"/", "login", "root"} : Navigate(t, path)
        \/ \E form \in Form, valid \in BOOLEAN :
             SignIn(t, form, valid) \/ InitializeSystem(t, form, valid)
        \/ LogOut(t)
  BY DEF User
<1>2. /\ cookie \in Form \cup {None}
      /\ \A path \in {"/", "login", "root", "logout"} : path \in Path
  BY DEF TypeOK, Path
<1>3. ASSUME NEW path \in {"/", "login", "root"}, Navigate(t, path)
      PROVE  Inv'
  <2>1. Sent("GET", path, None, TRUE, cookie) \in Request
    BY <1>2 DEF Sent, NoRequest, Request, Page
  <2>2. /\ Sent("GET", path, None, TRUE, cookie).pc = "sent"
        /\ Sent("GET", path, None, TRUE, cookie).method = "GET"
    BY DEF Sent, NoRequest
  <2>. QED  BY <1>3, <2>1, <2>2, ClickStep DEF Navigate
<1>4. ASSUME NEW form \in Form, NEW valid \in BOOLEAN, SignIn(t, form, valid)
      PROVE  Inv'
  <2>1. Sent("POST", "login", form, valid, cookie) \in Request
    BY <1>2 DEF Sent, NoRequest, Request, Page
  <2>2. /\ Sent("POST", "login", form, valid, cookie).pc = "sent"
        /\ Sent("POST", "login", form, valid, cookie).path = "login"
    BY DEF Sent, NoRequest
  <2>. QED  BY <1>4, <2>1, <2>2, ClickStep DEF SignIn
<1>5. ASSUME NEW form \in Form, NEW valid \in BOOLEAN,
             InitializeSystem(t, form, valid)
      PROVE  Inv'
  <2>1. Sent("POST", "root", form, valid, cookie) \in Request
    BY <1>2 DEF Sent, NoRequest, Request, Page
  <2>2. /\ Sent("POST", "root", form, valid, cookie).pc = "sent"
        /\ Sent("POST", "root", form, valid, cookie).form \in Form
    BY DEF Sent, NoRequest
  <2>. QED  BY <1>5, <2>1, <2>2, ClickStep DEF InitializeSystem
<1>6. CASE LogOut(t)
  <2>1. Sent("POST", "logout", None, TRUE, cookie) \in Request
    BY <1>2 DEF Sent, NoRequest, Request, Page
  <2>2. /\ Sent("POST", "logout", None, TRUE, cookie).pc = "sent"
        /\ Sent("POST", "logout", None, TRUE, cookie).path = "logout"
    BY DEF Sent, NoRequest
  <2>. QED  BY <1>6, <2>1, <2>2, ClickStep DEF LogOut
<1>. QED  BY <1>1, <1>3, <1>4, <1>5, <1>6

\* Every step of a middleware, a loader or an action keeps the invariant.
LEMMA ServeStep ==
  ASSUME Inv, NEW s \in Slot, Serve(s)
  PROVE  Inv'
<1>. USE DEF Inv
<1>1. /\ request[s] \in Request
      /\ request[s].cookie \in Form \cup {None, Keep}
      /\ None \in Form \cup {None, Keep}
      /\ Keep \in Form \cup {None, Keep}
      /\ {"/", "login", "root", "error"} \subseteq Page
      /\ organizations \in SUBSET Form /\ users \in SUBSET Form
      /\ broken \in BOOLEAN
  BY DEF TypeOK, Request, Page
<1>2. CASE firstTimeSetupMiddleware(s)
  BY <1>1, <1>2, AnswerStep DEF firstTimeSetupMiddleware, SetupCookie, database
<1>3. CASE guestMiddleware(s)
  BY <1>1, <1>3, AnswerStep DEF guestMiddleware, Guarded, database
<1>4. CASE authMiddleware(s)
  BY <1>1, <1>4, AnswerStep DEF authMiddleware, Admitted, Guarded, database
<1>5. CASE LayoutLoader(s)
  BY <1>1, <1>5, AnswerStep DEF LayoutLoader, Admitted, Guarded, database
<1>6. CASE AuthLayoutLoader(s)
  BY <1>1, <1>6, AnswerStep DEF AuthLayoutLoader, Admitted, Guarded, database
<1>7. CASE Login(s)
  <2>1. request[s].form \in users => request[s].form \in Form \cup {None, Keep}
    BY DEF TypeOK
  <2>. QED  BY <1>1, <1>7, <2>1, AnswerStep
            DEF Login, Admitted, Guarded, database
<1>8. CASE Logout(s)
  BY <1>1, <1>8, AnswerStep DEF Logout, Admitted, Guarded, database
<1>9. CASE Register(s)
  BY <1>1, <1>9, GotoStep
  DEF Register, Admitted, Guarded, database, Registering
<1>10. CASE InvalidForm(s)
  BY <1>1, <1>10, AnswerStep DEF InvalidForm, Rejected, ValidatedAt, database
<1>11. request[s].pc \in Registering =>
         /\ request[s].method = "POST" /\ request[s].path = "root"
         /\ request[s].form \in Form
  BY DEF FormInv
<1>12. CASE Validate(s)
  BY <1>1, <1>11, <1>12, GotoStep DEF Validate, database, Registering
<1>13. CASE CountOrganizations(s)
  BY <1>1, <1>11, <1>13, GotoStep, AnswerStep
  DEF CountOrganizations, database, Registering
<1>14. CASE CreateOrganization(s)
  <2>1. organizations' \in SUBSET Form
    BY <1>1, <1>11, <1>14 DEF CreateOrganization, Registering
  <2>. QED  BY <1>11, <1>14, <2>1, GotoStep DEF CreateOrganization, Registering
<1>15. CASE CreateOrganizationFails(s)
  <2>1. /\ request[s].pc = "createOrganization"
        /\ Answer(s, "page", "error", Keep)
        /\ UNCHANGED users
    BY <1>15 DEF CreateOrganizationFails
  <2>2. /\ organizations' \in SUBSET Form
        /\ UNCHANGED organizations \/ broken'
        /\ broken' \in BOOLEAN /\ (broken => broken')
    <3>1. request[s].form \in Form
      BY <1>11, <2>1 DEF Registering
    <3>2. \/ organizations' = organizations /\ broken' = broken
          \/ /\ organizations' = organizations \cup {request[s].form}
             /\ broken' = TRUE
      BY <1>15 DEF CreateOrganizationFails
    <3>. QED  BY <1>1, <3>1, <3>2
  <2>. QED  BY <1>1, <2>1, <2>2, AnswerStep
<1>16. CASE CreateUser(s)
  <2>1. users' \in SUBSET Form /\ users' # {} /\ UNCHANGED organizations
    BY <1>11, <1>16 DEF CreateUser, TypeOK, Registering
  <2>2. users \subseteq users' /\ UNCHANGED broken
    BY <1>16 DEF CreateUser
  <2>. QED  BY <1>1, <1>16, <2>1, <2>2, AnswerStep DEF CreateUser
<1>17. CASE CreateUserFails(s)
  <2>1. Answer(s, "page", "error", Keep) /\ UNCHANGED organizations
    BY <1>17 DEF CreateUserFails
  <2>2. /\ users' \in SUBSET Form /\ users \subseteq users'
        /\ users' # {} \/ broken'
        /\ broken' \in BOOLEAN /\ (broken => broken')
    <3>1. request[s].form \in Form
      BY <1>11, <1>17 DEF CreateUserFails, Registering
    <3>2. \/ users' = users /\ broken' = TRUE
          \/ users' = users \cup {request[s].form} /\ broken' = broken
      BY <1>17 DEF CreateUserFails
    <3>. QED  BY <1>1, <3>1, <3>2
  <2>. QED  BY <1>1, <2>1, <2>2, AnswerStep
<1>. QED  BY <1>2, <1>3, <1>4, <1>5, <1>6, <1>7, <1>8, <1>9, <1>10, <1>11,
             <1>12, <1>13, <1>14, <1>15, <1>16, <1>17 DEF Serve

\* Every step of the browser keeps the invariant.
LEMMA BrowserStep ==
  ASSUME Inv, NEW t \in Tab, Receive(t)
  PROVE  Inv'
<1>. DEFINE s == <<t, "current">>
            d == <<t, "abandoned">>
<1>1. s \in Slot /\ d \in Slot
  BY DEF Slot
<1>2. request[s] \in Request /\ request[d] \in Request
  BY <1>1 DEF Inv, TypeOK
<1>3. /\ Jar(request[s]) \in Form \cup {None}
      /\ Jar(request[d]) \in Form \cup {None}
  BY <1>2, JarType DEF Inv, TypeOK
<1>4. /\ NoRequest \in Request
      /\ NoRequest.pc = "none" /\ NoRequest.method = "GET"
  BY DEF NoRequest, Request, Path, Page
<1>5. shown \in [Tab -> Page] /\ cookie \in Form \cup {None}
  BY DEF Inv, TypeOK
<1>6. CASE FollowRedirect(t)
  <2>1. request[s].pc = "redirect"
    BY <1>6 DEF FollowRedirect
  <2>2. request[s].to \in Path
    BY <1>1, <2>1 DEF Inv, RedirectInv, Path
  <2>. DEFINE r == Sent("GET", request[s].to, None, TRUE, Jar(request[s]))
  <2>3. r \in Request
    BY <1>3, <2>2 DEF Sent, NoRequest, Request, Page
  <2>4. r.pc = "sent" /\ r.method = "GET"
    BY DEF Sent, NoRequest
  <2>5. request' = [request EXCEPT ![s] = r]
    BY <1>6 DEF FollowRedirect
  <2>6. /\ cookie' \in Form \cup {None} /\ shown' \in [Tab -> Page]
        /\ UNCHANGED <<database, clicks, broken>>
    BY <1>3, <1>5, <1>6 DEF FollowRedirect
  <2>. HIDE DEF s, r
  <2>. QED  BY <1>1, <2>1, <2>3, <2>4, <2>5, <2>6, ReceiveStep
<1>7. CASE ShowPage(t)
  <2>1. /\ request[s].pc = "page"
        /\ request' = [request EXCEPT ![s] = NoRequest]
    BY <1>7 DEF ShowPage
  <2>2. /\ cookie' \in Form \cup {None} /\ shown' \in [Tab -> Page]
        /\ UNCHANGED <<database, clicks, broken>>
    BY <1>2, <1>3, <1>5, <1>7 DEF ShowPage, Request
  <2>. HIDE DEF s
  <2>. QED  BY <1>1, <1>4, <2>1, <2>2, ReceiveStep
<1>8. CASE DropAnswer(t)
  <2>1. /\ request[d].pc \in {"redirect", "page"}
        /\ request' = [request EXCEPT ![d] = NoRequest]
    BY <1>8 DEF DropAnswer
  <2>2. /\ cookie' \in Form \cup {None} /\ shown' \in [Tab -> Page]
        /\ UNCHANGED <<database, clicks, broken>>
    BY <1>3, <1>5, <1>8 DEF DropAnswer
  <2>. HIDE DEF d
  <2>. QED  BY <1>1, <1>4, <2>1, <2>2, ReceiveStep
<1>. QED  BY <1>6, <1>7, <1>8 DEF Receive
-------------------------------------------------------------------------------
\* The inductive invariant of accounts: the tables, cookies and redirects of
\* any tabs, however their requests interleave.
THEOREM Invariance == Spec => []Inv
<1>1. Init => Inv
  <2> SUFFICES ASSUME Init PROVE Inv
    OBVIOUS
  <2>1. /\ NoRequest \in Request
        /\ NoRequest.pc = "none" /\ NoRequest.method = "GET"
    BY DEF NoRequest, Request, Path, Page
  <2>2. TypeOK
    <3>1. organizations \in SUBSET Form /\ users \in SUBSET Form
      BY DEF Init
    <3>2. request \in [Slot -> Request]
      BY <2>1 DEF Init
    <3>3. clicks \in 0 .. MaxClicks
      BY ClicksAssumption DEF Init
    <3>4. broken \in BOOLEAN
      BY DEF Init
    <3>5. cookie \in Form \cup {None} /\ shown \in [Tab -> Page]
      BY DEF Init
    <3>. QED  BY <3>1, <3>2, <3>3, <3>4, <3>5 DEF TypeOK
  <2>3. RedirectInv /\ FormInv
    BY <2>1 DEF Init, RedirectInv, FormInv, Registering
  <2>4. NobodyLockedOut
    BY DEF Init, NobodyLockedOut
  <2>. QED  BY <2>2, <2>3, <2>4 DEF Inv
<1>2. Inv /\ [Next]_vars => Inv'
  <2> SUFFICES ASSUME Inv, [Next]_vars PROVE Inv'
    OBVIOUS
  <2>1. CASE UNCHANGED vars
    BY <2>1
    DEF Inv, TypeOK, RedirectInv, FormInv, NobodyLockedOut, vars, database
  <2>2. CASE Next
    BY <2>2, UserStep, ServeStep, BrowserStep DEF Next
  <2>. QED  BY <2>1, <2>2
<1>. QED  BY <1>1, <1>2, PTL DEF Spec

\* Tables, cookies and requests keep their types; no redirect leaves the
\* pages there are.
THEOREM TypeCorrectness == Spec => []TypeOK
BY Invariance, PTL DEF Inv

\* Whatever tabs register, log in and log out at once, the organization that
\* closes registration is followed by a user, unless a registration ended
\* between its two inserts: the answer to the first was lost, the second
\* failed, or the dashboard stopped.
THEOREM SomebodyCanLogIn == Spec => []NobodyLockedOut
BY Invariance, PTL DEF Inv
===============================================================================
