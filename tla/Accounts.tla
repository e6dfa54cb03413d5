-------------------------------- MODULE Accounts --------------------------------
(***************************************************************************)
(* Accounts and sessions of the dashboard: the first registration, login   *)
(* and logout, the middlewares that redirect, and a browser whose tabs     *)
(* share one cookie.  A request carries the cookie the browser had when it *)
(* was sent; its answer sets the cookie when it arrives.                   *)
(*                                                                         *)
(* The session is kept in the cookie itself: a cookie is the user id in    *)
(* it, or None.  A cookie and the page of a tab can be older than the      *)
(* database.  The form of a registration stands for the organization and   *)
(* the user it would create.                                               *)
(* Every page behind the layout is "/"; "login" and "root" are under       *)
(* /auth.  The middlewares and the handler of one request are one step,    *)
(* but for a registration: organizations are never deleted, so a later     *)
(* read of them in the same request decides as the first did.              *)
(***************************************************************************)
EXTENDS Naturals

CONSTANTS Tab,         \* tabs of the browser
          Form,        \* organization and email of a registration
          None,        \* no user in the cookie, no form
          MaxClicks    \* bound: clicks in all tabs

ASSUME NoneAssumption == None \notin Form

ASSUME ClicksAssumption == MaxClicks \in Nat

VARIABLES
  organizations,  \* forms whose organization exists
  users,          \* forms whose user exists
  cookie,         \* cookie of the browser
  shown,          \* page a tab shows
  request,        \* what each tab waits for, and what it no longer waits for
  clicks,         \* clicks so far
  broken          \* history: a registration ended between its two inserts

database == <<organizations, users>>
vars == <<database, cookie, shown, request, clicks, broken>>
-------------------------------------------------------------------------------
Page == {"/", "login", "root", "error"}

Path == {"/", "login", "root", "logout"}

\* A tab waits for one request; one it has given up may still be handled.
Slot == Tab \X {"current", "abandoned"}

NoRequest == [pc |-> "none", method |-> "GET", path |-> "/", cookie |-> None,
              form |-> None, valid |-> TRUE, to |-> "/", sets |-> None]

Init == /\ organizations \in {{}} \cup {{form} : form \in Form}
        /\ users = organizations
        /\ cookie \in Form \cup {None}
        /\ shown \in [Tab -> Page]
        /\ request = [s \in Slot |-> NoRequest]
        /\ clicks = 0
        /\ broken = FALSE
-------------------------------------------------------------------------------
(* The browser.                                                            *)

Sent(method, path, form, valid, jar) ==
  [NoRequest EXCEPT !.pc = "sent", !.method = method, !.path = path,
                    !.cookie = jar, !.form = form, !.valid = valid]

\* A click replaces what the tab waits for.
Click(t, r) ==
  /\ clicks < MaxClicks
  /\ clicks' = clicks + 1
  /\ request[<<t, "abandoned">>].pc = "none"
  /\ request' = [request EXCEPT ![<<t, "current">>] = r,
                                ![<<t, "abandoned">>] =
                                  request[<<t, "current">>]]
  /\ UNCHANGED <<database, cookie, shown, broken>>

\* A link of the sidebar, or an address typed in.
Navigate(t, path) == Click(t, Sent("GET", path, None, TRUE, cookie))

\* The buttons of both forms can be pressed again before the answer.
SignIn(t, form, valid) ==
  /\ shown[t] = "login"
  /\ Click(t, Sent("POST", "login", form, valid, cookie))

InitializeSystem(t, form, valid) ==
  /\ shown[t] = "root"
  /\ Click(t, Sent("POST", "root", form, valid, cookie))

LogOut(t) == /\ shown[t] = "/"
             /\ Click(t, Sent("POST", "logout", None, TRUE, cookie))
-------------------------------------------------------------------------------
(* Middlewares.                                                            *)

Goto(s, pc) == /\ request' = [request EXCEPT ![s].pc = pc]
               /\ UNCHANGED <<cookie, shown, clicks>>

\* The answer: a page to show or an address to go to, and the cookie it sets.
Answer(s, kind, to, sets) ==
  /\ request' = [request EXCEPT ![s].pc = kind, ![s].to = to, ![s].sets = sets]
  /\ UNCHANGED <<cookie, shown, clicks>>

\* No Set-Cookie in the answer.
Keep == "keep"

NeedsSetup(r) == organizations = {} /\ r.path # "root"

\* Faulty variant: the session is left as it is.
SetupCookieKept(r) == r.cookie

\* destroySession
SetupCookie(r) == None

firstTimeSetupMiddleware(s) ==
  /\ request[s].pc = "sent"
  /\ NeedsSetup(request[s])
  /\ Answer(s, "redirect", "root", SetupCookie(request[s]))
  /\ UNCHANGED <<database, broken>>

Guarded(s) == request[s].pc = "sent" /\ ~NeedsSetup(request[s])

RegistrationClosed(r) == r.path = "root" /\ organizations # {}

SignedIn(r) == /\ r.path \in {"login", "root"}
               /\ r.cookie # None
               /\ organizations # {}

\* commitSession repeats the session the request came with.
guestMiddleware(s) ==
  /\ Guarded(s)
  /\ \/ /\ RegistrationClosed(request[s])
        /\ Answer(s, "redirect", "login", request[s].cookie)
     \/ /\ ~RegistrationClosed(request[s])
        /\ SignedIn(request[s])
        /\ Answer(s, "redirect", "/", request[s].cookie)
  /\ UNCHANGED <<database, broken>>

Admitted(s) == /\ Guarded(s)
               /\ ~RegistrationClosed(request[s])
               /\ ~SignedIn(request[s])

\* A session without a user, or with one that does not exist any more.
authMiddleware(s) ==
  /\ Admitted(s)
  /\ request[s].path = "/"
  /\ request[s].cookie \notin users
  /\ Answer(s, "redirect", "login", None)
  /\ UNCHANGED <<database, broken>>
-------------------------------------------------------------------------------
(* Loaders and actions.                                                    *)

LayoutLoader(s) ==
  /\ Admitted(s)
  /\ request[s].path = "/"
  /\ request[s].cookie \in users
  /\ Answer(s, "page", "/", Keep)
  /\ UNCHANGED <<database, broken>>

AuthLayoutLoader(s) ==
  /\ Admitted(s)
  /\ request[s].method = "GET"
  /\ request[s].path \in {"login", "root"}
  /\ \/ /\ request[s].cookie # None
        /\ Answer(s, "redirect", "/", Keep)
     \/ /\ request[s].cookie = None
        /\ Answer(s, "page", request[s].path, Keep)
  /\ UNCHANGED <<database, broken>>

\* An email nobody has, or the wrong password for it, is refused.
Login(s) ==
  /\ Admitted(s)
  /\ request[s].method = "POST"
  /\ request[s].path = "login"
  /\ \/ /\ request[s].form \in users /\ request[s].valid
        /\ Answer(s, "redirect", "/", request[s].form)
     \/ /\ ~(request[s].form \in users /\ request[s].valid)
        /\ Answer(s, "page", "login", request[s].cookie)
  /\ UNCHANGED <<database, broken>>

Logout(s) ==
  /\ Admitted(s)
  /\ request[s].path = "logout"
  /\ Answer(s, "redirect", "login", None)
  /\ UNCHANGED <<database, broken>>

Register(s) ==
  /\ Admitted(s)
  /\ request[s].method = "POST"
  /\ request[s].path = "root"
  /\ Goto(s, "validate")
  /\ UNCHANGED <<database, broken>>

\* Faulty variant: the fields are only checked for the user.
ValidatedAtUser == "createUser"

ValidatedAt == "validate"

Rejected(s) == request[s].pc = ValidatedAt /\ ~request[s].valid

InvalidForm(s) ==
  /\ Rejected(s)
  /\ Answer(s, "page", "root", Keep)
  /\ UNCHANGED <<database, broken>>

Validate(s) ==
  /\ request[s].pc = "validate"
  /\ ~Rejected(s)
  /\ Goto(s, "count")
  /\ UNCHANGED <<database, broken>>

\* "Administrator account already exists"
CountOrganizations(s) ==
  /\ request[s].pc = "count"
  /\ IF organizations = {} THEN Goto(s, "createOrganization")
     ELSE Answer(s, "page", "root", Keep)
  /\ UNCHANGED <<database, broken>>

\* The name is unique.
CreateOrganization(s) ==
  /\ request[s].pc = "createOrganization"
  /\ request[s].form \notin organizations
  /\ organizations' = organizations \cup {request[s].form}
  /\ Goto(s, "createUser")
  /\ UNCHANGED <<users, broken>>

\* The insert fails; or it commits, its answer is lost, and no user follows.
CreateOrganizationFails(s) ==
  /\ request[s].pc = "createOrganization"
  /\ Answer(s, "page", "error", Keep)
  /\ \/ UNCHANGED <<organizations, broken>>
     \/ /\ request[s].form \notin organizations
        /\ organizations' = organizations \cup {request[s].form}
        /\ broken' = TRUE
  /\ UNCHANGED users

\* The email is unique.
CreateUser(s) ==
  /\ request[s].pc = "createUser"
  /\ ~Rejected(s)
  /\ request[s].form \notin users
  /\ users' = users \cup {request[s].form}
  /\ Answer(s, "redirect", "login", Keep)
  /\ UNCHANGED <<organizations, broken>>

\* The insert fails, or the dashboard stops before it: the organization stays.
\* An insert that commits and loses its answer has created the user.
CreateUserFails(s) ==
  /\ request[s].pc = "createUser"
  /\ ~Rejected(s)
  /\ Answer(s, "page", "error", Keep)
  /\ \/ broken' = TRUE /\ UNCHANGED users
     \/ /\ request[s].form \notin users
        /\ users' = users \cup {request[s].form}
        /\ UNCHANGED broken
  /\ UNCHANGED organizations
-------------------------------------------------------------------------------
(* Answers.                                                                *)

Jar(r) == IF r.sets = Keep THEN cookie ELSE r.sets

\* A registration that succeeds makes its page navigate to the login.
FollowRedirect(t) ==
  LET r == request[<<t, "current">>] IN
  /\ r.pc = "redirect"
  /\ cookie' = Jar(r)
  /\ request' = [request EXCEPT ![<<t, "current">>] =
                   Sent("GET", r.to, None, TRUE, Jar(r))]
  /\ UNCHANGED <<database, shown, clicks, broken>>

ShowPage(t) ==
  LET r == request[<<t, "current">>] IN
  /\ r.pc = "page"
  /\ cookie' = Jar(r)
  /\ shown' = [shown EXCEPT ![t] = r.to]
  /\ request' = [request EXCEPT ![<<t, "current">>] = NoRequest]
  /\ UNCHANGED <<database, clicks, broken>>

\* Nobody sees the answer; the browser keeps its cookie if it comes so far.
DropAnswer(t) ==
  LET r == request[<<t, "abandoned">>] IN
  /\ r.pc \in {"redirect", "page"}
  /\ cookie' \in {cookie, Jar(r)}
  /\ request' = [request EXCEPT ![<<t, "abandoned">>] = NoRequest]
  /\ UNCHANGED <<database, shown, clicks, broken>>
-------------------------------------------------------------------------------
User == \E t \in Tab :
          \/ \E path \in {"/", "login", "root"} : Navigate(t, path)
          \/ \E form \in Form, valid \in BOOLEAN :
               SignIn(t, form, valid) \/ InitializeSystem(t, form, valid)
          \/ LogOut(t)

Serve(s) == \/ firstTimeSetupMiddleware(s)
            \/ guestMiddleware(s)
            \/ authMiddleware(s)
            \/ LayoutLoader(s)
            \/ AuthLayoutLoader(s)
            \/ Login(s)
            \/ Logout(s)
            \/ Register(s)
            \/ InvalidForm(s)
            \/ Validate(s)
            \/ CountOrganizations(s)
            \/ CreateOrganization(s)
            \/ CreateOrganizationFails(s)
            \/ CreateUser(s)
            \/ CreateUserFails(s)

Receive(t) == FollowRedirect(t) \/ ShowPage(t) \/ DropAnswer(t)

Next == \/ User
        \/ \E s \in Slot : Serve(s)
        \/ \E t \in Tab : Receive(t)

\* The server answers what it is asked, and the browser takes the answers.
Fairness == /\ \A s \in Slot : WF_vars(Serve(s))
            /\ \A t \in Tab : WF_vars(FollowRedirect(t) \/ ShowPage(t))

Spec == Init /\ [][Next]_vars

FairSpec == Spec /\ Fairness
-------------------------------------------------------------------------------
Request == [pc : {"none", "sent", "validate", "count", "createOrganization",
                  "createUser", "redirect", "page"},
            method : {"GET", "POST"}, path : Path, cookie : Form \cup {None},
            form : Form \cup {None}, valid : BOOLEAN, to : Page,
            sets : Form \cup {None, Keep}]

TypeOK ==
  /\ organizations \in SUBSET Form
  /\ users \in SUBSET Form
  /\ cookie \in Form \cup {None}
  /\ shown \in [Tab -> Page]
  /\ request \in [Slot -> Request]
  /\ clicks \in 0 .. MaxClicks
  /\ broken \in BOOLEAN

\* The redirects of the middlewares do not chase each other: whatever the
\* cookie says, of which database it is, and whatever other tabs do to it,
\* every tab comes to rest at a page once the clicks are over.
RedirectsSettle ==
  \A t \in Tab : request[<<t, "current">>].pc # "none" ~>
                   request[<<t, "current">>].pc = "none"

\* Registration is closed by the first organization; then somebody can log
\* in, or a registration is about to create its user, or one has ended
\* between its inserts: the answer to the first was lost, the second failed,
\* or the dashboard stopped.  Racing and refused registrations do no harm.
NobodyLockedOut ==
  organizations # {} =>
    \/ users # {}
    \/ broken
    \/ \E s \in Slot : request[s].pc = "createUser"
===============================================================================
