------------------------------ MODULE Console ------------------------------
(***************************************************************************)
(* The web console in one browser: the login page, the layout with its     *)
(* password dialog, and a list page (the targets; the tags page does the   *)
(* same without the switch), against the authentication and the list       *)
(* handlers of a server with a file store, where each runs to its end.     *)
(*                                                                         *)
(* Tabs share the token in localStorage.  Requests are handled and         *)
(* answered in any order, or given up.  Another administrator works        *)
(* elsewhere.                                                              *)
(***************************************************************************)
EXTENDS Integers, FiniteSets

CONSTANTS
    Tabs, Ids, Urls,
    Initial,       \* the url of the one target there is at first
    First,         \* and its id
    Null,          \* no token, no dialog, no target, no request
    New,           \* the dialog's target has no id yet
    Slots,         \* bound: requests of the browser under way at once
    MaxEvents      \* bound: requests sent by a click, logouts, requests given up, and
                   \* what the other administrator does, together

Rows   == [enabled : BOOLEAN, url : Urls]
Lists  == [Ids -> Rows \cup {Null}]
Fields == [enabled : BOOLEAN, url : Urls \cup {Null}]
Kinds  == {"load", "login", "wrongLogin", "password", "wrongPassword",
           "toggle", "edit", "create", "delete"}

\* A token holds pwdVer; born says in which password's time it was issued.
Genuine == {k \in [ver : Nat, born : Nat] : k.ver = k.born}

Requests == [tab : Tabs, kind : Kinds, token : Genuine \cup {Null}, live : BOOLEAN,
             stage : {"sent", "abandoned", "answered"},
             status : {"none", "ok", "rejected", "401"}, id : Ids \cup {New},
             fields : Fields, base : Int, data : Lists, rev : Int]

ASSUME ConsoleAssumption ==
    /\ First \in Ids /\ Initial \in Urls /\ Slots # {}
    /\ Null \notin Urls \cup Ids \cup Requests /\ New \notin Ids \cup {Null}
    /\ MaxEvents \in Nat

Empty == [i \in Ids |-> Null]
NoRev == -1

VARIABLES
    version,    \* passwordVersion of the user in users.json
    rows,       \* the targets the server has
    stored,     \* the token in localStorage, or Null
    tab,        \* what each tab shows
    req,        \* the browser's requests, by slot
    events,     \* number so far
    changes,    \* history: passwords set
    rev,        \* history: changes of the list
    rowRev,     \* history: rev of each target's latest change, 0 for an unused id
    lastUrl     \* history: the url each target was last given

server  == <<version, rows, changes, rev, rowRev, lastUrl>>
vars    == <<server, stored, tab, req, events>>

NewToken == [ver |-> version, born |-> changes]

\* raced: a load began before another was answered; acked: rev of the latest change
\* this page was told of; base: rev of the list the dialog was filled from.
AtLogin == [at |-> "login", loading |-> FALSE, shown |-> Empty, shownRev |-> NoRev,
            raced |-> FALSE, acked |-> 0, dialog |-> Null, enabled |-> TRUE, base |-> 0]
AtConsole == [AtLogin EXCEPT !.at = "console", !.loading = TRUE]

Changes  == {"toggle", "edit", "create", "delete"}
NoFields == [enabled |-> TRUE, url |-> Null]

\* A request carries the token its interceptor finds.  live: its page is mounted.
Request(t, kind, token) ==
    [tab |-> t, kind |-> kind, token |-> token, live |-> TRUE, stage |-> "sent",
     status |-> "none", id |-> New, fields |-> NoFields, base |-> 0,
     data |-> Empty, rev |-> 0]

Live(t, kinds) == {s \in Slots : req[s] # Null /\ req[s].live /\ req[s].tab = t
                                 /\ req[s].kind \in kinds /\ req[s].stage # "abandoned"}
-----------------------------------------------------------------------------
(***************************************************************************)
(* The browser: clicks.                                                    *)
(***************************************************************************)
Free(s) == req[s] = Null /\ \A x \in Slots : req[x] = Null => s <= x

\* The page is neither spinning nor covered by its dialog.
Ready(t) == tab[t].at = "console" /\ ~tab[t].loading /\ tab[t].dialog = Null

Event == events < MaxEvents /\ events' = events + 1

Send(s, r) == /\ Free(s)
              /\ req' = [req EXCEPT ![s] = r]
              /\ Event
              /\ UNCHANGED <<server, stored>>

\* Mutant of SwitchFields: the switch sends the row as the table shows it.
SwitchFieldsOfRow(row) == [row EXCEPT !.enabled = ~@]

\* handleToggleEnabled sends one field.
SwitchFields(row) == [enabled |-> ~row.enabled, url |-> Null]

ClickToggle(t, i, s) ==
    /\ Ready(t) /\ tab[t].shown[i] # Null
    /\ Send(s, [Request(t, "toggle", stored) EXCEPT
                  !.id = i, !.fields = SwitchFields(tab[t].shown[i])])
    /\ UNCHANGED tab

ClickDelete(t, i, s) ==
    /\ Ready(t) /\ tab[t].shown[i] # Null
    /\ Send(s, [Request(t, "delete", stored) EXCEPT !.id = i])
    /\ UNCHANGED tab

\* Mutant of FormEnabled: the form starts from its initial values.
FormEnabledInitial(row) == TRUE

\* handleEdit: the form holds the row the table shows.
FormEnabled(row) == row.enabled

OpenDialog(t) ==
    /\ Ready(t) /\ events < MaxEvents
    /\ \/ tab' = [tab EXCEPT ![t].dialog = New, ![t].enabled = TRUE]
       \/ \E i \in Ids :
            /\ tab[t].shown[i] # Null
            /\ tab' = [tab EXCEPT ![t].dialog = i, ![t].base = tab[t].shownRev,
                                  ![t].enabled = FormEnabled(tab[t].shown[i])]
    /\ UNCHANGED <<server, stored, req, events>>

Closed(page) == [page EXCEPT !.dialog = Null, !.enabled = TRUE, !.base = 0]

CloseDialog(t) ==
    /\ tab[t].dialog # Null /\ ~tab[t].loading
    /\ tab' = [tab EXCEPT ![t] = Closed(@)]
    /\ UNCHANGED <<server, stored, req, events>>

\* handleSubmit, with a url typed in: the whole form is sent, and the dialog stays
\* until the answer, so that it can be submitted again.
Submit(t, url, s) ==
    /\ tab[t].dialog # Null /\ ~tab[t].loading
    /\ Send(s, [Request(t, IF tab[t].dialog = New THEN "create" ELSE "edit", stored) EXCEPT
                  !.id = tab[t].dialog, !.base = tab[t].base,
                  !.fields = [enabled |-> tab[t].enabled, url |-> url]])
    /\ UNCHANGED tab

\* The login form and the password dialog disable their button while they wait.
ClickLogin(t, right, s) ==
    /\ tab[t].at = "login" /\ Live(t, {"login", "wrongLogin"}) = {}
    /\ Send(s, Request(t, IF right THEN "login" ELSE "wrongLogin", stored))
    /\ UNCHANGED tab

SubmitPassword(t, right, s) ==
    /\ tab[t].at = "console" /\ Live(t, {"password", "wrongPassword"}) = {}
    /\ Send(s, Request(t, IF right THEN "password" ELSE "wrongPassword", stored))
    /\ UNCHANGED tab

\* The pages of a tab are unmounted; their requests go on.
Unmounted(t) == [s \in Slots |-> IF req[s] # Null /\ req[s].tab = t
                                 THEN [req[s] EXCEPT !.live = FALSE] ELSE req[s]]

LogOut(t) ==
    /\ tab[t].at = "console"
    /\ Event
    /\ stored' = Null
    /\ tab' = [tab EXCEPT ![t] = AtLogin]
    /\ req' = Unmounted(t)
    /\ UNCHANGED server

\* ProtectedRoute mounts another page, or the login page when there is no token.
GoTo(t, s) ==
    /\ tab[t].at = "console" /\ Free(s)
    /\ IF stored = Null
       THEN tab' = [tab EXCEPT ![t] = AtLogin] /\ req' = Unmounted(t)
       ELSE /\ tab' = [tab EXCEPT ![t] = AtConsole]
            /\ req' = [Unmounted(t) EXCEPT ![s] = Request(t, "load", stored)]
    /\ Event
    /\ UNCHANGED <<server, stored>>
-----------------------------------------------------------------------------
(***************************************************************************)
(* The server: authRequired, then the handler.                             *)
(***************************************************************************)
Pending(s) == req[s] # Null /\ req[s].stage \in {"sent", "abandoned"}

\* The answer of a request the browser has given up reaches nobody.
Answered(s, r) ==
    req' = [req EXCEPT ![s] = IF @.stage = "abandoned" THEN Null
                              ELSE [r EXCEPT !.stage = "answered"]]

\* verifyToken.
Admitted(r) == \/ r.kind \in {"login", "wrongLogin"}
               \/ r.token # Null /\ r.token.ver = version

Refuse(s) ==
    /\ Pending(s) /\ (~Admitted(req[s]) \/ req[s].kind = "wrongLogin")
    /\ Answered(s, [req[s] EXCEPT !.status = "401"])
    /\ UNCHANGED <<server, stored, tab, events>>

HandleLoad(s) ==
    /\ Pending(s) /\ req[s].kind = "load" /\ Admitted(req[s])
    /\ Answered(s, [req[s] EXCEPT !.status = "ok", !.data = rows, !.rev = rev])
    /\ UNCHANGED <<server, stored, tab, events>>

\* The list changes at i.
SetRow(i, row) ==
    /\ rows' = [rows EXCEPT ![i] = row]
    /\ rev' = rev + 1
    /\ rowRev' = [rowRev EXCEPT ![i] = rev + 1]
    /\ UNCHANGED <<version, changes>>

\* { ...target, ...updates }.
Patched(row, fields) ==
    [enabled |-> fields.enabled, url |-> IF fields.url = Null THEN row.url ELSE fields.url]

HandleChange(s) ==
    /\ Pending(s) /\ Admitted(req[s])
    /\ LET r == req[s]
       IN  \/ /\ r.kind = "create"
              /\ \E i \in Ids : rowRev[i] = 0 /\ SetRow(i, r.fields)
                                /\ lastUrl' = [lastUrl EXCEPT ![i] = r.fields.url]
              /\ Answered(s, [r EXCEPT !.status = "ok", !.rev = rev + 1])
           \/ /\ r.kind \in {"toggle", "edit"} /\ rows[r.id] # Null
              /\ SetRow(r.id, Patched(rows[r.id], r.fields))
              /\ lastUrl' = IF r.kind = "edit" THEN [lastUrl EXCEPT ![r.id] = r.fields.url]
                            ELSE lastUrl
              /\ Answered(s, [r EXCEPT !.status = "ok", !.rev = rev + 1])
           \/ /\ r.kind = "delete" /\ rows[r.id] # Null
              /\ SetRow(r.id, Null)
              /\ Answered(s, [r EXCEPT !.status = "ok", !.rev = rev + 1])
              /\ UNCHANGED lastUrl
           \/ /\ r.kind \in {"toggle", "edit", "delete"} /\ rows[r.id] = Null
              /\ Answered(s, [r EXCEPT !.status = "rejected"])
              /\ UNCHANGED server
    /\ UNCHANGED <<stored, tab, events>>

HandleLogin(s) ==
    /\ Pending(s) /\ req[s].kind = "login"
    /\ Answered(s, [req[s] EXCEPT !.status = "ok", !.token = NewToken])
    /\ UNCHANGED <<server, stored, tab, events>>

\* Mutant of NextVersion: the version is not raised.
NextVersionSame == version

\* changePassword.
NextVersion == version + 1

HandlePassword(s) ==
    /\ Pending(s) /\ Admitted(req[s])
    /\ \/ /\ req[s].kind = "password"
          /\ version' = NextVersion /\ changes' = changes + 1
          /\ Answered(s, [req[s] EXCEPT !.status = "ok"])
       \/ /\ req[s].kind = "wrongPassword"
          /\ Answered(s, [req[s] EXCEPT !.status = "rejected"])
          /\ UNCHANGED <<version, changes>>
    /\ UNCHANGED <<rows, rev, rowRev, lastUrl, stored, tab, events>>

\* The other administrator sets a password, or switches, changes or deletes a target.
Elsewhere ==
    /\ Event
    /\ \/ /\ version' = NextVersion /\ changes' = changes + 1
          /\ UNCHANGED <<rows, rev, rowRev, lastUrl>>
       \/ \E i \in Ids :
            /\ rows[i] # Null
            /\ \/ SetRow(i, [rows[i] EXCEPT !.enabled = ~@]) /\ UNCHANGED lastUrl
               \/ \E url \in Urls : /\ SetRow(i, [rows[i] EXCEPT !.url = url])
                                    /\ lastUrl' = [lastUrl EXCEPT ![i] = url]
               \/ SetRow(i, Null) /\ UNCHANGED lastUrl
    /\ UNCHANGED <<stored, tab, req>>
-----------------------------------------------------------------------------
(***************************************************************************)
(* The browser: answers.                                                   *)
(***************************************************************************)
Arrived(s, status) == req[s] # Null /\ req[s].stage = "answered" /\ req[s].status = status
Freed(s) == [req EXCEPT ![s] = Null]

\* loadTags or loadData, in the slot of the request it follows.
StartLoad(s, t, live) ==
    req' = [req EXCEPT ![s] = [Request(t, "load", stored) EXCEPT !.live = live]]

\* Mutant of Reloading: the page is not loaded again after a change.
NotReloading(t, r) == [Closed(tab[t]) EXCEPT !.acked = r.rev]

\* The page after a change it was told of: the dialog is closed, a load begins.
Reloading(t, r) ==
    [(IF r.kind \in {"edit", "create"} THEN Closed(tab[t]) ELSE tab[t]) EXCEPT
        !.acked = IF r.rev > @ THEN r.rev ELSE @,
        !.loading = TRUE,
        !.raced = Live(t, {"load"}) # {}]

ChangeTold(s) ==
    /\ Arrived(s, "ok") /\ req[s].kind \in Changes
    /\ LET r == req[s]  t == r.tab
       IN  /\ StartLoad(s, t, r.live)
           /\ tab' = IF r.live THEN [tab EXCEPT ![t] = Reloading(t, r)] ELSE tab
    /\ UNCHANGED <<server, stored, events>>

LoadArrives(s) ==
    /\ Arrived(s, "ok") /\ req[s].kind = "load"
    /\ tab' = IF req[s].live
              THEN [tab EXCEPT ![req[s].tab].shown = req[s].data,
                               ![req[s].tab].shownRev = req[s].rev,
                               ![req[s].tab].loading = FALSE]
              ELSE tab
    /\ req' = Freed(s)
    /\ UNCHANGED <<server, stored, events>>

\* setAuth, and the first page is mounted.
LoggedIn(s) ==
    /\ Arrived(s, "ok") /\ req[s].kind = "login"
    /\ stored' = req[s].token
    /\ tab' = [tab EXCEPT ![req[s].tab] = AtConsole]
    /\ req' = [req EXCEPT ![s] = Request(req[s].tab, "load", req[s].token)]
    /\ UNCHANGED <<server, events>>

\* clearAuth, and the login page; also when the dialog is no longer mounted.
PasswordSet(s) ==
    /\ Arrived(s, "ok") /\ req[s].kind = "password"
    /\ stored' = Null
    /\ tab' = [tab EXCEPT ![req[s].tab] = AtLogin]
    /\ req' = [Unmounted(req[s].tab) EXCEPT ![s] = Null]
    /\ UNCHANGED <<server, events>>

\* Mutant of AfterFailure: loadData without its catch.
AfterFailureUncaught(r) == tab

\* A rejected request: a load shows an empty list, the others leave a message.
AfterFailure(r) ==
    IF r.kind = "load" /\ r.live
    THEN [tab EXCEPT ![r.tab].shown = Empty, ![r.tab].shownRev = NoRev, ![r.tab].loading = FALSE]
    ELSE tab

Rejected(s) ==
    /\ Arrived(s, "rejected")
    /\ tab' = AfterFailure(req[s]) /\ req' = Freed(s)
    /\ UNCHANGED <<server, stored, events>>

\* The browser waits no longer; the server may still handle the request.
TimesOut(s) ==
    /\ req[s] # Null /\ req[s].stage = "sent"
    /\ Event
    /\ tab' = AfterFailure(req[s])
    /\ req' = [req EXCEPT ![s].stage = "abandoned", ![s].live = FALSE]
    /\ UNCHANGED <<server, stored>>

\* The interceptor: whatever token the request carried, the stored one is removed;
\* a console is left by loading the login page, which drops the tab's requests.
Unauthorized(s) ==
    /\ Arrived(s, "401")
    /\ stored' = Null
    /\ LET t == req[s].tab
       IN  IF tab[t].at = "login" THEN tab' = tab /\ req' = Freed(s)
           ELSE /\ tab' = [tab EXCEPT ![t] = AtLogin]
                /\ req' = [x \in Slots |->
                             IF req[x] = Null \/ req[x].tab # t THEN req[x]
                             ELSE IF req[x].stage = "answered" THEN Null
                             ELSE [req[x] EXCEPT !.stage = "abandoned", !.live = FALSE]]
    /\ UNCHANGED <<server, events>>
-----------------------------------------------------------------------------
Handle(s) == Refuse(s) \/ HandleLoad(s) \/ HandleChange(s) \/ HandleLogin(s) \/ HandlePassword(s)

Arrives(s) == \/ ChangeTold(s) \/ LoadArrives(s) \/ LoggedIn(s) \/ PasswordSet(s)
              \/ Rejected(s) \/ Unauthorized(s)

Clicks(t, s) ==
    \/ \E i \in Ids : ClickToggle(t, i, s) \/ ClickDelete(t, i, s)
    \/ \E url \in Urls : Submit(t, url, s)
    \/ \E right \in BOOLEAN : ClickLogin(t, right, s) \/ SubmitPassword(t, right, s)
    \/ GoTo(t, s)

\* The console is open in every tab, with the list as it is.
Init ==
    /\ version = 0 /\ changes = 0 /\ rev = 1
    /\ rows = [Empty EXCEPT ![First] = [enabled |-> TRUE, url |-> Initial]]
    /\ rowRev = [i \in Ids |-> IF i = First THEN 1 ELSE 0]
    /\ lastUrl = [i \in Ids |-> Initial]
    /\ stored = NewToken
    /\ tab = [t \in Tabs |-> [AtConsole EXCEPT !.loading = FALSE, !.shown = rows, !.shownRev = 1]]
    /\ req = [s \in Slots |-> Null]
    /\ events = 0

Next ==
    \/ \E t \in Tabs : OpenDialog(t) \/ CloseDialog(t) \/ LogOut(t) \/ \E s \in Slots : Clicks(t, s)
    \/ \E s \in Slots : Handle(s) \/ Arrives(s) \/ TimesOut(s)
    \/ Elsewhere

Spec == Init /\ [][Next]_vars
-----------------------------------------------------------------------------
(***************************************************************************)
(* Properties.                                                             *)
(***************************************************************************)
\* A table that is shown holds the changes its page was told of, whatever other tabs
\* and administrators do: unless the load failed, or two loads were under way at once
\* (their answers are applied in the order they arrive).
OwnChangesShown ==
    \A t \in Tabs :
        LET p == tab[t]
        IN  (p.at = "console" /\ ~p.loading /\ ~p.raced /\ p.shownRev # NoRev)
                => p.shownRev >= p.acked

\* The switch, clicked on a table of any age and any number of times, never brings
\* back a url: a target has the url that an edit, a create or another administrator
\* gave it last.
UrlIsLastGiven == \A i \in Ids : rows[i] # Null => rows[i].url = lastUrl[i]

\* An edit of the url, filled in from a table read after the target's latest change,
\* leaves the switch alone.
FreshEditKeepsSwitch ==
    [][\A s \in Slots :
         (/\ Pending(s) /\ req[s].kind = "edit" /\ req'[s] # req[s] /\ rows' # rows
          /\ req[s].base >= rowRev[req[s].id])
            => rows'[req[s].id].enabled = rows[req[s].id].enabled]_vars

CarriedOut(s) ==
    /\ Pending(s) /\ req[s].kind # "login" /\ req[s].status = "none"
    /\ req'[s] # Null /\ req'[s].status = "ok"

\* Once a password is set, no request with a token of before is carried out, in
\* whatever tab it was sent and however late it arrives.
OldTokensAreDead ==
    [][\A s \in Slots : CarriedOut(s) => req[s].token.born = changes]_vars

\* A page that spins waits for an answer of its own that ends it: no failure, timeout,
\* second load or answer to an earlier page leaves a spinner nothing will remove.
SpinnerHasLoad ==
    \A t \in Tabs : tab[t].loading => tab[t].at = "console" /\ Live(t, {"load"}) # {}
=============================================================================
