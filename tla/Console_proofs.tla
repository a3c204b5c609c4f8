--------------------------- MODULE Console_proofs ---------------------------
(***************************************************************************)
(* What the console and its server keep for any number of tabs, targets,   *)
(* urls, requests under way and clicks: a token dies with its password,    *)
(* the switch never brings back a url nor a fresh edit the switch, a page  *)
(* shows the changes it was told of, and it spins only while it waits.     *)
(***************************************************************************)
EXTENDS Console, TLAPS

\* A request of a form has a url, one of the switch has none.
Reqs ==
    {r \in Requests :
       /\ r.kind \in {"edit", "create"} => r.fields.url \in Urls
       /\ r.kind = "toggle" => r.fields.url = Null
       /\ r.kind \in {"toggle", "edit", "delete"} => r.id \in Ids}

Pages == [at : {"login", "console"}, loading : BOOLEAN, shown : Lists, shownRev : Int,
          raced : BOOLEAN, acked : Int, dialog : Ids \cup {New, Null},
          enabled : BOOLEAN, base : Int]

\* Type correctness, of the server and of the browser.
ServerTypes ==
    /\ version \in Nat /\ changes = version
    /\ rows \in Lists /\ rev \in Int /\ rowRev \in [Ids -> Int] /\ lastUrl \in [Ids -> Urls]

BrowserTypes ==
    /\ stored \in Genuine \cup {Null}
    /\ tab \in [Tabs -> Pages]
    /\ req \in [Slots -> Reqs \cup {Null}]

IInv == ServerTypes /\ BrowserTypes /\ UrlIsLastGiven

-----------------------------------------------------------------------------
LEMMA EmptyIsList == Empty \in Lists
BY DEF Empty, Lists

LEMMA NewTokenIsGenuine == ServerTypes => NewToken \in Genuine
BY DEF ServerTypes, NewToken, Genuine

\* A request as Request makes it, of any kind.
LEMMA FreshRequest ==
    ASSUME NEW t \in Tabs, NEW token \in Genuine \cup {Null}, NEW kind \in Kinds
    PROVE  /\ Request(t, kind, token) \in Requests
           /\ Request(t, kind, token).kind = kind
           /\ Request(t, kind, token).stage = "sent"
           /\ Request(t, kind, token).status = "none"
BY EmptyIsList DEF Request, Requests, Kinds, NoFields, Fields

\* The requests a page sends, by kind.
LEMMA PlainRequest ==
    ASSUME NEW t \in Tabs, NEW token \in Genuine \cup {Null},
           NEW kind \in {"load", "login", "wrongLogin", "password", "wrongPassword"}
    PROVE  Request(t, kind, token) \in Reqs
<1>1. kind \in Kinds
    BY DEF Kinds
<1> QED BY <1>1, FreshRequest DEF Reqs

LEMMA SwitchRequest ==
    ASSUME NEW r \in Requests, r.kind = "toggle", NEW i \in Ids, NEW row \in Rows
    PROVE  [r EXCEPT !.id = i, !.fields = SwitchFields(row)] \in Reqs
<1> DEFINE f == SwitchFields(row)
<1>1. f \in Fields /\ f.url = Null
    BY DEF SwitchFields, Fields, Rows
<1> HIDE DEF f
<1> DEFINE q == [r EXCEPT !.id = i, !.fields = f]
<1>2. q \in Requests /\ q.kind = "toggle" /\ q.id = i /\ q.fields = f
    BY <1>1 DEF Requests
<1> HIDE DEF q
<1>3. q \in Reqs
    BY <1>1, <1>2 DEF Reqs
<1> QED BY <1>3 DEF q, f

LEMMA DeleteRequest ==
    ASSUME NEW r \in Requests, r.kind = "delete", NEW i \in Ids
    PROVE  [r EXCEPT !.id = i] \in Reqs
<1> DEFINE q == [r EXCEPT !.id = i]
<1>1. q \in Requests /\ q.kind = "delete" /\ q.id = i
    BY DEF Requests
<1> HIDE DEF q
<1>2. q \in Reqs
    BY <1>1 DEF Reqs
<1> QED BY <1>2 DEF q

LEMMA FormRequest ==
    ASSUME NEW r \in Requests, NEW i \in Ids \cup {New}, NEW base \in Int,
           NEW on \in BOOLEAN, NEW url \in Urls,
           r.kind = IF i = New THEN "create" ELSE "edit"
    PROVE  [r EXCEPT !.id = i, !.base = base,
                     !.fields = [enabled |-> on, url |-> url]] \in Reqs
<1> DEFINE f == [enabled |-> on, url |-> url]
<1>1. f \in Fields /\ f.url = url
    BY DEF Fields
<1> HIDE DEF f
<1> DEFINE q == [r EXCEPT !.id = i, !.base = base, !.fields = f]
<1>2. q \in Requests /\ q.kind = r.kind /\ q.id = i /\ q.fields = f
    BY <1>1 DEF Requests
<1> HIDE DEF q
<1>3. q \in Reqs
    BY <1>1, <1>2 DEF Reqs
<1> QED BY <1>3 DEF q, f

\* What happens to a request on its way leaves its kind, id and fields.
LEMMA SameForm ==
    ASSUME NEW r \in Reqs, NEW q \in Requests,
           q.kind = r.kind, q.id = r.id, q.fields = r.fields
    PROVE  q \in Reqs
BY DEF Reqs

LEMMA DroppedRequest ==
    ASSUME NEW r \in Reqs
    PROVE  [r EXCEPT !.live = FALSE] \in Reqs
<1> DEFINE q == [r EXCEPT !.live = FALSE]
<1>1. q \in Requests /\ q.kind = r.kind /\ q.id = r.id /\ q.fields = r.fields
    BY DEF Reqs, Requests
<1> HIDE DEF q
<1>2. q \in Reqs
    BY <1>1 DEF Reqs
<1> QED BY <1>2 DEF q

LEMMA UnmountedTyped ==
    ASSUME BrowserTypes, NEW t
    PROVE  Unmounted(t) \in [Slots -> Reqs \cup {Null}]
BY DroppedRequest DEF BrowserTypes, Unmounted

LEMMA AbandonedRequest ==
    ASSUME NEW r \in Reqs
    PROVE  [r EXCEPT !.stage = "abandoned", !.live = FALSE] \in Reqs
<1> DEFINE q == [r EXCEPT !.stage = "abandoned", !.live = FALSE]
<1>1. q \in Requests /\ q.kind = r.kind /\ q.id = r.id /\ q.fields = r.fields
    BY DEF Reqs, Requests
<1> HIDE DEF q
<1>2. q \in Reqs
    BY <1>1, SameForm
<1> QED BY <1>2 DEF q

LEMMA AbandonedStatus ==
    ASSUME NEW r \in Reqs
    PROVE  [r EXCEPT !.stage = "abandoned", !.live = FALSE].status = r.status
BY DEF Reqs, Requests

LEMMA AnsweredRequest ==
    ASSUME NEW r \in Reqs
    PROVE  [r EXCEPT !.stage = "answered"] \in Reqs
<1> DEFINE q == [r EXCEPT !.stage = "answered"]
<1>1. q \in Requests /\ q.kind = r.kind /\ q.id = r.id /\ q.fields = r.fields
    BY DEF Reqs, Requests
<1> HIDE DEF q
<1>2. q \in Reqs
    BY <1>1, SameForm
<1> QED BY <1>2 DEF q

LEMMA StatusRequest ==
    ASSUME NEW r \in Reqs,
           NEW status \in {"none", "ok", "rejected", "401"}
    PROVE  [r EXCEPT !.status = status] \in Reqs
<1> DEFINE q == [r EXCEPT !.status = status]
<1>1. q \in Requests /\ q.kind = r.kind /\ q.id = r.id /\ q.fields = r.fields
    BY DEF Reqs, Requests
<1> HIDE DEF q
<1>2. q \in Reqs
    BY <1>1, SameForm
<1> QED BY <1>2 DEF q

LEMMA ChangedRequest ==
    ASSUME NEW r \in Reqs, NEW n \in Int
    PROVE  [r EXCEPT !.status = "ok", !.rev = n] \in Reqs
<1> DEFINE q == [r EXCEPT !.status = "ok", !.rev = n]
<1>1. q \in Requests /\ q.kind = r.kind /\ q.id = r.id /\ q.fields = r.fields
    BY DEF Reqs, Requests
<1> HIDE DEF q
<1>2. q \in Reqs
    BY <1>1, SameForm
<1> QED BY <1>2 DEF q

LEMMA LoadedRequest ==
    ASSUME NEW r \in Reqs, NEW n \in Int, NEW d \in Lists
    PROVE  [r EXCEPT !.status = "ok", !.data = d, !.rev = n] \in Reqs
<1> DEFINE q == [r EXCEPT !.status = "ok", !.data = d, !.rev = n]
<1>1. q \in Requests /\ q.kind = r.kind /\ q.id = r.id /\ q.fields = r.fields
    BY DEF Reqs, Requests
<1> HIDE DEF q
<1>2. q \in Reqs
    BY <1>1, SameForm
<1> QED BY <1>2 DEF q

LEMMA LoggedInRequest ==
    ASSUME NEW r \in Reqs, NEW k \in Genuine
    PROVE  [r EXCEPT !.status = "ok", !.token = k] \in Reqs
<1> DEFINE q == [r EXCEPT !.status = "ok", !.token = k]
<1>1. q \in Requests /\ q.kind = r.kind /\ q.id = r.id /\ q.fields = r.fields
    BY DEF Reqs, Requests
<1> HIDE DEF q
<1>2. q \in Reqs
    BY <1>1, SameForm
<1> QED BY <1>2 DEF q


\* An answer leaves a typed table of requests.
LEMMA AnsweredTyped ==
    ASSUME BrowserTypes, NEW s \in Slots, NEW r \in Reqs, Answered(s, r)
    PROVE  req' \in [Slots -> Reqs \cup {Null}]
BY AnsweredRequest DEF BrowserTypes, Answered

-----------------------------------------------------------------------------
\* Requests that are waiting are not carried out by a step of the browser.
Untold == \A x \in Slots : Pending(x) => req'[x] = Null \/ req'[x].status = req[x].status

Calm == BrowserTypes' /\ Untold /\ UNCHANGED server

LEMMA SendIsCalm ==
    ASSUME BrowserTypes, NEW s \in Slots, NEW r \in Reqs, Send(s, r), UNCHANGED tab
    PROVE  Calm
BY DEF BrowserTypes, Send, Free, Calm, Untold, Pending

LEMMA UnmountedUntold ==
    ASSUME BrowserTypes, NEW t, NEW x \in Slots, req[x] # Null
    PROVE  Unmounted(t)[x].status = req[x].status
BY DEF BrowserTypes, Unmounted, Reqs, Requests

\* Clicks on the table.
LEMMA TableIsCalm ==
    ASSUME IInv, NEW t \in Tabs, NEW s \in Slots, NEW i \in Ids,
           ClickToggle(t, i, s) \/ ClickDelete(t, i, s)
    PROVE  Calm
<1>1. BrowserTypes /\ stored \in Genuine \cup {Null}
    BY DEF IInv, BrowserTypes
<1>2. CASE ClickToggle(t, i, s)
    <2>1. tab[t].shown[i] \in Rows
        BY <1>1, <1>2 DEF ClickToggle, BrowserTypes, Pages, Lists
    <2> DEFINE q == Request(t, "toggle", stored)
    <2>2. q \in Requests /\ q.kind = "toggle"
        BY <1>1, FreshRequest DEF Kinds
    <2>3. [q EXCEPT !.id = i, !.fields = SwitchFields(tab[t].shown[i])] \in Reqs
        BY <2>1, <2>2, SwitchRequest
    <2> QED BY <1>1, <1>2, <2>3, SendIsCalm DEF ClickToggle
<1>3. CASE ClickDelete(t, i, s)
    <2> DEFINE q == Request(t, "delete", stored)
    <2>1. q \in Requests /\ q.kind = "delete"
        BY <1>1, FreshRequest DEF Kinds
    <2>2. [q EXCEPT !.id = i] \in Reqs
        BY <2>1, DeleteRequest
    <2> QED BY <1>1, <1>3, <2>2, SendIsCalm DEF ClickDelete
<1> QED BY <1>2, <1>3

\* Confirming the dialog.
LEMMA SubmitIsCalm ==
    ASSUME IInv, NEW t \in Tabs, NEW s \in Slots, NEW url \in Urls, Submit(t, url, s)
    PROVE  Calm
<1>1. BrowserTypes /\ stored \in Genuine \cup {Null}
    BY DEF IInv, BrowserTypes
<1> DEFINE kind == IF tab[t].dialog = New THEN "create" ELSE "edit"
           q == Request(t, kind, stored)
<1>2. tab[t].dialog \in Ids \cup {New} /\ tab[t].base \in Int /\ tab[t].enabled \in BOOLEAN
    BY <1>1 DEF Submit, BrowserTypes, Pages
<1>3. q \in Requests /\ q.kind = kind
    BY <1>1, FreshRequest DEF Kinds
<1>4. [q EXCEPT !.id = tab[t].dialog, !.base = tab[t].base,
                !.fields = [enabled |-> tab[t].enabled, url |-> url]] \in Reqs
    BY <1>2, <1>3, FormRequest
<1> QED BY <1>1, <1>4, SendIsCalm DEF Submit

\* Login and password forms, the menu, logging out.
LEMMA FormsAreCalm ==
    ASSUME IInv, NEW t \in Tabs, NEW s \in Slots, NEW right \in BOOLEAN,
           ClickLogin(t, right, s) \/ SubmitPassword(t, right, s)
    PROVE  Calm
<1>1. BrowserTypes /\ stored \in Genuine \cup {Null}
    BY DEF IInv, BrowserTypes
<1>2. /\ Request(t, IF right THEN "login" ELSE "wrongLogin", stored) \in Reqs
      /\ Request(t, IF right THEN "password" ELSE "wrongPassword", stored) \in Reqs
    BY <1>1, PlainRequest
<1> QED BY <1>1, <1>2, SendIsCalm DEF ClickLogin, SubmitPassword

LEMMA OpenedTyped ==
    ASSUME NEW p \in Pages
    PROVE  [p EXCEPT !.at = "console", !.loading = TRUE] \in Pages
BY DEF Pages

LEMMA FormTyped ==
    ASSUME NEW p \in Pages, NEW i \in Ids \cup {New, Null}, NEW b \in BOOLEAN, NEW n \in Int
    PROVE  [p EXCEPT !.dialog = i, !.enabled = b, !.base = n] \in Pages
<1>1. [p EXCEPT !.dialog = i] \in Pages
    BY DEF Pages
<1>2. ASSUME NEW q \in Pages PROVE [q EXCEPT !.enabled = b, !.base = n] \in Pages
    BY DEF Pages
<1> DEFINE q == [p EXCEPT !.dialog = i]
<1> HIDE DEF q
<1>3. [q EXCEPT !.enabled = b, !.base = n] \in Pages
    BY <1>1, <1>2 DEF q
<1> QED BY <1>3 DEF q

LEMMA ClosedTyped ==
    ASSUME NEW p \in Pages
    PROVE  Closed(p) \in Pages
<1>1. Null \in Ids \cup {New, Null} /\ 0 \in Int
    OBVIOUS
<1>2. TRUE \in BOOLEAN
    OBVIOUS
<1>3. [p EXCEPT !.dialog = Null, !.enabled = TRUE, !.base = 0] \in Pages
    BY ONLY <1>1, <1>2, p \in Pages, FormTyped, Zenon
<1> QED BY <1>3, Zenon DEF Closed

LEMMA PagesTyped ==
    /\ AtLogin \in Pages /\ AtConsole \in Pages
    /\ \A p \in Pages : Closed(p) \in Pages
<1>1. AtLogin \in Pages
    BY EmptyIsList DEF AtLogin, Pages, NoRev
<1> QED BY <1>1, OpenedTyped, ClosedTyped DEF AtConsole

LEMMA OpenedPage ==
    ASSUME NEW p \in Pages, NEW list \in Lists, NEW n \in Int, NEW b \in BOOLEAN
    PROVE  [p EXCEPT !.loading = b, !.shown = list, !.shownRev = n] \in Pages
BY DEF Pages

\* One field of a page changes.
LEMMA PageChanged ==
    ASSUME NEW f \in [Tabs -> Pages], NEW t \in Tabs
    PROVE  /\ \A b \in BOOLEAN : /\ [f EXCEPT ![t].enabled = b] \in [Tabs -> Pages]
                                 /\ [f EXCEPT ![t].loading = b] \in [Tabs -> Pages]
           /\ \A i \in Ids \cup {New, Null} : [f EXCEPT ![t].dialog = i] \in [Tabs -> Pages]
           /\ \A n \in Int : /\ [f EXCEPT ![t].base = n] \in [Tabs -> Pages]
                             /\ [f EXCEPT ![t].shownRev = n] \in [Tabs -> Pages]
           /\ \A d \in Lists : [f EXCEPT ![t].shown = d] \in [Tabs -> Pages]
<1> USE DEF Pages
<1>0. f[t] \in Pages
    OBVIOUS
<1>1. ASSUME NEW b \in BOOLEAN
      PROVE  [f[t] EXCEPT !.enabled = b] \in Pages /\ [f[t] EXCEPT !.loading = b] \in Pages
    BY <1>0
<1>2. ASSUME NEW i \in Ids \cup {New, Null} PROVE [f[t] EXCEPT !.dialog = i] \in Pages
    BY <1>0
<1>3. ASSUME NEW n \in Int
      PROVE  [f[t] EXCEPT !.base = n] \in Pages /\ [f[t] EXCEPT !.shownRev = n] \in Pages
    BY <1>0
<1>4. ASSUME NEW d \in Lists PROVE [f[t] EXCEPT !.shown = d] \in Pages
    BY <1>0
<1> HIDE DEF Pages
<1>5. \A p \in Pages : [f EXCEPT ![t] = p] \in [Tabs -> Pages]
    OBVIOUS
<1> QED BY <1>1, <1>2, <1>3, <1>4, <1>5

LEMMA LeavingIsCalm ==
    ASSUME IInv, NEW t \in Tabs, NEW s \in Slots, LogOut(t) \/ GoTo(t, s)
    PROVE  Calm
<1>1. BrowserTypes /\ stored \in Genuine \cup {Null}
    BY DEF IInv, BrowserTypes
<1>2. Unmounted(t) \in [Slots -> Reqs \cup {Null}]
    BY <1>1, UnmountedTyped
<1>3. Request(t, "load", stored) \in Reqs
    BY <1>1, PlainRequest
<1>4. BrowserTypes'
    BY <1>1, <1>2, <1>3, PagesTyped DEF LogOut, GoTo, BrowserTypes
<1>5. Untold
    BY <1>1, <1>2, UnmountedUntold DEF LogOut, GoTo, Untold, Pending, Free
<1> QED BY <1>4, <1>5 DEF Calm, LogOut, GoTo

LEMMA DialogIsCalm ==
    ASSUME IInv, NEW t \in Tabs, OpenDialog(t) \/ CloseDialog(t)
    PROVE  Calm
<1>1. CASE OpenDialog(t)
    <2>1. \A i \in Ids : tab[t].shown[i] # Null => FormEnabled(tab[t].shown[i]) \in BOOLEAN
        BY DEF IInv, BrowserTypes, Pages, Lists, Rows, FormEnabled
    <2>2. tab \in [Tabs -> Pages] /\ tab[t].shownRev \in Int
        BY DEF IInv, BrowserTypes, Pages
    <2>3. [[tab EXCEPT ![t].dialog = New] EXCEPT ![t].enabled = TRUE] \in [Tabs -> Pages]
        BY <2>2, PageChanged
    <2>4. ASSUME NEW i \in Ids, tab[t].shown[i] # Null
          PROVE  [[[tab EXCEPT ![t].dialog = i] EXCEPT ![t].base = tab[t].shownRev]
                    EXCEPT ![t].enabled = FormEnabled(tab[t].shown[i])] \in [Tabs -> Pages]
        <3> DEFINE f1 == [tab EXCEPT ![t].dialog = i]
                   f2 == [f1 EXCEPT ![t].base = tab[t].shownRev]
        <3>1. f1 \in [Tabs -> Pages]
            BY <2>2, PageChanged
        <3> HIDE DEF f1
        <3>2. f2 \in [Tabs -> Pages]
            BY <2>2, <3>1, PageChanged
        <3> HIDE DEF f2
        <3>3. [f2 EXCEPT ![t].enabled = FormEnabled(tab[t].shown[i])] \in [Tabs -> Pages]
            BY <2>1, <2>4, <3>2, PageChanged
        <3> QED BY <3>3 DEF f1, f2
    <2>5. tab' \in [Tabs -> Pages]
        <3>1. CASE tab' = [tab EXCEPT ![t].dialog = New, ![t].enabled = TRUE]
            BY ONLY <2>3, <3>1
        <3>2. ASSUME NEW i \in Ids, tab[t].shown[i] # Null,
                     tab' = [tab EXCEPT ![t].dialog = i, ![t].base = tab[t].shownRev,
                                        ![t].enabled = FormEnabled(tab[t].shown[i])]
              PROVE  tab' \in [Tabs -> Pages]
            BY <2>4, <3>2
        <3> QED BY <1>1, <3>1, <3>2 DEF OpenDialog
    <2> QED BY <1>1, <2>5 DEF OpenDialog, IInv, BrowserTypes, Calm, Untold
<1>2. CASE CloseDialog(t)
    BY <1>2, PagesTyped DEF CloseDialog, IInv, BrowserTypes, Calm, Untold
<1> QED BY <1>1, <1>2

-----------------------------------------------------------------------------
\* Answers that arrive, and requests given up.
LEMMA LiveRequest ==
    ASSUME NEW r \in Reqs, NEW live \in BOOLEAN
    PROVE  [r EXCEPT !.live = live] \in Reqs
<1> DEFINE q == [r EXCEPT !.live = live]
<1>1. q \in Requests /\ q.kind = r.kind /\ q.id = r.id /\ q.fields = r.fields
    BY DEF Reqs, Requests
<1> HIDE DEF q
<1>2. q \in Reqs
    BY <1>1, SameForm
<1> QED BY <1>2 DEF q

LEMMA MarkTyped ==
    ASSUME NEW p \in Pages, NEW n \in Int, NEW spin \in BOOLEAN, NEW race \in BOOLEAN
    PROVE  [p EXCEPT !.acked = n, !.loading = spin, !.raced = race] \in Pages
BY DEF Pages

LEMMA ReloadingTyped ==
    ASSUME IInv, NEW t \in Tabs, NEW r \in Reqs
    PROVE  Reloading(t, r) \in Pages
<1> DEFINE p == IF r.kind \in {"edit", "create"} THEN Closed(tab[t]) ELSE tab[t]
           n == IF r.rev > p.acked THEN r.rev ELSE p.acked
           race == Live(t, {"load"}) # {}
<1>1. p \in Pages
    BY ClosedTyped DEF IInv, BrowserTypes
<1> HIDE DEF p
<1>2. n \in Int
    BY <1>1 DEF Pages, Reqs, Requests
<1> HIDE DEF n
<1>3. race \in BOOLEAN /\ TRUE \in BOOLEAN
    OBVIOUS
<1> HIDE DEF race
<1>4. [p EXCEPT !.acked = n, !.loading = TRUE, !.raced = race] \in Pages
    BY ONLY <1>1, <1>2, <1>3, MarkTyped, Zenon
<1> QED BY <1>4 DEF Reloading, p, n, race

LEMMA ChangeToldIsCalm ==
    ASSUME IInv, NEW s \in Slots, ChangeTold(s)
    PROVE  Calm
<1>1. BrowserTypes /\ stored \in Genuine \cup {Null} /\ req[s] \in Reqs /\ ~Pending(s)
    BY DEF IInv, BrowserTypes, ChangeTold, Arrived, Pending
<1>2. req[s].tab \in Tabs /\ req[s].live \in BOOLEAN
    BY <1>1 DEF Reqs, Requests
<1> DEFINE q == Request(req[s].tab, "load", stored)
<1>3. q \in Reqs
    BY <1>1, <1>2, PlainRequest
<1>4. [q EXCEPT !.live = req[s].live] \in Reqs
    BY <1>2, <1>3, LiveRequest
<1>5. req' = [req EXCEPT ![s] = [q EXCEPT !.live = req[s].live]]
    BY DEF ChangeTold, StartLoad
<1>6. Reloading(req[s].tab, req[s]) \in Pages
    BY <1>1, <1>2, ReloadingTyped
<1>7. tab' \in [Tabs -> Pages]
    BY <1>1, <1>6 DEF ChangeTold, BrowserTypes
<1>8. BrowserTypes' /\ Untold
    BY <1>1, <1>4, <1>5, <1>7 DEF BrowserTypes, Untold, ChangeTold
<1> QED BY <1>8 DEF Calm, ChangeTold

LEMMA FreedIsCalm ==
    ASSUME BrowserTypes, NEW s \in Slots, ~Pending(s), req' = Freed(s),
           tab' \in [Tabs -> Pages], stored' \in Genuine \cup {Null}, UNCHANGED server
    PROVE  Calm
BY DEF BrowserTypes, Freed, Calm, Untold, Pending

LEMMA ShownTyped ==
    ASSUME NEW f \in [Tabs -> Pages], NEW t \in Tabs, NEW d \in Lists, NEW n \in Int
    PROVE  [f EXCEPT ![t].shown = d, ![t].shownRev = n, ![t].loading = FALSE]
              \in [Tabs -> Pages]
<1> DEFINE f1 == [f EXCEPT ![t].shown = d]
           f2 == [f1 EXCEPT ![t].shownRev = n]
<1>1. f1 \in [Tabs -> Pages]
    BY PageChanged
<1> HIDE DEF f1
<1>2. f2 \in [Tabs -> Pages]
    BY <1>1, PageChanged
<1> HIDE DEF f2
<1>3. FALSE \in BOOLEAN
    OBVIOUS
<1>4. [f2 EXCEPT ![t].loading = FALSE] \in [Tabs -> Pages]
    BY ONLY <1>2, <1>3, t \in Tabs, PageChanged, Zenon
<1> QED BY <1>4 DEF f1, f2

LEMMA FailureTyped ==
    ASSUME IInv, NEW r \in Reqs
    PROVE  AfterFailure(r) \in [Tabs -> Pages]
<1>1. tab \in [Tabs -> Pages] /\ r.tab \in Tabs /\ NoRev \in Int
    BY DEF IInv, BrowserTypes, Reqs, Requests, NoRev
<1> QED BY <1>1, EmptyIsList, ShownTyped DEF AfterFailure

LEMMA LoadIsCalm ==
    ASSUME IInv, NEW s \in Slots, LoadArrives(s) \/ Rejected(s)
    PROVE  Calm
<1>1. BrowserTypes /\ stored \in Genuine \cup {Null} /\ req[s] \in Reqs /\ ~Pending(s)
    BY DEF IInv, BrowserTypes, LoadArrives, Rejected, Arrived, Pending
<1>2. req[s].tab \in Tabs /\ req[s].data \in Lists /\ req[s].rev \in Int
    BY <1>1 DEF Reqs, Requests
<1>3. CASE LoadArrives(s)
    <2>1. tab' \in [Tabs -> Pages]
        BY <1>1, <1>2, <1>3, ShownTyped DEF LoadArrives, BrowserTypes
    <2> QED BY <1>1, <1>3, <2>1, FreedIsCalm DEF LoadArrives
<1>4. CASE Rejected(s)
    BY <1>1, <1>4, FailureTyped, FreedIsCalm DEF Rejected
<1> QED BY <1>3, <1>4

LEMMA SessionIsCalm ==
    ASSUME IInv, NEW s \in Slots, LoggedIn(s) \/ PasswordSet(s)
    PROVE  Calm
<1>1. BrowserTypes /\ req[s] \in Reqs /\ ~Pending(s) /\ req[s] # Null
    BY DEF IInv, BrowserTypes, LoggedIn, PasswordSet, Arrived, Pending
<1>2. req[s].tab \in Tabs /\ req[s].token \in Genuine \cup {Null}
    BY <1>1 DEF Reqs, Requests
<1>3. CASE LoggedIn(s)
    <2>1. Request(req[s].tab, "load", req[s].token) \in Reqs
        BY <1>2, PlainRequest
    <2> QED BY <1>1, <1>2, <1>3, <2>1, PagesTyped DEF LoggedIn, BrowserTypes, Calm, Untold
<1>4. CASE PasswordSet(s)
    <2>1. Unmounted(req[s].tab) \in [Slots -> Reqs \cup {Null}]
        BY <1>1, UnmountedTyped
    <2>2. BrowserTypes'
        BY <1>1, <1>2, <1>4, <2>1, PagesTyped DEF PasswordSet, BrowserTypes
    <2>3. Untold
        BY <1>1, <1>4, <2>1, UnmountedUntold DEF PasswordSet, Untold, Pending
    <2> QED BY <1>4, <2>2, <2>3 DEF Calm, PasswordSet
<1> QED BY <1>3, <1>4

LEMMA TimesOutIsCalm ==
    ASSUME IInv, NEW s \in Slots, TimesOut(s)
    PROVE  Calm
<1>1. BrowserTypes /\ req[s] \in Reqs
    BY DEF IInv, BrowserTypes, TimesOut
<1> DEFINE q == [req[s] EXCEPT !.stage = "abandoned", !.live = FALSE]
<1>2. q \in Reqs /\ q.status = req[s].status
    BY <1>1, AbandonedRequest DEF Reqs, Requests
<1>3. req' = [req EXCEPT ![s] = q]
    BY DEF TimesOut
<1> HIDE DEF q
<1>4. tab' \in [Tabs -> Pages]
    BY <1>1, FailureTyped DEF TimesOut
<1> QED BY <1>1, <1>2, <1>3, <1>4 DEF TimesOut, BrowserTypes, Calm, Untold

LEMMA UnauthorizedIsCalm ==
    ASSUME IInv, NEW s \in Slots, Unauthorized(s)
    PROVE  Calm
<1>1. BrowserTypes /\ req[s] \in Reqs /\ ~Pending(s)
    BY DEF IInv, BrowserTypes, Unauthorized, Arrived, Pending
<1>2. req[s].tab \in Tabs
    BY <1>1 DEF Reqs, Requests
<1> DEFINE t == req[s].tab
           Cut(x) == [req[x] EXCEPT !.stage = "abandoned", !.live = FALSE]
<1>3. \A x \in Slots : req[x] # Null => Cut(x) \in Reqs /\ Cut(x).status = req[x].status
    <2>1. \A x \in Slots : req[x] # Null => req[x] \in Reqs
        BY <1>1 DEF BrowserTypes
    <2> QED BY ONLY <2>1, AbandonedRequest, AbandonedStatus, Zenon
<1>4. CASE tab[t].at = "login"
    <2>1. tab' = tab /\ req' = Freed(s) /\ stored' = Null /\ UNCHANGED server
        BY <1>4 DEF Unauthorized
    <2>2. tab' \in [Tabs -> Pages] /\ stored' \in Genuine \cup {Null}
        BY <1>1, <2>1 DEF BrowserTypes
    <2> QED BY <1>1, <2>1, <2>2, FreedIsCalm
<1>5. CASE tab[t].at # "login"
    <2>1. /\ tab' = [tab EXCEPT ![t] = AtLogin] /\ stored' = Null
          /\ req' = [x \in Slots |-> IF req[x] = Null \/ req[x].tab # t THEN req[x]
                                     ELSE IF req[x].stage = "answered" THEN Null ELSE Cut(x)]
          /\ UNCHANGED server
        BY <1>5 DEF Unauthorized
    <2> HIDE DEF Cut
    <2> QED BY <1>1, <1>2, <1>3, <2>1, PagesTyped DEF BrowserTypes, Calm, Untold
<1> QED BY <1>4, <1>5

-----------------------------------------------------------------------------
\* Steps of the server.
Legit == \A x \in Slots : CarriedOut(x) => req[x].token.born = changes

LEMMA CalmKeeps ==
    ASSUME IInv, Calm
    PROVE  IInv' /\ Legit
<1>1. ServerTypes' /\ UrlIsLastGiven'
    BY DEF IInv, Calm, server, ServerTypes, UrlIsLastGiven
<1>2. Legit
    BY DEF Calm, Untold, Legit, CarriedOut
<1> QED BY <1>1, <1>2 DEF IInv, Calm

\* Only the request that is answered can have been carried out, and only with a
\* token of the password in force.
LEMMA AnsweredLegit ==
    ASSUME IInv, NEW s \in Slots, NEW r, Answered(s, r),
           CarriedOut(s) => req[s].token.born = changes
    PROVE  Legit
<1>1. \A x \in Slots : x # s => req'[x] = req[x]
    BY DEF IInv, BrowserTypes, Answered
<1> QED BY <1>1 DEF Legit, CarriedOut

LEMMA AdmittedIsCurrent ==
    ASSUME IInv, NEW s \in Slots, req[s] # Null, Admitted(req[s]),
           req[s].kind \notin {"login", "wrongLogin"}
    PROVE  req[s].token.born = changes
BY DEF IInv, ServerTypes, BrowserTypes, Reqs, Requests, Genuine, Admitted

LEMMA RefuseKeeps ==
    ASSUME IInv, NEW s \in Slots, Refuse(s)
    PROVE  IInv' /\ Legit
<1> DEFINE r == [req[s] EXCEPT !.status = "401"]
<1>1. BrowserTypes /\ req[s] \in Reqs /\ Answered(s, r) /\ UNCHANGED <<server, stored, tab>>
    BY DEF IInv, BrowserTypes, Refuse, Pending
<1>2. r \in Reqs /\ r.status = "401" /\ [r EXCEPT !.stage = "answered"].status = "401"
    BY <1>1, StatusRequest DEF Reqs, Requests
<1> HIDE DEF r
<1>3. req' \in [Slots -> Reqs \cup {Null}]
    BY <1>1, <1>2, AnsweredTyped
<1>4. ~CarriedOut(s)
    BY <1>1, <1>2 DEF IInv, BrowserTypes, Answered, CarriedOut
<1>5. Legit
    BY <1>1, <1>4, AnsweredLegit
<1> QED BY <1>1, <1>3, <1>5 DEF IInv, ServerTypes, BrowserTypes, UrlIsLastGiven, server

LEMMA HandleLoadKeeps ==
    ASSUME IInv, NEW s \in Slots, HandleLoad(s)
    PROVE  IInv' /\ Legit
<1> DEFINE r == [req[s] EXCEPT !.status = "ok", !.data = rows, !.rev = rev]
<1>1. /\ BrowserTypes /\ req[s] # Null /\ req[s] \in Reqs /\ Admitted(req[s])
      /\ req[s].kind = "load" /\ Answered(s, r) /\ UNCHANGED <<server, stored, tab>>
    BY DEF IInv, BrowserTypes, HandleLoad, Pending
<1>2. r \in Reqs
    BY <1>1, LoadedRequest DEF IInv, ServerTypes
<1> HIDE DEF r
<1>3. req' \in [Slots -> Reqs \cup {Null}]
    BY <1>1, <1>2, AnsweredTyped
<1>4. Legit
    BY <1>1, AdmittedIsCurrent, AnsweredLegit
<1> QED BY <1>1, <1>3, <1>4 DEF IInv, ServerTypes, BrowserTypes, UrlIsLastGiven, server

LEMMA HandleLoginKeeps ==
    ASSUME IInv, NEW s \in Slots, HandleLogin(s)
    PROVE  IInv' /\ Legit
<1> DEFINE r == [req[s] EXCEPT !.status = "ok", !.token = NewToken]
<1>1. /\ BrowserTypes /\ req[s] \in Reqs /\ req[s].kind = "login"
      /\ Answered(s, r) /\ UNCHANGED <<server, stored, tab>>
    BY DEF IInv, BrowserTypes, HandleLogin, Pending
<1>2. r \in Reqs
    BY <1>1, NewTokenIsGenuine, LoggedInRequest DEF IInv
<1> HIDE DEF r
<1>3. req' \in [Slots -> Reqs \cup {Null}]
    BY <1>1, <1>2, AnsweredTyped
<1>4. Legit
    BY <1>1, AnsweredLegit DEF CarriedOut
<1> QED BY <1>1, <1>3, <1>4 DEF IInv, ServerTypes, BrowserTypes, UrlIsLastGiven, server

LEMMA HandlePasswordKeeps ==
    ASSUME IInv, NEW s \in Slots, HandlePassword(s)
    PROVE  IInv' /\ Legit
<1>1. /\ BrowserTypes /\ req[s] # Null /\ req[s] \in Reqs /\ Admitted(req[s])
      /\ req[s].kind \in {"password", "wrongPassword"}
      /\ UNCHANGED <<stored, tab, rows, rev, rowRev, lastUrl>>
    BY DEF IInv, BrowserTypes, HandlePassword, Pending
<1>2. /\ [req[s] EXCEPT !.status = "ok"] \in Reqs
      /\ [req[s] EXCEPT !.status = "rejected"] \in Reqs
    BY <1>1, StatusRequest
<1>3. PICK r \in Reqs : Answered(s, r)
    BY <1>2 DEF HandlePassword
<1>4. req' \in [Slots -> Reqs \cup {Null}]
    BY <1>1, <1>3, AnsweredTyped
<1>5. version' \in Nat /\ changes' = version'
    BY DEF HandlePassword, NextVersion, IInv, ServerTypes
<1>6. Legit
    BY <1>1, <1>3, AdmittedIsCurrent, AnsweredLegit
<1> QED BY <1>1, <1>4, <1>5, <1>6 DEF IInv, ServerTypes, BrowserTypes, UrlIsLastGiven

\* A change of the list keeps it typed; the url goes with lastUrl.
LEMMA Overwritten ==
    ASSUME NEW S, NEW T, NEW f \in [S -> T], NEW i, NEW v \in T
    PROVE  [f EXCEPT ![i] = v] \in [S -> T]
OBVIOUS

LEMMA SetRowKeeps ==
    ASSUME IInv, NEW i, NEW row \in Rows \cup {Null}, SetRow(i, row),
           NEW u \in Urls, row # Null => row.url = u,
           lastUrl' = [lastUrl EXCEPT ![i] = u] \/ (row = Null /\ lastUrl' = lastUrl)
    PROVE  ServerTypes' /\ UrlIsLastGiven'
<1>0. /\ version \in Nat /\ changes = version /\ rev \in Int
      /\ rows \in [Ids -> Rows \cup {Null}]
      /\ rowRev \in [Ids -> Int] /\ lastUrl \in [Ids -> Urls]
      /\ rows' = [rows EXCEPT ![i] = row] /\ rev' = rev + 1
      /\ rowRev' = [rowRev EXCEPT ![i] = rev + 1]
      /\ version' = version /\ changes' = changes
    BY DEF IInv, ServerTypes, SetRow, Lists
<1>1. ServerTypes'
    <2>0. rev + 1 \in Int
        BY <1>0
    <2>1. rows' \in [Ids -> Rows \cup {Null}]
        BY <1>0, Overwritten
    <2>2. rowRev' \in [Ids -> Int]
        BY <1>0, <2>0, Overwritten
    <2>3. lastUrl' \in [Ids -> Urls]
        BY <1>0, Overwritten
    <2> QED BY <1>0, <2>0, <2>1, <2>2, <2>3 DEF ServerTypes, Lists
<1>2. ASSUME NEW j \in Ids, rows'[j] # Null PROVE rows'[j].url = lastUrl'[j]
    <2>1. rows' = [rows EXCEPT ![i] = row] /\ rows \in [Ids -> Rows \cup {Null}]
          /\ lastUrl \in [Ids -> Urls]
        BY DEF IInv, ServerTypes, SetRow, Lists
    <2>2. CASE j = i
        BY <1>2, <2>1, <2>2
    <2>3. CASE j # i
        <3>1. rows'[j] = rows[j] /\ lastUrl'[j] = lastUrl[j]
            BY <2>1, <2>3
        <3> QED BY <1>2, <3>1 DEF IInv, UrlIsLastGiven
    <2> QED BY <2>2, <2>3
<1> QED BY <1>1, <1>2 DEF UrlIsLastGiven

LEMMA FieldsAreRow ==
    ASSUME NEW f \in Fields, f.url \in Urls
    PROVE  f \in Rows
BY DEF Fields, Rows

LEMMA PatchedTyped ==
    ASSUME NEW row \in Rows, NEW f \in Fields
    PROVE  /\ Patched(row, f) \in Rows
           /\ Patched(row, f).url = IF f.url = Null THEN row.url ELSE f.url
BY DEF Patched, Fields, Rows

LEMMA HandleChangeKeeps ==
    ASSUME IInv, NEW s \in Slots, HandleChange(s)
    PROVE  IInv' /\ Legit
<1> DEFINE r == req[s]
           done == [r EXCEPT !.status = "ok", !.rev = rev + 1]
           refused == [r EXCEPT !.status = "rejected"]
<1>1. /\ BrowserTypes /\ r # Null /\ r \in Reqs /\ Admitted(r)
      /\ r.kind \in {"create", "toggle", "edit", "delete"}
      /\ UNCHANGED <<stored, tab>>
    BY DEF IInv, BrowserTypes, HandleChange, Pending
<1>2. done \in Reqs /\ refused \in Reqs
    <2>1. rev + 1 \in Int /\ r \in Reqs
        BY <1>1 DEF IInv, ServerTypes
    <2> HIDE DEF r
    <2>2. done \in Reqs
        BY ONLY <2>1, ChangedRequest, Zenon
    <2>3. refused \in Reqs
        BY ONLY <2>1, StatusRequest
    <2> QED BY <2>2, <2>3
<1>3. Answered(s, done) \/ Answered(s, refused)
    BY DEF HandleChange
<1> HIDE DEF done, refused
<1>4. req' \in [Slots -> Reqs \cup {Null}]
    BY <1>1, <1>2, <1>3, AnsweredTyped
<1>5. Legit
    BY <1>1, <1>3, AdmittedIsCurrent, AnsweredLegit
<1>6. /\ r.fields \in Fields
      /\ r.kind \in {"edit", "create"} => r.fields.url \in Urls
      /\ r.kind = "toggle" => r.fields.url = Null
      /\ r.kind \in {"toggle", "edit", "delete"} => r.id \in Ids
    BY <1>1 DEF Reqs, Requests
<1> HIDE DEF r
<1>7. ServerTypes' /\ UrlIsLastGiven'
    <2>1. CASE r.kind = "create"
        <3>1. PICK i \in Ids : SetRow(i, r.fields)
                               /\ lastUrl' = [lastUrl EXCEPT ![i] = r.fields.url]
            BY <2>1 DEF HandleChange, r
        <3>2. r.fields \in Rows /\ r.fields.url \in Urls
            BY <1>6, <2>1, FieldsAreRow
        <3> QED BY <3>1, <3>2, SetRowKeeps
    <2>2. CASE r.kind \in {"toggle", "edit"} /\ rows[r.id] # Null
        <3> DEFINE row == Patched(rows[r.id], r.fields)
        <3>1. rows[r.id] \in Rows /\ rows[r.id].url = lastUrl[r.id] /\ lastUrl[r.id] \in Urls
            BY <1>6, <2>2 DEF IInv, ServerTypes, Lists, UrlIsLastGiven
        <3>2. /\ SetRow(r.id, row)
              /\ lastUrl' = IF r.kind = "edit"
                            THEN [lastUrl EXCEPT ![r.id] = r.fields.url] ELSE lastUrl
            BY <2>2 DEF HandleChange, r
        <3>3. CASE r.kind = "edit"
            <4>1. r.fields.url \in Urls /\ r.fields.url # Null
                BY <1>6, <3>3, ConsoleAssumption
            <4>2. row \in Rows /\ row.url = r.fields.url
                BY <1>6, <3>1, <4>1, PatchedTyped
            <4> HIDE DEF row
            <4> QED BY <3>2, <3>3, <4>1, <4>2, SetRowKeeps
        <3>4. CASE r.kind = "toggle"
            <4>1. r.fields.url = Null
                BY <1>6, <3>4
            <4>2. row \in Rows /\ row.url = lastUrl[r.id]
                BY <1>6, <3>1, <4>1, PatchedTyped
            <4>3. lastUrl' = [lastUrl EXCEPT ![r.id] = lastUrl[r.id]]
                BY <1>6, <3>2, <3>4 DEF IInv, ServerTypes
            <4> QED BY <3>1, <3>2, <4>2, <4>3, SetRowKeeps
        <3> QED BY <2>2, <3>3, <3>4
    <2>3. CASE r.kind = "delete" /\ rows[r.id] # Null
        <3>1. SetRow(r.id, Null) /\ lastUrl' = lastUrl
            BY <2>3 DEF HandleChange, r
        <3> QED BY <3>1, ConsoleAssumption, SetRowKeeps
    <2>4. CASE r.kind # "create" /\ rows[r.id] = Null
        <3>1. UNCHANGED server
            BY <2>4 DEF HandleChange, r
        <3> QED BY <3>1 DEF server, IInv, ServerTypes, UrlIsLastGiven
    <2> QED BY <1>1, <2>1, <2>2, <2>3, <2>4 DEF r
<1> QED BY <1>1, <1>4, <1>5, <1>7 DEF IInv, BrowserTypes

\* The other administrator.
LEMMA ElsewhereKeeps ==
    ASSUME IInv, Elsewhere
    PROVE  IInv' /\ Legit
<1>1. UNCHANGED <<stored, tab, req>> /\ BrowserTypes
    BY DEF Elsewhere, IInv
<1>2. Legit
    BY <1>1 DEF Legit, CarriedOut
<1>3. ServerTypes' /\ UrlIsLastGiven'
    <2>1. CASE version' = NextVersion /\ changes' = changes + 1
               /\ UNCHANGED <<rows, rev, rowRev, lastUrl>>
        BY <2>1 DEF NextVersion, IInv, ServerTypes, UrlIsLastGiven
    <2>2. ASSUME NEW i \in Ids, rows[i] # Null,
                 SetRow(i, [rows[i] EXCEPT !.enabled = ~@]), UNCHANGED lastUrl
          PROVE  ServerTypes' /\ UrlIsLastGiven'
        <3> DEFINE row == [rows[i] EXCEPT !.enabled = ~@]
        <3>1. rows[i] \in Rows /\ rows[i].url = lastUrl[i] /\ lastUrl[i] \in Urls
            BY <2>2 DEF IInv, ServerTypes, Lists, UrlIsLastGiven
        <3>2. row \in Rows /\ row.url = lastUrl[i]
            BY <3>1 DEF Rows
        <3>3. lastUrl' = [lastUrl EXCEPT ![i] = lastUrl[i]]
            BY <2>2 DEF IInv, ServerTypes
        <3> HIDE DEF row
        <3> QED BY <2>2, <3>1, <3>2, <3>3, SetRowKeeps DEF row
    <2>3. ASSUME NEW i \in Ids, rows[i] # Null, NEW url \in Urls,
                 SetRow(i, [rows[i] EXCEPT !.url = url]),
                 lastUrl' = [lastUrl EXCEPT ![i] = url]
          PROVE  ServerTypes' /\ UrlIsLastGiven'
        <3> DEFINE row == [rows[i] EXCEPT !.url = url]
        <3>1. rows[i] \in Rows
            BY <2>3 DEF IInv, ServerTypes, Lists
        <3>2. row \in Rows /\ row.url = url
            BY <3>1 DEF Rows
        <3> QED BY <2>3, <3>2, SetRowKeeps
    <2>4. ASSUME NEW i \in Ids, SetRow(i, Null), UNCHANGED lastUrl
          PROVE  ServerTypes' /\ UrlIsLastGiven'
        BY <2>4, ConsoleAssumption, SetRowKeeps
    <2> QED BY <2>1, <2>2, <2>3, <2>4 DEF Elsewhere
<1> QED BY <1>1, <1>2, <1>3 DEF IInv, BrowserTypes

-----------------------------------------------------------------------------
\* The invariant.
LEMMA InitIInv == Init => IInv
<1> SUFFICES ASSUME Init PROVE IInv
    OBVIOUS
<1> DEFINE row == [enabled |-> TRUE, url |-> Initial]
<1>1. row \in Rows /\ row.url = Initial
    BY ConsoleAssumption DEF Rows
<1> HIDE DEF row
<1>2. rows = [Empty EXCEPT ![First] = row]
    BY DEF Init, row
<1>3. rows \in Lists
    BY <1>1, <1>2, EmptyIsList DEF Lists
<1>4. ServerTypes
    BY <1>3, ConsoleAssumption DEF Init, ServerTypes
<1>5. UrlIsLastGiven
    BY <1>1, <1>2, ConsoleAssumption DEF Init, UrlIsLastGiven, Empty
<1>6. NewToken \in Genuine
    BY <1>4, NewTokenIsGenuine
<1>7. AtConsole \in Pages
    BY PagesTyped
<1>8. [AtConsole EXCEPT !.loading = FALSE, !.shown = rows, !.shownRev = 1] \in Pages
    <2>1. 1 \in Int /\ FALSE \in BOOLEAN
        OBVIOUS
    <2> QED BY ONLY <1>3, <1>7, <2>1, OpenedPage, Zenon
<1>9. BrowserTypes
    BY <1>6, <1>8 DEF Init, BrowserTypes
<1> QED BY <1>4, <1>5, <1>9 DEF IInv

LEMMA ClicksAreCalm ==
    ASSUME IInv, NEW t \in Tabs, NEW s \in Slots, Clicks(t, s)
    PROVE  Calm
BY TableIsCalm, SubmitIsCalm, FormsAreCalm, LeavingIsCalm DEF Clicks

LEMMA ArrivesIsCalm ==
    ASSUME IInv, NEW s \in Slots, Arrives(s)
    PROVE  Calm
BY ChangeToldIsCalm, LoadIsCalm, SessionIsCalm, UnauthorizedIsCalm DEF Arrives

LEMMA HandleKeeps ==
    ASSUME IInv, NEW s \in Slots, Handle(s)
    PROVE  IInv' /\ Legit
BY RefuseKeeps, HandleLoadKeeps, HandleChangeKeeps, HandleLoginKeeps, HandlePasswordKeeps
   DEF Handle

LEMMA StepKeeps ==
    ASSUME IInv, [Next]_vars
    PROVE  IInv' /\ (Legit \/ UNCHANGED vars)
<1>1. CASE \E t \in Tabs : OpenDialog(t) \/ CloseDialog(t)
    BY <1>1, DialogIsCalm, CalmKeeps
<1>2. CASE \E t \in Tabs : LogOut(t)
    <2>1. PICK t \in Tabs, s \in Slots : LogOut(t)
        BY <1>2, ConsoleAssumption
    <2> QED BY <2>1, LeavingIsCalm, CalmKeeps
<1>3. CASE \E t \in Tabs, s \in Slots : Clicks(t, s)
    BY <1>3, ClicksAreCalm, CalmKeeps
<1>4. CASE \E s \in Slots : Handle(s)
    BY <1>4, HandleKeeps
<1>5. CASE \E s \in Slots : Arrives(s) \/ TimesOut(s)
    BY <1>5, ArrivesIsCalm, TimesOutIsCalm, CalmKeeps
<1>6. CASE Elsewhere
    BY <1>6, ElsewhereKeeps
<1>7. CASE UNCHANGED vars
    BY <1>7 DEF vars, server, IInv, ServerTypes, BrowserTypes, UrlIsLastGiven
<1> QED BY <1>1, <1>2, <1>3, <1>4, <1>5, <1>6, <1>7 DEF Next

\* The server's data, the browser's pages, requests and token keep their types; every
\* token in them says the version of the password in whose time it was issued.
THEOREM ConsoleInvariant == Spec => []IInv
<1>1. Init => IInv
    BY InitIInv
<1>2. IInv /\ [Next]_vars => IInv'
    BY StepKeeps
<1> QED BY <1>1, <1>2, PTL DEF Spec

\* handleToggleEnabled sends one field and updateCallback merges it: whatever is
\* clicked, in however many tabs, a target has the url it was last given.
THEOREM UrlStaysLastGiven == Spec => []UrlIsLastGiven
<1>1. IInv => UrlIsLastGiven
    BY DEF IInv
<1> QED BY <1>1, ConsoleInvariant, PTL

\* changePassword raises passwordVersion and verifyToken compares it: no request with
\* a token of an earlier password is carried out.
THEOREM OldTokensStayDead == Spec => OldTokensAreDead
<1>1. IInv /\ [Next]_vars
      => [\A s \in Slots : CarriedOut(s) => req[s].token.born = changes]_vars
    BY StepKeeps DEF Legit
<1> QED BY <1>1, ConsoleInvariant, PTL DEF Spec, OldTokensAreDead

-----------------------------------------------------------------------------
(***************************************************************************)
(* Tables, dialogs and requests, and the revisions of the list they are    *)
(* of: what a page shows and what is under way for it.                     *)
(***************************************************************************)
\* A list read at revision n has the targets that have not changed since.
Agrees(list, n) == \A i \in Ids : rowRev[i] <= n => list[i] = rows[i]

\* An edit of target i, filled in at revision n, sends the switch as it is.
KeepsSwitch(i, n, on) ==
    (i \in Ids /\ rowRev[i] <= n) => rows[i] # Null /\ rows[i].enabled = on

PageTrue(p) ==
    /\ p.shownRev <= rev /\ p.acked <= rev /\ p.base <= rev
    /\ Agrees(p.shown, p.shownRev) /\ KeepsSwitch(p.dialog, p.base, p.enabled)

ReqTrue(r, latest) ==
    /\ 0 <= r.rev /\ r.rev <= latest /\ r.base <= rev
    /\ r.kind = "load" /\ r.status = "ok" => r.rev <= rev /\ Agrees(r.data, r.rev)
    /\ r.kind = "edit" => KeepsSwitch(r.id, r.base, r.fields.enabled)

RevsTrue ==
    /\ 0 <= rev /\ \A i \in Ids : 0 <= rowRev[i]
    /\ \A t \in Tabs : PageTrue(tab[t])
    /\ \A s \in Slots : req[s] # Null => ReqTrue(req[s], rev)

\* r is a load the page of t waits for; r was answered.
Awaited(r, t) == r # Null /\ r.live /\ r.tab = t /\ r.kind = "load" /\ r.stage # "abandoned"
Told(r) == r.stage = "answered" /\ r.status = "ok"

\* r is a change the page of t asked for.
Asked(r, t) == r # Null /\ r.live /\ r.tab = t /\ r.kind \in Changes

\* A page spins only if it waits for a load; without a race, what it shows and what
\* it will be shown holds the changes it was told of; a login page asks for none.
PageWaits(t) ==
    /\ tab[t].loading => tab[t].at = "console" /\ \E s \in Slots : Awaited(req[s], t)
    /\ tab[t].at = "console" /\ ~tab[t].raced =>
         /\ ~tab[t].loading /\ tab[t].shownRev # NoRev => tab[t].acked <= tab[t].shownRev
         /\ \A s \in Slots : Awaited(req[s], t) /\ Told(req[s]) => tab[t].acked <= req[s].rev
    /\ tab[t].at # "console" => tab[t].dialog = Null /\ \A s \in Slots : ~Asked(req[s], t)

PagesWait == \A t \in Tabs : PageWaits(t)

ConsoleInv == IInv /\ RevsTrue /\ PagesWait

LEMMA TypesOfServer ==
    ASSUME IInv
    PROVE  rev \in Int /\ rowRev \in [Ids -> Int] /\ rows \in [Ids -> Rows \cup {Null}]
BY DEF IInv, ServerTypes, Lists

LEMMA TypesOfPage ==
    ASSUME IInv, NEW t \in Tabs
    PROVE  /\ tab[t] \in Pages /\ tab[t].shownRev \in Int /\ tab[t].acked \in Int
           /\ tab[t].base \in Int
BY DEF IInv, BrowserTypes, Pages

LEMMA TypesOfReq ==
    ASSUME IInv, NEW s \in Slots, req[s] # Null
    PROVE  req[s] \in Reqs /\ req[s].rev \in Int /\ req[s].base \in Int /\ req[s].tab \in Tabs
BY DEF IInv, BrowserTypes, Reqs, Requests

\* A step that leaves the list alone, and true pages and true requests.
LEMMA ListStays ==
    ASSUME IInv, RevsTrue, UNCHANGED <<rows, rev, rowRev>>,
           \A t \in Tabs : PageTrue(tab'[t]),
           \A s \in Slots : req'[s] # Null => ReqTrue(req'[s], rev)
    PROVE  RevsTrue'
<1>1. UNCHANGED <<rows, rev, rowRev>>
    OBVIOUS
<1>2. \A t \in Tabs : PageTrue(tab[t])'
    BY <1>1 DEF PageTrue, Agrees, KeepsSwitch
<1>3. \A s \in Slots : (req[s] # Null => ReqTrue(req[s], rev))'
    BY <1>1 DEF ReqTrue, Agrees, KeepsSwitch
<1> QED BY <1>1, <1>2, <1>3 DEF RevsTrue

LEMMA BrowserTrue ==
    ASSUME IInv, RevsTrue, UNCHANGED server,
           \A t \in Tabs : PageTrue(tab'[t]),
           \A s \in Slots : req'[s] # Null => ReqTrue(req'[s], rev)
    PROVE  RevsTrue'
<1>1. UNCHANGED <<rows, rev, rowRev>>
    BY DEF server
<1> QED BY <1>1, ListStays

\* A change of the list makes nothing false: its target has a later revision.
LEMMA ChangeTrue ==
    ASSUME IInv, IInv', RevsTrue, NEW i \in Ids, NEW row, SetRow(i, row), UNCHANGED tab,
           \A s \in Slots : req'[s] # Null => ReqTrue(req'[s], rev + 1)
    PROVE  RevsTrue'
<1>1. /\ rev \in Int /\ rev' = rev + 1
      /\ \A j \in Ids : rowRev[j] \in Int /\ rowRev'[j] = IF j = i THEN rev + 1 ELSE rowRev[j]
      /\ \A j \in Ids : j # i => rows'[j] = rows[j]
    BY TypesOfServer DEF SetRow
<1>2. ASSUME NEW list, NEW n \in Int, n <= rev, Agrees(list, n)
      PROVE  \A j \in Ids : rowRev'[j] <= n => list[j] = rows'[j]
    BY <1>1, <1>2 DEF Agrees
<1>3. ASSUME NEW k, NEW n \in Int, NEW on, n <= rev, KeepsSwitch(k, n, on)
      PROVE  (k \in Ids /\ rowRev'[k] <= n) => rows'[k] # Null /\ rows'[k].enabled = on
    BY <1>1, <1>3 DEF KeepsSwitch
<1>4. ASSUME NEW t \in Tabs PROVE PageTrue(tab[t])'
    <2>1. tab[t].shownRev \in Int /\ tab[t].acked \in Int /\ tab[t].base \in Int
        BY TypesOfPage
    <2>2. PageTrue(tab[t]) /\ tab' = tab
        BY DEF RevsTrue
    <2> QED BY <1>1, <1>2, <1>3, <2>1, <2>2 DEF PageTrue, Agrees, KeepsSwitch
<1>5. ASSUME NEW s \in Slots, req'[s] # Null PROVE ReqTrue(req[s], rev)'
    <2>1. req'[s].rev \in Int /\ req'[s].base \in Int
        BY <1>5 DEF IInv, BrowserTypes, Reqs, Requests
    <2>2. ReqTrue(req'[s], rev + 1)
        BY <1>5
    <2>3. /\ 0 <= req'[s].rev /\ req'[s].rev <= rev' /\ req'[s].base <= rev'
        BY <1>1, <2>1, <2>2 DEF ReqTrue
    <2>4. req'[s].kind = "load" /\ req'[s].status = "ok"
            => req'[s].rev <= rev' /\ \A j \in Ids : rowRev'[j] <= req'[s].rev
                                                       => req'[s].data[j] = rows'[j]
        BY <1>1, <1>2, <2>1, <2>2 DEF ReqTrue
    <2>5. req'[s].kind = "edit" =>
            ((req'[s].id \in Ids /\ rowRev'[req'[s].id] <= req'[s].base)
               => rows'[req'[s].id] # Null
                  /\ rows'[req'[s].id].enabled = req'[s].fields.enabled)
        BY <1>3, <2>1, <2>2 DEF ReqTrue
    <2> QED BY <2>3, <2>4, <2>5 DEF ReqTrue, Agrees, KeepsSwitch
<1>6. 0 <= rev' /\ \A j \in Ids : 0 <= rowRev'[j]
    BY <1>1 DEF RevsTrue
<1> QED BY <1>4, <1>5, <1>6 DEF RevsTrue

\* The loads of t go on; a load answered in this step has the list as it is.
LoadsGoOn(t) ==
    \A s \in Slots :
       /\ Awaited(req[s], t) => Awaited(req'[s], t)
       /\ Awaited(req'[s], t) /\ Told(req'[s]) =>
            \/ Awaited(req[s], t) /\ Told(req[s]) /\ req'[s].rev = req[s].rev
            \/ req'[s].rev = rev
       /\ Asked(req'[s], t) => Asked(req[s], t) \/ tab[t].at = "console"

LEMMA WaitsStay ==
    ASSUME ConsoleInv, NEW t \in Tabs, tab'[t] = tab[t], LoadsGoOn(t)
    PROVE  PageWaits(t)'
<1>1. PageWaits(t) /\ PageTrue(tab[t])
    BY DEF ConsoleInv, PagesWait, RevsTrue
<1>2. tab[t].acked <= rev
    BY <1>1 DEF PageTrue
<1>3. \A s \in Slots : Awaited(req[s], t) => Awaited(req[s], t)'
    BY DEF LoadsGoOn, Awaited
<1>4. ASSUME tab[t].at = "console", ~tab[t].raced, NEW s \in Slots,
             Awaited(req'[s], t), Told(req'[s])
      PROVE  tab[t].acked <= req'[s].rev
    BY <1>1, <1>2, <1>4 DEF LoadsGoOn, PageWaits
<1>5. tab[t].at # "console" => \A s \in Slots : ~Asked(req'[s], t)
    BY <1>1 DEF LoadsGoOn, PageWaits
<1> QED BY <1>1, <1>3, <1>4, <1>5 DEF PageWaits, Awaited, Told, Asked

\* A page that was left waits for nothing.
LEMMA LeftWaits ==
    ASSUME NEW t \in Tabs, tab'[t] = AtLogin, \A s \in Slots : ~Asked(req'[s], t)
    PROVE  PageWaits(t)'
BY DEF PageWaits, AtLogin, Asked

\* Pages as the browser changes them.
LEMMA NewPageTrue ==
    ASSUME IInv, RevsTrue
    PROVE  PageTrue(AtLogin) /\ PageTrue(AtConsole)
<1>1. rev \in Int /\ 0 <= rev /\ \A i \in Ids : rowRev[i] \in Int /\ 0 <= rowRev[i]
    BY TypesOfServer DEF RevsTrue
<1>2. Agrees(Empty, NoRev)
    BY <1>1 DEF Agrees, NoRev
<1>3. \A on : KeepsSwitch(Null, 0, on)
    BY ConsoleAssumption DEF KeepsSwitch
<1>4. ASSUME NEW p, p = AtLogin \/ p = AtConsole PROVE PageTrue(p)
    <2>1. /\ p.shown = Empty /\ p.shownRev = NoRev /\ p.acked = 0 /\ p.base = 0
          /\ p.dialog = Null
        <3>1. CASE p = AtLogin
            BY <3>1 DEF AtLogin
        <3>2. CASE p = AtConsole
            BY <3>2 DEF AtLogin, AtConsole
        <3> QED BY <1>4, <3>1, <3>2
    <2>2. NoRev <= rev
        BY <1>1 DEF NoRev
    <2> QED BY <1>1, <1>2, <1>3, <2>1, <2>2 DEF PageTrue
<1> QED BY <1>4

LEMMA ClosedTrue ==
    ASSUME IInv, RevsTrue, NEW p \in Pages, PageTrue(p)
    PROVE  /\ PageTrue(Closed(p))
           /\ Closed(p).at = p.at /\ Closed(p).loading = p.loading /\ Closed(p).raced = p.raced
           /\ Closed(p).shown = p.shown /\ Closed(p).shownRev = p.shownRev
           /\ Closed(p).acked = p.acked
<1> DEFINE q == Closed(p)
<1>1. /\ q.at = p.at /\ q.loading = p.loading /\ q.raced = p.raced
      /\ q.shown = p.shown /\ q.shownRev = p.shownRev /\ q.acked = p.acked
      /\ q.dialog = Null /\ q.base = 0
    BY DEF Closed, Pages
<1>2. \A on, n : KeepsSwitch(Null, n, on)
    BY ConsoleAssumption DEF KeepsSwitch
<1>3. 0 <= rev
    BY DEF RevsTrue
<1> HIDE DEF q
<1>4. PageTrue(q)
    BY <1>1, <1>2, <1>3 DEF PageTrue
<1> QED BY <1>1, <1>4 DEF q

\* A list that arrives.
Show(p, list, n) == [p EXCEPT !.shown = list, !.shownRev = n, !.loading = FALSE]

LEMMA ShownTrue ==
    ASSUME NEW p \in Pages, PageTrue(p), NEW list, NEW n, n <= rev, Agrees(list, n)
    PROVE  PageTrue(Show(p, list, n))
<1> DEFINE q == Show(p, list, n)
<1>1. /\ q.shown = list /\ q.shownRev = n /\ q.acked = p.acked /\ q.base = p.base
      /\ q.dialog = p.dialog /\ q.enabled = p.enabled
    BY DEF Pages, Show
<1> HIDE DEF q
<1>2. PageTrue(q)
    BY <1>1 DEF PageTrue
<1> QED BY <1>2 DEF q

\* Requests as they are sent, and what does not change the truth of one.
LEMMA PlainTrue ==
    ASSUME IInv, RevsTrue, NEW t, NEW token, NEW kind, kind # "edit"
    PROVE  ReqTrue(Request(t, kind, token), rev)
<1>1. 0 <= rev
    BY DEF RevsTrue
<1> QED BY <1>1 DEF ReqTrue, Request

LEMMA SameTrue ==
    ASSUME NEW r, NEW q, NEW n, ReqTrue(r, n),
           q.kind = r.kind, q.id = r.id, q.fields = r.fields, q.base = r.base,
           q.data = r.data, q.rev = r.rev,
           q.status = r.status \/ q.status # "ok" \/ q.kind # "load"
    PROVE  ReqTrue(q, n)
BY DEF ReqTrue

LEMMA CutTrue ==
    ASSUME NEW r \in Reqs, NEW n, ReqTrue(r, n)
    PROVE  /\ ReqTrue([r EXCEPT !.live = FALSE], n)
           /\ ReqTrue([r EXCEPT !.stage = "abandoned", !.live = FALSE], n)
           /\ ReqTrue([r EXCEPT !.stage = "answered"], n)
           /\ \A t : /\ ~Awaited([r EXCEPT !.live = FALSE], t)
                     /\ ~Asked([r EXCEPT !.live = FALSE], t)
                     /\ ~Awaited([r EXCEPT !.stage = "abandoned", !.live = FALSE], t)
                     /\ ~Asked([r EXCEPT !.stage = "abandoned", !.live = FALSE], t)
<1>1. ASSUME NEW q, q = [r EXCEPT !.live = FALSE]
                    \/ q = [r EXCEPT !.stage = "abandoned", !.live = FALSE]
                    \/ q = [r EXCEPT !.stage = "answered"]
      PROVE  ReqTrue(q, n)
    <2>1. /\ q.kind = r.kind /\ q.id = r.id /\ q.fields = r.fields /\ q.base = r.base
          /\ q.data = r.data /\ q.rev = r.rev /\ q.status = r.status
        BY <1>1 DEF Reqs, Requests
    <2> QED BY <2>1, SameTrue
<1>2. /\ [r EXCEPT !.live = FALSE].live = FALSE
      /\ [r EXCEPT !.stage = "abandoned", !.live = FALSE].live = FALSE
    BY DEF Reqs, Requests
<1>3. \A t, q : q.live = FALSE => ~Awaited(q, t) /\ ~Asked(q, t)
    BY DEF Awaited, Asked
<1> QED BY <1>1, <1>2, <1>3

\* Sending what is not a load.
LEMMA SendWaits ==
    ASSUME ConsoleInv, IInv', NEW s \in Slots, NEW r \in Reqs, r.kind # "load", ReqTrue(r, rev),
           r.kind \in Changes => tab[r.tab].at = "console", Send(s, r), UNCHANGED tab
    PROVE  RevsTrue' /\ PagesWait'
<1>1. /\ UNCHANGED server /\ req[s] = Null /\ req \in [Slots -> Reqs \cup {Null}]
      /\ req' = [req EXCEPT ![s] = r]
    BY DEF Send, Free, ConsoleInv, IInv, BrowserTypes
<1>2. RevsTrue'
    <2>1. \A x \in Slots : req'[x] # Null => ReqTrue(req'[x], rev)
        BY <1>1 DEF ConsoleInv, RevsTrue
    <2> QED BY <1>1, <2>1, BrowserTrue DEF ConsoleInv, RevsTrue
<1>3. \A t \in Tabs : LoadsGoOn(t)
    BY <1>1 DEF LoadsGoOn, Awaited, Asked
<1> QED BY <1>2, <1>3, WaitsStay DEF PagesWait

LEMMA TableWaits ==
    ASSUME ConsoleInv, IInv', NEW t \in Tabs, NEW s \in Slots, NEW i \in Ids,
           ClickToggle(t, i, s) \/ ClickDelete(t, i, s)
    PROVE  RevsTrue' /\ PagesWait'
<1>1. IInv /\ RevsTrue /\ stored \in Genuine \cup {Null}
    BY DEF ConsoleInv, IInv, BrowserTypes
<1>2. CASE ClickToggle(t, i, s)
    <2>1. tab[t].shown[i] \in Rows
        BY <1>1, <1>2 DEF ClickToggle, IInv, BrowserTypes, Pages, Lists
    <2> DEFINE q == Request(t, "toggle", stored)
               f == SwitchFields(tab[t].shown[i])
               r == [q EXCEPT !.id = i, !.fields = f]
    <2>2. q \in Requests /\ q.kind = "toggle"
        BY <1>1, FreshRequest DEF Kinds
    <2>3. r \in Reqs
        BY <2>1, <2>2, SwitchRequest
    <2>4. ReqTrue(q, rev)
        BY <1>1, PlainTrue
    <2>5. r.kind = "toggle" /\ r.rev = q.rev /\ r.base = q.base /\ r.tab = t
        BY DEF Request
    <2> HIDE DEF q, f
    <2>6. r.kind # "load" /\ ReqTrue(r, rev)
        BY <2>4, <2>5 DEF ReqTrue
    <2>7. Send(s, r) /\ UNCHANGED tab /\ tab[t].at = "console"
        BY <1>2 DEF ClickToggle, Ready, q, f
    <2> HIDE DEF r
    <2> QED BY <2>3, <2>5, <2>6, <2>7, SendWaits
<1>3. CASE ClickDelete(t, i, s)
    <2> DEFINE q == Request(t, "delete", stored)
               r == [q EXCEPT !.id = i]
    <2>2. q \in Requests /\ q.kind = "delete"
        BY <1>1, FreshRequest DEF Kinds
    <2>3. r \in Reqs
        BY <2>2, DeleteRequest
    <2>4. ReqTrue(q, rev)
        BY <1>1, PlainTrue
    <2>5. r.kind = "delete" /\ r.rev = q.rev /\ r.base = q.base /\ r.tab = t
        BY DEF Request
    <2> HIDE DEF q
    <2>6. r.kind # "load" /\ ReqTrue(r, rev)
        BY <2>4, <2>5 DEF ReqTrue
    <2>7. Send(s, r) /\ UNCHANGED tab /\ tab[t].at = "console"
        BY <1>3 DEF ClickDelete, Ready, q
    <2> HIDE DEF r
    <2> QED BY <2>3, <2>5, <2>6, <2>7, SendWaits
<1> QED BY <1>2, <1>3

\* What the dialog sends keeps the switch, if it was filled in from a fresh table.
LEMMA SubmitWaits ==
    ASSUME ConsoleInv, IInv', NEW t \in Tabs, NEW s \in Slots, NEW url \in Urls,
           Submit(t, url, s)
    PROVE  RevsTrue' /\ PagesWait'
<1>1. IInv /\ RevsTrue /\ stored \in Genuine \cup {Null} /\ PageTrue(tab[t])
    BY DEF ConsoleInv, IInv, BrowserTypes, RevsTrue
<1> DEFINE kind == IF tab[t].dialog = New THEN "create" ELSE "edit"
           q == Request(t, kind, stored)
           f == [enabled |-> tab[t].enabled, url |-> url]
           r == [q EXCEPT !.id = tab[t].dialog, !.base = tab[t].base, !.fields = f]
<1>2. tab[t].dialog \in Ids \cup {New} /\ tab[t].base \in Int /\ tab[t].enabled \in BOOLEAN
    BY <1>1 DEF Submit, IInv, BrowserTypes, Pages
<1>3. q \in Requests /\ q.kind = kind
    BY <1>1, FreshRequest DEF Kinds
<1>4. r \in Reqs
    BY <1>2, <1>3, FormRequest
<1>5. /\ r.kind = kind /\ r.rev = 0 /\ r.base = tab[t].base /\ r.id = tab[t].dialog
      /\ r.fields.enabled = tab[t].enabled /\ r.tab = t
    BY DEF Request
<1>6. Send(s, r) /\ UNCHANGED tab /\ tab[t].at = "console"
    BY DEF Submit, ConsoleInv, PagesWait, PageWaits
<1> HIDE DEF r
<1>7. r.kind # "load" /\ ReqTrue(r, rev)
    BY <1>1, <1>5 DEF ReqTrue, PageTrue, RevsTrue
<1> QED BY <1>4, <1>5, <1>6, <1>7, SendWaits

LEMMA FormsWait ==
    ASSUME ConsoleInv, IInv', NEW t \in Tabs, NEW s \in Slots, NEW right \in BOOLEAN,
           ClickLogin(t, right, s) \/ SubmitPassword(t, right, s)
    PROVE  RevsTrue' /\ PagesWait'
<1>1. IInv /\ RevsTrue /\ stored \in Genuine \cup {Null}
    BY DEF ConsoleInv, IInv, BrowserTypes
<1>2. ASSUME NEW kind \in {"login", "wrongLogin", "password", "wrongPassword"}
      PROVE  /\ Request(t, kind, stored) \in Reqs /\ Request(t, kind, stored).kind # "load"
             /\ Request(t, kind, stored).kind \notin Changes
             /\ ReqTrue(Request(t, kind, stored), rev)
    <2>1. Request(t, kind, stored) \in Reqs
        BY <1>1, PlainRequest
    <2>2. Request(t, kind, stored).kind \notin Changes \cup {"load"}
        BY DEF Request, Changes
    <2> QED BY <1>1, <2>1, <2>2, PlainTrue
<1>3. PICK kind \in {"login", "wrongLogin", "password", "wrongPassword"} :
        Send(s, Request(t, kind, stored)) /\ UNCHANGED tab
    <2>1. CASE ClickLogin(t, right, s)
        BY <2>1 DEF ClickLogin
    <2>2. CASE SubmitPassword(t, right, s)
        BY <2>2 DEF SubmitPassword
    <2> QED BY <2>1, <2>2
<1> QED BY <1>2, <1>3, SendWaits

\* The requests of a page that is left are not awaited; those of other pages are as
\* they were.
LEMMA UnmountedTrue ==
    ASSUME IInv, RevsTrue, NEW t \in Tabs, NEW x \in Slots
    PROVE  /\ Unmounted(t)[x] # Null => req[x] # Null /\ ReqTrue(Unmounted(t)[x], rev)
           /\ ~Awaited(Unmounted(t)[x], t) /\ ~Asked(Unmounted(t)[x], t)
           /\ req[x] = Null \/ req[x].tab # t => Unmounted(t)[x] = req[x]
<1>1. Unmounted(t)[x] = IF req[x] # Null /\ req[x].tab = t
                        THEN [req[x] EXCEPT !.live = FALSE] ELSE req[x]
    BY DEF Unmounted
<1>2. req[x] # Null => req[x] \in Reqs /\ ReqTrue(req[x], rev)
    BY TypesOfReq DEF RevsTrue
<1>3. CASE req[x] # Null /\ req[x].tab = t
    BY <1>1, <1>2, <1>3, CutTrue
<1>4. CASE ~(req[x] # Null /\ req[x].tab = t)
    BY <1>1, <1>2, <1>4 DEF Awaited, Asked
<1> QED BY <1>1, <1>3, <1>4

LEMMA UnmountedGoesOn ==
    ASSUME IInv, RevsTrue, NEW t \in Tabs, NEW x \in Tabs, x # t,
           \A y \in Slots : \/ req'[y] = Unmounted(t)[y]
                            \/ /\ ~Awaited(req[y], x) /\ ~Awaited(req'[y], x)
                               /\ ~Asked(req'[y], x)
    PROVE  LoadsGoOn(x)
<1>1. ASSUME NEW y \in Slots, req'[y] = Unmounted(t)[y]
      PROVE  /\ Awaited(req[y], x) => req'[y] = req[y]
             /\ Awaited(req'[y], x) \/ Asked(req'[y], x) => req'[y] = req[y]
    <2>1. Unmounted(t)[y] = IF req[y] # Null /\ req[y].tab = t
                            THEN [req[y] EXCEPT !.live = FALSE] ELSE req[y]
        BY DEF Unmounted
    <2>2. CASE req[y] # Null /\ req[y].tab = t
        <3>1. /\ ~Awaited([req[y] EXCEPT !.live = FALSE], x) /\ ~Awaited(req[y], x)
              /\ ~Asked([req[y] EXCEPT !.live = FALSE], x)
            BY <2>2, TypesOfReq, CutTrue DEF RevsTrue, Awaited
        <3> QED BY <1>1, <2>1, <2>2, <3>1
    <2>3. CASE ~(req[y] # Null /\ req[y].tab = t)
        BY <1>1, <2>1, <2>3
    <2> QED BY <2>2, <2>3
<1> QED BY <1>1 DEF LoadsGoOn

LEMMA LeavingWaits ==
    ASSUME ConsoleInv, IInv', NEW t \in Tabs, NEW s \in Slots, LogOut(t) \/ GoTo(t, s)
    PROVE  RevsTrue' /\ PagesWait'
<1>1. /\ IInv /\ RevsTrue /\ PagesWait /\ UNCHANGED server /\ tab \in [Tabs -> Pages]
      /\ req \in [Slots -> Reqs \cup {Null}]
    BY DEF ConsoleInv, IInv, BrowserTypes, LogOut, GoTo
<1> DEFINE q == Request(t, "load", stored)
<1>2. CASE tab' = [tab EXCEPT ![t] = AtLogin] /\ req' = Unmounted(t)
    <2>1. RevsTrue'
        <3>1. \A x \in Tabs : PageTrue(tab'[x])
            BY <1>1, <1>2, NewPageTrue DEF RevsTrue
        <3>2. \A x \in Slots : req'[x] # Null => ReqTrue(req'[x], rev)
            BY <1>1, <1>2, UnmountedTrue
        <3> QED BY <1>1, <3>1, <3>2, BrowserTrue
    <2>2. PageWaits(t)'
        BY <1>1, <1>2, UnmountedTrue, LeftWaits
    <2>3. ASSUME NEW x \in Tabs, x # t PROVE PageWaits(x)'
        <3>1. tab'[x] = tab[x]
            BY <1>1, <1>2, <2>3
        <3>2. LoadsGoOn(x)
            BY <1>1, <1>2, <2>3, UnmountedGoesOn
        <3> QED BY <3>1, <3>2, WaitsStay
    <2> QED BY <2>1, <2>2, <2>3 DEF PagesWait
<1>3. CASE /\ GoTo(t, s) /\ tab' = [tab EXCEPT ![t] = AtConsole]
           /\ req' = [Unmounted(t) EXCEPT ![s] = q]
    <2>0. req[s] = Null /\ Unmounted(t) \in [Slots -> Reqs \cup {Null}]
        BY <1>1, <1>3, UnmountedTyped DEF GoTo, Free, IInv
    <2>1. /\ req'[s] = q /\ \A x \in Slots : x # s => req'[x] = Unmounted(t)[x]
          /\ q.kind = "load" /\ q.tab = t /\ q.live /\ q.stage = "sent" /\ q # Null
        <3>1. q # Null
            <4>1. stored \in Genuine \cup {Null} /\ "load" \in Kinds
                BY <1>1 DEF IInv, BrowserTypes, Kinds
            <4> HIDE DEF q
            <4>2. q \in Requests
                BY <4>1, FreshRequest DEF q
            <4> QED BY <4>2, ConsoleAssumption
        <3> QED BY <1>3, <2>0, <3>1 DEF Request
    <2>2. RevsTrue'
        <3>1. \A x \in Tabs : PageTrue(tab'[x])
            BY <1>1, <1>3, NewPageTrue DEF RevsTrue
        <3>2. ReqTrue(q, rev)
            BY <1>1, PlainTrue
        <3>3. \A x \in Slots : req'[x] # Null => ReqTrue(req'[x], rev)
            BY <1>1, <2>1, <3>2, UnmountedTrue
        <3> QED BY <1>1, <3>1, <3>3, BrowserTrue
    <2>3. PageWaits(t)'
        <3>1. tab'[t] = AtConsole
            BY <1>1, <1>3
        <3>2. \A x \in Slots : x # s => ~Awaited(req'[x], t)
            BY <1>1, <2>1, UnmountedTrue
        <3>3. Awaited(req'[s], t) /\ ~Told(req'[s])
            BY <2>1 DEF Awaited, Told
        <3>4. AtConsole.at = "console" /\ AtConsole.loading
            BY DEF AtConsole, AtLogin
        <3> HIDE DEF q
        <3> QED BY <3>1, <3>2, <3>3, <3>4 DEF PageWaits, Awaited, Told, Asked
    <2>4. ASSUME NEW x \in Tabs, x # t PROVE PageWaits(x)'
        <3>1. tab'[x] = tab[x]
            BY <1>1, <1>3, <2>4
        <3>2. ~Awaited(req[s], x) /\ ~Awaited(req'[s], x) /\ ~Asked(req'[s], x)
            BY <2>0, <2>1, <2>4 DEF Awaited, Asked
        <3>3. LoadsGoOn(x)
            BY <1>1, <2>1, <2>4, <3>2, UnmountedGoesOn
        <3> QED BY <3>1, <3>3, WaitsStay
    <2> QED BY <2>2, <2>3, <2>4 DEF PagesWait
<1> QED BY <1>2, <1>3 DEF LogOut, GoTo

\* The dialog is filled in from the table.
LEMMA DialogWaits ==
    ASSUME ConsoleInv, IInv', NEW t \in Tabs, OpenDialog(t) \/ CloseDialog(t)
    PROVE  RevsTrue' /\ PagesWait'
<1>1. /\ IInv /\ RevsTrue /\ PagesWait /\ UNCHANGED <<server, req>>
      /\ tab \in [Tabs -> Pages] /\ tab[t] \in Pages /\ PageTrue(tab[t])
    BY DEF ConsoleInv, IInv, BrowserTypes, OpenDialog, CloseDialog, RevsTrue
<1> DEFINE p == tab[t]
           Same(q) == /\ q.at = p.at /\ q.loading = p.loading /\ q.raced = p.raced
                      /\ q.acked = p.acked /\ q.shownRev = p.shownRev
                      /\ q.at = "console" \/ q.dialog = Null
<1>2. PageTrue(tab'[t]) /\ Same(tab'[t])
    <2>1. CASE CloseDialog(t)
        <3>1. tab'[t] = Closed(p)
            BY <1>1, <2>1 DEF CloseDialog
        <3>2. Closed(p).dialog = Null
            BY <1>1 DEF Closed, Pages
        <3> QED BY <1>1, <3>1, <3>2, ClosedTrue
    <2>2. CASE OpenDialog(t) /\ tab' = [tab EXCEPT ![t].dialog = New, ![t].enabled = TRUE]
        <3> DEFINE q == [p EXCEPT !.dialog = New, !.enabled = TRUE]
        <3>1. tab'[t] = q
            BY <1>1, <2>2
        <3>0. p.at = "console"
            BY <2>2 DEF OpenDialog, Ready
        <3>2. /\ Same(q) /\ q.base = p.base /\ q.shown = p.shown /\ q.dialog = New
            BY <1>1, <3>0 DEF Pages
        <3>3. \A n, on : KeepsSwitch(New, n, on)
            BY ConsoleAssumption DEF KeepsSwitch
        <3> HIDE DEF q
        <3> QED BY <1>1, <3>1, <3>2, <3>3 DEF PageTrue
    <2>3. ASSUME NEW i \in Ids, p.shown[i] # Null, OpenDialog(t),
                 tab' = [tab EXCEPT ![t].dialog = i, ![t].base = p.shownRev,
                                    ![t].enabled = FormEnabled(p.shown[i])]
          PROVE  PageTrue(tab'[t]) /\ Same(tab'[t])
        <3> DEFINE on == FormEnabled(p.shown[i])
                   q == [p EXCEPT !.dialog = i, !.base = p.shownRev, !.enabled = on]
        <3>1. tab'[t] = q
            BY <1>1, <2>3
        <3>0. p.at = "console"
            BY <2>3 DEF OpenDialog, Ready
        <3>2. /\ Same(q) /\ q.base = p.shownRev /\ q.shown = p.shown /\ q.dialog = i
              /\ q.enabled = on
            BY <1>1, <3>0 DEF Pages
        <3>3. KeepsSwitch(i, p.shownRev, on)
            BY <1>1, <2>3 DEF KeepsSwitch, PageTrue, Agrees, FormEnabled
        <3> HIDE DEF q, on
        <3> QED BY <1>1, <3>1, <3>2, <3>3 DEF PageTrue
    <2> QED BY <1>1, <2>1, <2>2, <2>3 DEF OpenDialog
<1>3. \A x \in Tabs : x # t => tab'[x] = tab[x]
    BY <1>1 DEF OpenDialog, CloseDialog
<1>4. RevsTrue'
    BY <1>1, <1>2, <1>3, BrowserTrue DEF RevsTrue
<1>5. ASSUME NEW x \in Tabs PROVE PageWaits(x)'
    <2>1. CASE x = t
        <3>1. /\ tab'[t].at = p.at /\ tab'[t].loading = p.loading /\ tab'[t].raced = p.raced
              /\ tab'[t].acked = p.acked /\ tab'[t].shownRev = p.shownRev
              /\ tab'[t].at = "console" \/ tab'[t].dialog = Null
            BY <1>2
        <3> QED BY <1>1, <2>1, <3>1 DEF PagesWait, PageWaits
    <2>2. CASE x # t
        BY <1>1, <1>3, <2>2 DEF PagesWait, PageWaits
    <2> QED BY <2>1, <2>2
<1> QED BY <1>4, <1>5 DEF PagesWait

\* A load begins in the slot of a change the page was told of.
LEMMA ChangeToldWaits ==
    ASSUME ConsoleInv, IInv', NEW s \in Slots, ChangeTold(s)
    PROVE  RevsTrue' /\ PagesWait'
<1> DEFINE r == req[s]
<1>0. PICK t \in Tabs : t = req[s].tab
    BY TypesOfReq DEF ConsoleInv, ChangeTold, Arrived
<1> DEFINE q == [Request(t, "load", stored) EXCEPT !.live = r.live]
<1>1. /\ IInv /\ RevsTrue /\ PagesWait /\ UNCHANGED server
      /\ tab \in [Tabs -> Pages] /\ req \in [Slots -> Reqs \cup {Null}]
      /\ r # Null /\ r.kind \in Changes /\ req' = [req EXCEPT ![s] = q]
      /\ tab' = IF r.live THEN [tab EXCEPT ![t] = Reloading(t, r)] ELSE tab
    BY <1>0 DEF ConsoleInv, IInv, BrowserTypes, ChangeTold, Arrived, StartLoad
<1>2. r \in Reqs /\ r.rev \in Int /\ ReqTrue(r, rev) /\ r.live \in BOOLEAN
    BY <1>1, TypesOfReq DEF RevsTrue, Reqs, Requests
<1>3. /\ q.kind = "load" /\ q.tab = t /\ q.live = r.live /\ q.stage = "sent"
      /\ q.status = "none" /\ q # Null
    <2>1. q # Null
        <3>1. Request(t, "load", stored) \in Reqs
            BY <1>1, <1>2, PlainRequest DEF IInv, BrowserTypes
        <3>2. q \in Reqs
            BY <1>2, <3>1, LiveRequest
        <3> HIDE DEF q
        <3> QED BY <3>2, ConsoleAssumption DEF Reqs
    <2> QED BY <2>1 DEF Request
<1>4. ReqTrue(q, rev)
    <2> DEFINE z == Request(t, "load", stored)
    <2>1. ReqTrue(z, rev)
        BY <1>1, PlainTrue
    <2>2. /\ q.kind = z.kind /\ q.id = z.id /\ q.fields = z.fields /\ q.base = z.base
          /\ q.data = z.data /\ q.rev = z.rev /\ q.status = z.status
        BY DEF Request
    <2> HIDE DEF z, q
    <2> QED BY <2>1, <2>2, SameTrue
<1> HIDE DEF q
<1>5. \A x \in Slots : req'[x] # Null => ReqTrue(req'[x], rev)
    BY <1>1, <1>4 DEF RevsTrue
<1>6. ~Awaited(req[s], t) /\ \A x \in Tabs : ~Awaited(req[s], x)
    BY <1>1 DEF Awaited, Changes
<1>7. ASSUME NEW x \in Tabs, ~Awaited(q, x) PROVE LoadsGoOn(x)
    BY <1>1, <1>3, <1>6, <1>7 DEF LoadsGoOn, Asked, Changes
<1>8. CASE r.live
    <2> DEFINE p == IF r.kind \in {"edit", "create"} THEN Closed(tab[t]) ELSE tab[t]
               n == IF r.rev > p.acked THEN r.rev ELSE p.acked
               race == Live(t, {"load"}) # {}
               new == [p EXCEPT !.acked = n, !.loading = TRUE, !.raced = race]
    <2>1. p \in Pages /\ PageTrue(p) /\ p.at = tab[t].at
        <3>1. tab[t] \in Pages /\ PageTrue(tab[t])
            BY <1>1, <1>2 DEF RevsTrue
        <3> QED BY <1>1, <3>1, ClosedTrue, ClosedTyped
    <2>2. tab'[t] = new
        BY <1>1, <1>2, <1>8 DEF Reloading
    <2> HIDE DEF p
    <2>3. n \in Int /\ n <= rev
        BY <1>2, <2>1, TypesOfServer, <1>1 DEF ReqTrue, PageTrue, Pages
    <2> HIDE DEF n
    <2>4. /\ new.acked = n /\ new.loading = TRUE /\ new.raced = race /\ new.at = p.at
          /\ new.shown = p.shown /\ new.shownRev = p.shownRev /\ new.base = p.base
          /\ new.dialog = p.dialog /\ new.enabled = p.enabled
        BY <2>1 DEF Pages
    <2> HIDE DEF new
    <2>5. PageTrue(new)
        BY <2>1, <2>3, <2>4 DEF PageTrue
    <2>6. RevsTrue'
        <3>1. \A x \in Tabs : PageTrue(tab'[x])
            BY <1>1, <1>2, <1>8, <2>2, <2>5 DEF RevsTrue
        <3> QED BY <1>1, <1>5, <3>1, BrowserTrue
    <2>7. Awaited(req'[s], t) /\ ~Told(req'[s])
        BY <1>1, <1>3, <1>8 DEF Awaited, Told
    <2>8. race <=> \E x \in Slots : Awaited(req[x], t)
        BY DEF Live, Awaited
    <2>9. tab[t].at = "console"
        BY <1>0, <1>1, <1>2, <1>8 DEF PagesWait, PageWaits, Asked
    <2>10. PageWaits(t)'
        <3>1. ASSUME NEW x \in Slots, Awaited(req'[x], t), Told(req'[x]), ~race PROVE FALSE
            BY <1>1, <2>7, <2>8, <3>1
        <3>2. new.at = "console"
            BY <1>1, <1>2, <1>8, <2>1, <2>4, <2>9
        <3> HIDE DEF race
        <3> QED BY <2>2, <2>4, <2>7, <3>1, <3>2 DEF PageWaits, Awaited, Told, Asked
    <2>12. ASSUME NEW x \in Tabs, x # t PROVE PageWaits(x)'
        <3>1. tab'[x] = tab[x]
            BY <1>1, <1>8, <2>12
        <3>2. ~Awaited(q, x)
            BY <1>3, <2>12 DEF Awaited
        <3> QED BY <1>7, <3>1, <3>2, WaitsStay
    <2> QED BY <2>6, <2>10, <2>12 DEF PagesWait
<1>9. CASE ~r.live
    <2>1. tab' = tab
        BY <1>1, <1>9
    <2>2. RevsTrue'
        <3>1. \A x \in Tabs : PageTrue(tab'[x])
            BY <1>1, <2>1 DEF RevsTrue
        <3> QED BY <1>1, <1>5, <3>1, BrowserTrue
    <2>3. \A x \in Tabs : ~Awaited(q, x)
        BY <1>3, <1>9 DEF Awaited
    <2> QED BY <1>7, <2>1, <2>2, <2>3, WaitsStay DEF PagesWait
<1> QED BY <1>8, <1>9

\* A slot whose request is gone, or goes on unheard.
LEMMA DroppedGoesOn ==
    ASSUME IInv, NEW s \in Slots, NEW x \in Tabs, ~Awaited(req[s], x),
           \A y \in Slots : y # s => req'[y] = req[y],
           ~Awaited(req'[s], x) /\ ~Asked(req'[s], x)
    PROVE  LoadsGoOn(x)
BY DEF LoadsGoOn

LEMMA NullIsSilent == \A x : ~Awaited(Null, x) /\ ~Asked(Null, x)
BY DEF Awaited, Asked

\* A load that ends, with its list or with none: the page stops spinning.
LEMMA LoadEnds ==
    ASSUME ConsoleInv, IInv', NEW s \in Slots, NEW t \in Tabs, req[s] # Null, req[s].tab = t,
           req[s].kind = "load", req[s].live, NEW list, NEW n, n <= rev, Agrees(list, n),
           tab[t].at # "console" \/ tab[t].raced \/ n = NoRev \/ tab[t].acked <= n,
           tab' = [tab EXCEPT ![t] = Show(tab[t], list, n)],
           \A y \in Slots : y # s => req'[y] = req[y],
           \A x : ~Awaited(req'[s], x) /\ ~Asked(req'[s], x),
           req'[s] # Null => ReqTrue(req'[s], rev), UNCHANGED server
    PROVE  RevsTrue' /\ PagesWait'
<1>1. /\ IInv /\ RevsTrue /\ PagesWait /\ tab \in [Tabs -> Pages] /\ tab[t] \in Pages
      /\ PageTrue(tab[t]) /\ PageWaits(t)
    BY DEF ConsoleInv, IInv, BrowserTypes, RevsTrue, PagesWait
<1> DEFINE p == Show(tab[t], list, n)
<1>2. tab'[t] = p /\ \A x \in Tabs : x # t => tab'[x] = tab[x]
    BY <1>1
<1>3. /\ PageTrue(p) /\ p.at = tab[t].at /\ p.raced = tab[t].raced /\ p.acked = tab[t].acked
      /\ p.shownRev = n /\ p.loading = FALSE /\ p.dialog = tab[t].dialog
    <2>1. /\ p.at = tab[t].at /\ p.raced = tab[t].raced /\ p.acked = tab[t].acked
          /\ p.shownRev = n /\ p.loading = FALSE /\ p.dialog = tab[t].dialog
        BY <1>1 DEF Show, Pages
    <2>2. PageTrue(p)
        BY <1>1, ShownTrue
    <2> QED BY <2>1, <2>2
<1> HIDE DEF p
<1>4. RevsTrue'
    <2>1. \A x \in Tabs : PageTrue(tab'[x])
        BY <1>1, <1>2, <1>3 DEF RevsTrue
    <2>2. \A y \in Slots : req'[y] # Null => ReqTrue(req'[y], rev)
        BY <1>1 DEF RevsTrue
    <2> QED BY <1>1, <2>1, <2>2, BrowserTrue
<1>5. PageWaits(t)'
    <2>1. ASSUME NEW y \in Slots, Awaited(req'[y], t) \/ Asked(req'[y], t) PROVE req'[y] = req[y]
        BY <2>1
    <2>2. \A y \in Slots : Awaited(req'[y], t) => Awaited(req[y], t) /\ req'[y] = req[y]
        BY <2>1
    <2>3. \A y \in Slots : Asked(req'[y], t) => Asked(req[y], t)
        BY <2>1
    <2> QED BY <1>1, <1>2, <1>3, <2>2, <2>3 DEF PageWaits, Awaited, Told, Asked
<1>6. ASSUME NEW x \in Tabs, x # t PROVE PageWaits(x)'
    <2>1. ~Awaited(req[s], x)
        BY <1>6 DEF Awaited
    <2>2. LoadsGoOn(x)
        BY <1>1, <2>1, DroppedGoesOn
    <2> QED BY <1>2, <1>6, <2>2, WaitsStay
<1> QED BY <1>4, <1>5, <1>6 DEF PagesWait

\* A request that ends and is no load anybody waits for.
LEMMA OtherEnds ==
    ASSUME ConsoleInv, IInv', NEW s \in Slots, req[s].kind # "load" \/ ~req[s].live,
           tab' = tab, \A y \in Slots : y # s => req'[y] = req[y],
           \A x : ~Awaited(req'[s], x) /\ ~Asked(req'[s], x),
           req'[s] # Null => ReqTrue(req'[s], rev), UNCHANGED server
    PROVE  RevsTrue' /\ PagesWait'
<1>1. IInv /\ RevsTrue
    BY DEF ConsoleInv
<1>2. RevsTrue'
    <2>1. \A x \in Tabs : PageTrue(tab'[x])
        BY DEF ConsoleInv, RevsTrue
    <2>2. \A y \in Slots : req'[y] # Null => ReqTrue(req'[y], rev)
        BY DEF ConsoleInv, RevsTrue
    <2> QED BY <1>1, <2>1, <2>2, BrowserTrue
<1>3. \A x \in Tabs : ~Awaited(req[s], x)
    BY DEF Awaited
<1> QED BY <1>1, <1>2, <1>3, DroppedGoesOn, WaitsStay DEF PagesWait

\* AfterFailure, with a request that is gone or goes on unheard.
LEMMA FailureEnds ==
    ASSUME ConsoleInv, IInv', NEW s \in Slots, req[s] # Null, tab' = AfterFailure(req[s]),
           \A y \in Slots : y # s => req'[y] = req[y],
           \A x : ~Awaited(req'[s], x) /\ ~Asked(req'[s], x),
           req'[s] # Null => ReqTrue(req'[s], rev), UNCHANGED server
    PROVE  RevsTrue' /\ PagesWait'
<1>0. PICK t \in Tabs : t = req[s].tab
    BY TypesOfReq DEF ConsoleInv
<1>1. CASE req[s].kind = "load" /\ req[s].live
    <2>1. tab' = [tab EXCEPT ![t] = Show(tab[t], Empty, NoRev)]
        <3>1. tab' = [tab EXCEPT ![t].shown = Empty, ![t].shownRev = NoRev, ![t].loading = FALSE]
            BY <1>0, <1>1 DEF AfterFailure
        <3>2. tab \in [Tabs -> Pages]
            BY DEF ConsoleInv, IInv, BrowserTypes
        <3> QED BY ONLY <3>1, <3>2 DEF Show
    <2>2. NoRev <= rev /\ Agrees(Empty, NoRev)
        <3>1. rev \in Int /\ 0 <= rev /\ \A i \in Ids : rowRev[i] \in Int /\ 0 <= rowRev[i]
            BY TypesOfServer DEF ConsoleInv, RevsTrue
        <3> QED BY <3>1 DEF Agrees, NoRev
    <2>3. req[s].tab = t
        BY <1>0
    <2> QED BY <1>1, <2>1, <2>2, <2>3, LoadEnds
<1>2. CASE ~(req[s].kind = "load" /\ req[s].live)
    BY <1>2, OtherEnds DEF AfterFailure
<1> QED BY <1>1, <1>2

LEMMA LoadWaits ==
    ASSUME ConsoleInv, IInv', NEW s \in Slots, LoadArrives(s) \/ Rejected(s)
    PROVE  RevsTrue' /\ PagesWait'
<1>0. /\ req[s] # Null /\ req \in [Slots -> Reqs \cup {Null}] /\ req' = [req EXCEPT ![s] = Null]
      /\ UNCHANGED server /\ ReqTrue(req[s], rev)
    BY DEF LoadArrives, Rejected, Arrived, Freed, ConsoleInv, IInv, BrowserTypes, RevsTrue
<1>1. /\ \A y \in Slots : y # s => req'[y] = req[y]
      /\ req'[s] = Null
    BY <1>0
<1>2. CASE Rejected(s)
    BY <1>0, <1>1, <1>2, NullIsSilent, FailureEnds DEF Rejected
<1>3. CASE LoadArrives(s) /\ req[s].live
    <2>0. PICK t \in Tabs : t = req[s].tab
        BY <1>0, TypesOfReq DEF ConsoleInv
    <2> DEFINE list == req[s].data  n == req[s].rev
    <2>1. /\ req[s].kind = "load" /\ Told(req[s])
          /\ tab' = [tab EXCEPT ![t].shown = list, ![t].shownRev = n, ![t].loading = FALSE]
        BY <1>3, <2>0 DEF LoadArrives, Arrived, Told
    <2> HIDE DEF list, n
    <2>4. tab' = [tab EXCEPT ![t] = Show(tab[t], list, n)]
        <3>1. tab \in [Tabs -> Pages]
            BY DEF ConsoleInv, IInv, BrowserTypes
        <3> QED BY ONLY <2>1, <3>1 DEF Show
    <2>5. /\ \A x : ~Awaited(req'[s], x) /\ ~Asked(req'[s], x)
          /\ req'[s] # Null => ReqTrue(req'[s], rev)
        BY <1>1, NullIsSilent
    <2>6. req[s].tab = t
        BY <2>0
    <2>2. n <= rev /\ Agrees(list, n)
        BY <1>0, <2>1 DEF ReqTrue, Told, list, n
    <2>3. tab[t].at # "console" \/ tab[t].raced \/ tab[t].acked <= n
        <3>1. Awaited(req[s], t)
            BY <1>0, <1>3, <2>0, <2>1 DEF Awaited, Told
        <3> QED BY <2>1, <3>1 DEF ConsoleInv, PagesWait, PageWaits, n
    <2> QED BY <1>0, <1>1, <1>3, <2>1, <2>2, <2>3, <2>4, <2>5, <2>6, LoadEnds
<1>4. CASE LoadArrives(s) /\ ~req[s].live
    BY <1>0, <1>1, <1>4, NullIsSilent, OtherEnds DEF LoadArrives
<1> QED BY <1>2, <1>3, <1>4

LEMMA TimesOutWaits ==
    ASSUME ConsoleInv, IInv', NEW s \in Slots, TimesOut(s)
    PROVE  RevsTrue' /\ PagesWait'
<1> DEFINE q == [req[s] EXCEPT !.stage = "abandoned", !.live = FALSE]
<1>1. /\ req[s] # Null /\ req \in [Slots -> Reqs \cup {Null}] /\ req' = [req EXCEPT ![s] = q]
      /\ UNCHANGED server /\ ReqTrue(req[s], rev) /\ tab' = AfterFailure(req[s])
    BY DEF TimesOut, ConsoleInv, IInv, BrowserTypes, RevsTrue
<1>2. /\ \A x : ~Awaited(q, x) /\ ~Asked(q, x)
      /\ ReqTrue(q, rev)
    <2>1. req[s] \in Reqs
        BY <1>1
    <2> QED BY <1>1, <2>1, CutTrue
<1> HIDE DEF q
<1>3. req'[s] = q /\ \A y \in Slots : y # s => req'[y] = req[y]
    BY <1>1
<1> QED BY <1>1, <1>2, <1>3, FailureEnds

\* A tab that logs in, and one whose password is set.
LEMMA LoggedInWaits ==
    ASSUME ConsoleInv, IInv', NEW s \in Slots, LoggedIn(s)
    PROVE  RevsTrue' /\ PagesWait'
<1>0. PICK t \in Tabs : t = req[s].tab
    BY TypesOfReq DEF ConsoleInv, LoggedIn, Arrived
<1> DEFINE q == Request(t, "load", req[s].token)
<1>1. /\ IInv /\ RevsTrue /\ UNCHANGED server /\ tab \in [Tabs -> Pages]
      /\ req \in [Slots -> Reqs \cup {Null}] /\ req[s] # Null /\ req[s].kind = "login"
      /\ tab' = [tab EXCEPT ![t] = AtConsole] /\ req' = [req EXCEPT ![s] = q]
    BY <1>0 DEF ConsoleInv, IInv, BrowserTypes, LoggedIn, Arrived
<1>2. q # Null /\ ReqTrue(q, rev)
    <2>1. req[s].token \in Genuine \cup {Null}
        BY <1>1 DEF Reqs, Requests
    <2> HIDE DEF q
    <2>2. q \in Reqs
        BY <2>1, PlainRequest DEF q
    <2> QED BY <1>1, <2>2, PlainTrue, ConsoleAssumption DEF Reqs, q
<1>3. q.kind = "load" /\ q.tab = t /\ q.live /\ q.stage = "sent"
    BY DEF Request
<1> HIDE DEF q
<1>4. RevsTrue'
    <2>1. \A x \in Tabs : PageTrue(tab'[x])
        BY <1>1, NewPageTrue DEF RevsTrue
    <2>2. \A x \in Slots : req'[x] # Null => ReqTrue(req'[x], rev)
        BY <1>1, <1>2 DEF RevsTrue
    <2> QED BY <1>1, <2>1, <2>2, BrowserTrue
<1>5. PageWaits(t)'
    <2>1. tab'[t] = AtConsole
        BY <1>1
    <2>2. Awaited(req'[s], t)
        BY <1>1, <1>2, <1>3 DEF Awaited
    <2>3. ASSUME NEW x \in Slots, req'[x] # Null PROVE 0 <= req'[x].rev
        BY <1>1, <1>2, <2>3 DEF RevsTrue, ReqTrue
    <2>4. AtConsole.at = "console" /\ AtConsole.loading /\ AtConsole.acked = 0
        BY DEF AtConsole, AtLogin
    <2> QED BY <2>1, <2>2, <2>3, <2>4 DEF PageWaits, Awaited, Told, Asked
<1>6. ASSUME NEW x \in Tabs, x # t PROVE PageWaits(x)'
    <2>1. tab'[x] = tab[x]
        BY <1>1, <1>6
    <2>2. ~Awaited(req[s], x) /\ ~Awaited(req'[s], x) /\ ~Asked(req'[s], x)
        BY <1>1, <1>3, <1>6 DEF Awaited, Asked
    <2>3. LoadsGoOn(x)
        BY <1>1, <2>2, DroppedGoesOn
    <2> QED BY <2>1, <2>3, WaitsStay
<1> QED BY <1>4, <1>5, <1>6 DEF PagesWait

LEMMA PasswordSetWaits ==
    ASSUME ConsoleInv, IInv', NEW s \in Slots, PasswordSet(s)
    PROVE  RevsTrue' /\ PagesWait'
<1>0. PICK t \in Tabs : t = req[s].tab
    BY TypesOfReq DEF ConsoleInv, PasswordSet, Arrived
<1>1. /\ IInv /\ RevsTrue /\ UNCHANGED server /\ tab \in [Tabs -> Pages]
      /\ req[s].kind = "password" /\ Unmounted(t) \in [Slots -> Reqs \cup {Null}]
      /\ tab' = [tab EXCEPT ![t] = AtLogin] /\ req' = [Unmounted(t) EXCEPT ![s] = Null]
    BY <1>0, UnmountedTyped DEF ConsoleInv, IInv, BrowserTypes, PasswordSet, Arrived
<1>2. req'[s] = Null /\ \A y \in Slots : y # s => req'[y] = Unmounted(t)[y]
    BY <1>1
<1>3. RevsTrue'
    <2>1. \A x \in Tabs : PageTrue(tab'[x])
        BY <1>1, NewPageTrue DEF RevsTrue
    <2>2. \A x \in Slots : req'[x] # Null => ReqTrue(req'[x], rev)
        BY <1>1, <1>2, UnmountedTrue
    <2> QED BY <1>1, <2>1, <2>2, BrowserTrue
<1>4. PageWaits(t)'
    <2>1. \A x \in Slots : ~Asked(req'[x], t)
        BY <1>1, <1>2, UnmountedTrue, NullIsSilent
    <2> QED BY <1>1, <2>1, LeftWaits
<1>5. ASSUME NEW x \in Tabs, x # t PROVE PageWaits(x)'
    <2>1. tab'[x] = tab[x]
        BY <1>1, <1>5
    <2>2. ~Awaited(req[s], x) /\ ~Awaited(req'[s], x) /\ ~Asked(req'[s], x)
        BY <1>1, <1>2, NullIsSilent DEF Awaited
    <2>3. LoadsGoOn(x)
        BY <1>1, <1>2, <1>5, <2>2, UnmountedGoesOn
    <2> QED BY <2>1, <2>3, WaitsStay
<1> QED BY <1>3, <1>4, <1>5 DEF PagesWait

\* The interceptor.
LEMMA UnauthorizedWaits ==
    ASSUME ConsoleInv, IInv', NEW s \in Slots, Unauthorized(s)
    PROVE  RevsTrue' /\ PagesWait'
<1>0. PICK t \in Tabs : t = req[s].tab
    BY TypesOfReq DEF ConsoleInv, Unauthorized, Arrived
<1>1. /\ IInv /\ RevsTrue /\ UNCHANGED server /\ tab \in [Tabs -> Pages]
      /\ req \in [Slots -> Reqs \cup {Null}] /\ PageWaits(t)
    BY DEF ConsoleInv, IInv, BrowserTypes, Unauthorized, PagesWait
<1>2. CASE tab[t].at = "login"
    <2>1. tab' = tab /\ req'[s] = Null /\ \A y \in Slots : y # s => req'[y] = req[y]
        BY <1>0, <1>1, <1>2 DEF Unauthorized, Freed
    <2>2. RevsTrue'
        <3>1. \A x \in Tabs : PageTrue(tab'[x])
            BY <1>1, <2>1 DEF RevsTrue
        <3>2. \A x \in Slots : req'[x] # Null => ReqTrue(req'[x], rev)
            BY <1>1, <2>1 DEF RevsTrue
        <3> QED BY <1>1, <3>1, <3>2, BrowserTrue
    <2>3. PageWaits(t)'
        <3>1. \A x \in Slots : ~Asked(req'[x], t)
            BY <1>1, <1>2, <2>1, NullIsSilent DEF PageWaits
        <3> QED BY <1>1, <1>2, <2>1, <3>1 DEF PageWaits, Asked
    <2>4. ASSUME NEW x \in Tabs, x # t PROVE PageWaits(x)'
        <3>1. ~Awaited(req[s], x)
            BY <1>0, <2>4 DEF Awaited
        <3>2. LoadsGoOn(x)
            BY <1>1, <2>1, <3>1, NullIsSilent, DroppedGoesOn
        <3> QED BY <2>1, <3>2, WaitsStay
    <2> QED BY <2>2, <2>3, <2>4 DEF PagesWait
<1>3. CASE tab[t].at # "login"
    <2> DEFINE Cut(x) == [req[x] EXCEPT !.stage = "abandoned", !.live = FALSE]
    <2>1. /\ tab' = [tab EXCEPT ![t] = AtLogin]
          /\ \A x \in Slots : req'[x] = IF req[x] = Null \/ req[x].tab # t THEN req[x]
                                        ELSE IF req[x].stage = "answered" THEN Null ELSE Cut(x)
        BY <1>0, <1>3 DEF Unauthorized
    <2>2. ASSUME NEW x \in Slots, req[x] # Null
          PROVE  /\ ReqTrue(Cut(x), rev)
                 /\ \A y : ~Awaited(Cut(x), y) /\ ~Asked(Cut(x), y)
        <3>1. req[x] \in Reqs /\ ReqTrue(req[x], rev)
            BY <1>1, <2>2 DEF RevsTrue
        <3> QED BY <3>1, CutTrue
    <2> HIDE DEF Cut
    <2>3. RevsTrue'
        <3>1. \A x \in Tabs : PageTrue(tab'[x])
            BY <1>1, <2>1, NewPageTrue DEF RevsTrue
        <3>2. \A x \in Slots : req'[x] # Null => ReqTrue(req'[x], rev)
            BY <1>1, <2>1, <2>2 DEF RevsTrue
        <3> QED BY <1>1, <3>1, <3>2, BrowserTrue
    <2>4. ASSUME NEW x \in Slots
          PROVE  /\ ~Asked(req'[x], t)
                 /\ req'[x] = req[x] \/ (/\ req[x].tab = t
                                        /\ \A y : ~Awaited(req'[x], y) /\ ~Asked(req'[x], y))
        BY <2>1, <2>2, NullIsSilent DEF Asked
    <2>5. PageWaits(t)'
        BY <1>1, <2>1, <2>4, LeftWaits
    <2>6. ASSUME NEW x \in Tabs, x # t PROVE PageWaits(x)'
        <3>1. tab'[x] = tab[x]
            BY <1>1, <2>1, <2>6
        <3>2. \A y \in Slots : req[y].tab = t => ~Awaited(req[y], x)
            BY <2>6 DEF Awaited
        <3>3. LoadsGoOn(x)
            BY <2>4, <3>2 DEF LoadsGoOn
        <3> QED BY <3>1, <3>3, WaitsStay
    <2> QED BY <2>3, <2>5, <2>6 DEF PagesWait
<1> QED BY <1>2, <1>3

-----------------------------------------------------------------------------
\* The server answers: the page waits for the answer now.
LEMMA AnswerTrue ==
    ASSUME IInv, NEW s \in Slots, Pending(s), NEW r \in Reqs, Answered(s, r),
           r.tab = req[s].tab, r.kind = req[s].kind, r.live = req[s].live,
           r.kind = "load" /\ r.status = "ok" => r.rev = rev, NEW n, ReqTrue(r, n)
    PROVE  /\ req'[s] # Null => ReqTrue(req'[s], n)
           /\ \A y \in Slots : y # s => req'[y] = req[y]
           /\ \A t \in Tabs : LoadsGoOn(t)
<1> DEFINE q == [r EXCEPT !.stage = "answered"]
<1>1. /\ req \in [Slots -> Reqs \cup {Null}]
      /\ req' = [req EXCEPT ![s] = IF req[s].stage = "abandoned" THEN Null ELSE q]
    BY DEF IInv, BrowserTypes, Answered
<1>2. /\ q.tab = r.tab /\ q.kind = r.kind /\ q.live = r.live /\ q.stage = "answered"
      /\ q.status = r.status /\ q.rev = r.rev
    BY DEF Reqs, Requests
<1>3. ReqTrue(q, n)
    BY CutTrue
<1>4. q # Null
    <2>1. q \in Reqs
        BY AnsweredRequest
    <2> HIDE DEF q
    <2> QED BY <2>1, ConsoleAssumption DEF Reqs
<1> HIDE DEF q
<1>5. /\ req'[s] = IF req[s].stage = "abandoned" THEN Null ELSE q
      /\ \A y \in Slots : y # s => req'[y] = req[y]
    BY <1>1
<1>6. ASSUME NEW t \in Tabs PROVE LoadsGoOn(t)
    <2>1. Awaited(req[s], t) => Awaited(req'[s], t)
        BY <1>2, <1>4, <1>5 DEF Awaited
    <2>2. Awaited(req'[s], t) /\ Told(req'[s]) => req'[s].rev = rev
        BY <1>2, <1>5 DEF Awaited, Told
    <2>3. Asked(req'[s], t) => Asked(req[s], t)
        BY <1>2, <1>5 DEF Asked, Pending
    <2> QED BY <1>5, <2>1, <2>2, <2>3 DEF LoadsGoOn
<1> QED BY <1>3, <1>5, <1>6

\* An answer that does not change the list.
LEMMA AnswerWaits ==
    ASSUME ConsoleInv, IInv', NEW s \in Slots, Pending(s), NEW r \in Reqs, Answered(s, r),
           r.tab = req[s].tab, r.kind = req[s].kind, r.live = req[s].live,
           r.kind = "load" /\ r.status = "ok" => r.rev = rev, ReqTrue(r, rev),
           UNCHANGED <<rows, rev, rowRev, tab>>
    PROVE  RevsTrue' /\ PagesWait'
<1>1. IInv /\ RevsTrue
    BY DEF ConsoleInv
<1>2. /\ req'[s] # Null => ReqTrue(req'[s], rev)
      /\ \A y \in Slots : y # s => req'[y] = req[y]
      /\ \A t \in Tabs : LoadsGoOn(t)
    BY <1>1, AnswerTrue
<1>3. \A t \in Tabs : PageTrue(tab'[t])
    BY <1>1 DEF RevsTrue
<1>4. \A y \in Slots : req'[y] # Null => ReqTrue(req'[y], rev)
    BY <1>1, <1>2 DEF RevsTrue
<1>5. RevsTrue'
    BY <1>1, <1>3, <1>4, ListStays
<1> QED BY <1>2, <1>5, WaitsStay DEF PagesWait

\* The status of a request.
LEMMA StatusTrue ==
    ASSUME NEW r \in Reqs, NEW n, ReqTrue(r, n),
           NEW status \in {"ok", "rejected", "401"}, status # "ok" \/ r.kind # "load",
           NEW q, q = [r EXCEPT !.status = status]
    PROVE  /\ q \in Reqs /\ ReqTrue(q, n) /\ q.tab = r.tab /\ q.kind = r.kind
           /\ q.live = r.live /\ q.status = status
<1>1. /\ q.kind = r.kind /\ q.id = r.id /\ q.fields = r.fields /\ q.base = r.base
      /\ q.data = r.data /\ q.rev = r.rev /\ q.status = status /\ q.tab = r.tab
      /\ q.live = r.live
    BY DEF Reqs, Requests
<1>2. q \in Reqs
    BY StatusRequest
<1>3. ReqTrue(q, n)
    BY <1>1, SameTrue
<1> QED BY <1>1, <1>2, <1>3

LEMMA RefuseWaits ==
    ASSUME ConsoleInv, IInv', NEW s \in Slots, Refuse(s)
    PROVE  RevsTrue' /\ PagesWait'
<1>1. /\ Pending(s) /\ req[s] \in Reqs /\ ReqTrue(req[s], rev)
      /\ UNCHANGED <<rows, rev, rowRev, tab>>
    BY DEF ConsoleInv, IInv, BrowserTypes, RevsTrue, Refuse, Pending, server
<1>2. PICK q : q = [req[s] EXCEPT !.status = "401"] /\ Answered(s, q)
    BY DEF Refuse
<1>3. /\ q \in Reqs /\ ReqTrue(q, rev) /\ q.tab = req[s].tab /\ q.kind = req[s].kind
      /\ q.live = req[s].live /\ q.status = "401"
    BY <1>1, <1>2, StatusTrue
<1> QED BY <1>1, <1>2, <1>3, AnswerWaits

LEMMA HandlePasswordWaits ==
    ASSUME ConsoleInv, IInv', NEW s \in Slots, HandlePassword(s)
    PROVE  RevsTrue' /\ PagesWait'
<1>1. /\ Pending(s) /\ req[s] \in Reqs /\ ReqTrue(req[s], rev) /\ req[s].kind # "load"
      /\ UNCHANGED <<rows, rev, rowRev, tab>>
    BY DEF ConsoleInv, IInv, BrowserTypes, RevsTrue, HandlePassword, Pending
<1>2. PICK status \in {"ok", "rejected", "401"} :
          Answered(s, [req[s] EXCEPT !.status = status])
    BY DEF HandlePassword
<1>3. PICK q : q = [req[s] EXCEPT !.status = status] /\ Answered(s, q)
    BY <1>2
<1>4. /\ q \in Reqs /\ ReqTrue(q, rev) /\ q.tab = req[s].tab /\ q.kind = req[s].kind
      /\ q.live = req[s].live
    BY <1>1, <1>3, StatusTrue
<1> QED BY <1>1, <1>3, <1>4, AnswerWaits

LEMMA HandleLoginWaits ==
    ASSUME ConsoleInv, IInv', NEW s \in Slots, HandleLogin(s)
    PROVE  RevsTrue' /\ PagesWait'
<1>1. /\ Pending(s) /\ req[s] \in Reqs /\ ReqTrue(req[s], rev) /\ req[s].kind = "login"
      /\ UNCHANGED <<rows, rev, rowRev, tab>> /\ NewToken \in Genuine
    BY NewTokenIsGenuine
       DEF ConsoleInv, IInv, BrowserTypes, RevsTrue, HandleLogin, Pending, server
<1>2. PICK q : q = [req[s] EXCEPT !.status = "ok", !.token = NewToken] /\ Answered(s, q)
    BY DEF HandleLogin
<1>3. /\ q.kind = req[s].kind /\ q.id = req[s].id /\ q.fields = req[s].fields
      /\ q.base = req[s].base /\ q.data = req[s].data /\ q.rev = req[s].rev
      /\ q.tab = req[s].tab /\ q.live = req[s].live
    BY <1>1, <1>2 DEF Reqs, Requests
<1>4. q \in Reqs
    BY <1>1, <1>2, LoggedInRequest
<1>5. ReqTrue(q, rev)
    BY <1>1, <1>3, SameTrue
<1> QED BY <1>1, <1>2, <1>3, <1>4, <1>5, AnswerWaits

\* The list as it is.
LEMMA HandleLoadWaits ==
    ASSUME ConsoleInv, IInv', NEW s \in Slots, HandleLoad(s)
    PROVE  RevsTrue' /\ PagesWait'
<1>1. /\ Pending(s) /\ req[s] \in Reqs /\ ReqTrue(req[s], rev) /\ req[s].kind = "load"
      /\ UNCHANGED <<rows, rev, rowRev, tab>> /\ rev \in Int /\ 0 <= rev /\ rows \in Lists
    BY DEF ConsoleInv, IInv, ServerTypes, BrowserTypes, RevsTrue, HandleLoad, Pending, server
<1>2. PICK q : q = [req[s] EXCEPT !.status = "ok", !.data = rows, !.rev = rev] /\ Answered(s, q)
    BY DEF HandleLoad
<1>3. /\ q.kind = req[s].kind /\ q.base = req[s].base /\ q.data = rows /\ q.rev = rev
      /\ q.tab = req[s].tab /\ q.live = req[s].live
    BY <1>1, <1>2 DEF Reqs, Requests
<1>4. q \in Reqs
    BY <1>1, <1>2, LoadedRequest
<1>5. Agrees(rows, rev)
    BY DEF Agrees
<1>6. ReqTrue(q, rev)
    BY <1>1, <1>3, <1>5 DEF ReqTrue
<1> QED BY <1>1, <1>2, <1>3, <1>4, <1>6, AnswerWaits

\* A change is carried out, or there is nothing to change.
LEMMA HandleChangeWaits ==
    ASSUME ConsoleInv, IInv', NEW s \in Slots, HandleChange(s)
    PROVE  RevsTrue' /\ PagesWait'
<1>1. /\ IInv /\ RevsTrue /\ Pending(s) /\ req[s] \in Reqs /\ ReqTrue(req[s], rev)
      /\ req[s].kind \in Changes /\ rev \in Int /\ rev + 1 \in Int /\ 0 <= rev
      /\ tab' = tab
    BY DEF ConsoleInv, IInv, ServerTypes, BrowserTypes, RevsTrue, HandleChange, Pending, Changes
<1>2. req[s].kind \in {"toggle", "edit", "delete"} => req[s].id \in Ids
    BY <1>1 DEF Reqs
<1>3. CASE UNCHANGED server /\ Answered(s, [req[s] EXCEPT !.status = "rejected"])
    <2>1. PICK q : q = [req[s] EXCEPT !.status = "rejected"] /\ Answered(s, q)
        BY <1>3
    <2>2. /\ q \in Reqs /\ ReqTrue(q, rev) /\ q.tab = req[s].tab /\ q.kind = req[s].kind
          /\ q.live = req[s].live /\ q.status = "rejected"
        BY <1>1, <2>1, StatusTrue
    <2>3. UNCHANGED <<rows, rev, rowRev, tab>>
        BY <1>1, <1>3 DEF server
    <2> QED BY <1>1, <2>1, <2>2, <2>3, AnswerWaits
<1>4. ASSUME NEW i \in Ids, NEW row, SetRow(i, row),
             Answered(s, [req[s] EXCEPT !.status = "ok", !.rev = rev + 1])
      PROVE  RevsTrue' /\ PagesWait'
    <2>1. PICK q : q = [req[s] EXCEPT !.status = "ok", !.rev = rev + 1] /\ Answered(s, q)
        BY <1>4
    <2>2. /\ q.kind = req[s].kind /\ q.id = req[s].id /\ q.fields = req[s].fields
          /\ q.base = req[s].base /\ q.rev = rev + 1 /\ q.tab = req[s].tab
          /\ q.live = req[s].live
        BY <1>1, <2>1 DEF Reqs, Requests
    <2>3. q \in Reqs
        BY <1>1, <2>1, ChangedRequest
    <2>4. q.kind # "load"
        BY <1>1, <2>2 DEF Changes
    <2>5. ReqTrue(q, rev + 1)
        BY <1>1, <2>2, <2>4 DEF ReqTrue
    <2>6. /\ req'[s] # Null => ReqTrue(req'[s], rev + 1)
          /\ \A y \in Slots : y # s => req'[y] = req[y]
          /\ \A t \in Tabs : LoadsGoOn(t)
        BY <1>1, <2>1, <2>2, <2>3, <2>4, <2>5, AnswerTrue
    <2>7. ASSUME NEW y \in Slots, req'[y] # Null PROVE ReqTrue(req'[y], rev + 1)
        <3>1. CASE y = s
            BY <2>6, <2>7, <3>1
        <3>2. CASE y # s
            <4>1. req'[y] = req[y] /\ req[y] # Null /\ ReqTrue(req[y], rev) /\ req[y].rev \in Int
                BY <1>1, <2>6, <2>7, <3>2, TypesOfReq DEF RevsTrue
            <4> QED BY <1>1, <4>1 DEF ReqTrue
        <3> QED BY <3>1, <3>2
    <2>8. RevsTrue'
        BY <1>1, <1>4, <2>7, ChangeTrue
    <2> QED BY <1>1, <2>6, <2>8, WaitsStay DEF PagesWait
<1>5. \/ UNCHANGED server /\ Answered(s, [req[s] EXCEPT !.status = "rejected"])
      \/ \E i \in Ids : \E row :
           SetRow(i, row) /\ Answered(s, [req[s] EXCEPT !.status = "ok", !.rev = rev + 1])
    BY <1>2 DEF HandleChange
<1> QED BY <1>3, <1>4, <1>5

LEMMA ElsewhereWaits ==
    ASSUME ConsoleInv, IInv', Elsewhere
    PROVE  RevsTrue' /\ PagesWait'
<1>1. /\ IInv /\ RevsTrue /\ tab' = tab /\ req' = req /\ rev \in Int
    BY DEF ConsoleInv, IInv, ServerTypes, Elsewhere
<1>2. \A t \in Tabs : LoadsGoOn(t)
    BY <1>1 DEF LoadsGoOn
<1>3. CASE UNCHANGED <<rows, rev, rowRev>>
    <2>1. (\A t \in Tabs : PageTrue(tab'[t]))
          /\ \A y \in Slots : req'[y] # Null => ReqTrue(req'[y], rev)
        BY <1>1 DEF RevsTrue
    <2> QED BY <1>1, <1>2, <1>3, <2>1, ListStays, WaitsStay DEF PagesWait
<1>4. ASSUME NEW i \in Ids, NEW row, SetRow(i, row) PROVE RevsTrue' /\ PagesWait'
    <2>1. ASSUME NEW y \in Slots, req'[y] # Null PROVE ReqTrue(req'[y], rev + 1)
        <3>1. req[y] # Null /\ ReqTrue(req[y], rev) /\ req[y].rev \in Int
            BY <1>1, <2>1, TypesOfReq DEF RevsTrue
        <3> QED BY <1>1, <3>1 DEF ReqTrue
    <2>2. RevsTrue'
        BY <1>1, <1>4, <2>1, ChangeTrue
    <2> QED BY <1>1, <1>2, <2>2, WaitsStay DEF PagesWait
<1>5. UNCHANGED <<rows, rev, rowRev>> \/ \E i \in Ids : \E row : SetRow(i, row)
    BY DEF Elsewhere
<1> QED BY <1>3, <1>4, <1>5

-----------------------------------------------------------------------------
\* At first every tab shows the list as it is, and nothing is under way.
LEMMA InitConsoleInv == Init => ConsoleInv
<1> SUFFICES ASSUME Init PROVE ConsoleInv
    OBVIOUS
<1> DEFINE p == [AtConsole EXCEPT !.loading = FALSE, !.shown = rows, !.shownRev = 1]
<1>1. IInv
    BY InitIInv
<1>2. /\ rev = 1 /\ rowRev = [i \in Ids |-> IF i = First THEN 1 ELSE 0]
      /\ \A t \in Tabs : tab[t] = p
      /\ \A s \in Slots : req[s] = Null
    BY DEF Init
<1>3. /\ p.at = "console" /\ p.loading = FALSE /\ p.shown = rows /\ p.shownRev = 1
      /\ p.acked = 0 /\ p.base = 0 /\ p.dialog = Null
    BY DEF AtConsole, AtLogin
<1> HIDE DEF p
<1>4. \A on : KeepsSwitch(Null, 0, on)
    BY ConsoleAssumption DEF KeepsSwitch
<1>5. PageTrue(p)
    BY <1>2, <1>3, <1>4 DEF PageTrue, Agrees
<1>6. RevsTrue
    BY <1>2, <1>5 DEF RevsTrue
<1>7. \A t \in Tabs : PageWaits(t)
    BY <1>2, <1>3 DEF PageWaits, Awaited, NoRev
<1> QED BY <1>1, <1>6, <1>7 DEF ConsoleInv, PagesWait

LEMMA ClicksWait ==
    ASSUME ConsoleInv, IInv', NEW t \in Tabs, NEW s \in Slots, Clicks(t, s)
    PROVE  RevsTrue' /\ PagesWait'
BY TableWaits, SubmitWaits, FormsWait, LeavingWaits DEF Clicks

LEMMA HandleWaits ==
    ASSUME ConsoleInv, IInv', NEW s \in Slots, Handle(s)
    PROVE  RevsTrue' /\ PagesWait'
BY RefuseWaits, HandleLoadWaits, HandleChangeWaits, HandleLoginWaits, HandlePasswordWaits
   DEF Handle

LEMMA ArrivesWaits ==
    ASSUME ConsoleInv, IInv', NEW s \in Slots, Arrives(s)
    PROVE  RevsTrue' /\ PagesWait'
BY ChangeToldWaits, LoadWaits, LoggedInWaits, PasswordSetWaits, UnauthorizedWaits DEF Arrives

LEMMA StepWaits ==
    ASSUME ConsoleInv, [Next]_vars
    PROVE  ConsoleInv'
<1>1. IInv'
    BY StepKeeps DEF ConsoleInv
<1>2. CASE \E t \in Tabs : OpenDialog(t) \/ CloseDialog(t)
    BY <1>1, <1>2, DialogWaits DEF ConsoleInv
<1>3. CASE \E t \in Tabs : LogOut(t)
    <2>1. PICK t \in Tabs, s \in Slots : LogOut(t)
        BY <1>3, ConsoleAssumption
    <2> QED BY <1>1, <2>1, LeavingWaits DEF ConsoleInv
<1>4. CASE \E t \in Tabs, s \in Slots : Clicks(t, s)
    BY <1>1, <1>4, ClicksWait DEF ConsoleInv
<1>5. CASE \E s \in Slots : Handle(s)
    BY <1>1, <1>5, HandleWaits DEF ConsoleInv
<1>6. CASE \E s \in Slots : Arrives(s) \/ TimesOut(s)
    BY <1>1, <1>6, ArrivesWaits, TimesOutWaits DEF ConsoleInv
<1>7. CASE Elsewhere
    BY <1>1, <1>7, ElsewhereWaits DEF ConsoleInv
<1>8. CASE UNCHANGED vars
    <2>1. UNCHANGED server /\ tab' = tab /\ req' = req /\ IInv /\ RevsTrue
        BY <1>8 DEF vars, ConsoleInv
    <2>2. RevsTrue'
        <3>1. \A t \in Tabs : PageTrue(tab'[t])
            BY <2>1 DEF RevsTrue
        <3>2. \A s \in Slots : req'[s] # Null => ReqTrue(req'[s], rev)
            BY <2>1 DEF RevsTrue
        <3> QED BY <2>1, <3>1, <3>2, BrowserTrue
    <2>3. \A t \in Tabs : LoadsGoOn(t)
        BY <2>1 DEF LoadsGoOn
    <2> QED BY <1>1, <2>1, <2>2, <2>3, WaitsStay DEF ConsoleInv, PagesWait
<1> QED BY <1>2, <1>3, <1>4, <1>5, <1>6, <1>7, <1>8 DEF Next

LEMMA ConsoleInvHolds == Spec => []ConsoleInv
<1>1. Init => ConsoleInv
    BY InitConsoleInv
<1>2. ConsoleInv /\ [Next]_vars => ConsoleInv'
    BY StepWaits
<1> QED BY <1>1, <1>2, PTL DEF Spec

\* A page spins from the moment its load begins to the moment that load ends, however
\* it ends: handlers, timeouts, logins and dialogs of any tab leave no spinner alone.
THEOREM SpinnersEnd == Spec => []SpinnerHasLoad
<1>1. ConsoleInv => SpinnerHasLoad
    <2> SUFFICES ASSUME ConsoleInv, NEW t \in Tabs, tab[t].loading
                 PROVE  tab[t].at = "console" /\ Live(t, {"load"}) # {}
        BY DEF SpinnerHasLoad
    <2>1. tab[t].at = "console" /\ \E s \in Slots : Awaited(req[s], t)
        BY DEF ConsoleInv, PagesWait, PageWaits
    <2>2. PICK s \in Slots : Awaited(req[s], t)
        BY <2>1
    <2>3. s \in Live(t, {"load"})
        BY <2>2 DEF Awaited, Live
    <2> QED BY <2>1, <2>3
<1> QED BY <1>1, ConsoleInvHolds, PTL

\* loadTags after a change: a table that is shown holds every change its page was told
\* of, whatever else is changed, in whatever order the answers of other requests come.
THEOREM ChangesAreShown == Spec => []OwnChangesShown
<1>1. ConsoleInv => OwnChangesShown
    <2> SUFFICES ASSUME ConsoleInv, NEW t \in Tabs, tab[t].at = "console",
                        ~tab[t].loading, ~tab[t].raced, tab[t].shownRev # NoRev
                 PROVE  tab[t].shownRev >= tab[t].acked
        BY DEF OwnChangesShown
    <2>1. tab[t].acked <= tab[t].shownRev
        BY DEF ConsoleInv, PagesWait, PageWaits
    <2>2. tab[t].acked \in Int /\ tab[t].shownRev \in Int
        BY TypesOfPage DEF ConsoleInv
    <2> QED BY <2>1, <2>2
<1> QED BY <1>1, ConsoleInvHolds, PTL

\* What changes the list.
LEMMA OnlyChanges ==
    ASSUME IInv, [Next]_vars, rows' # rows
    PROVE  Elsewhere \/ \E s \in Slots : HandleChange(s)
<1>1. ~UNCHANGED server
    BY DEF server
<1>2. CASE \E t \in Tabs : OpenDialog(t) \/ CloseDialog(t)
    BY <1>1, <1>2, DialogIsCalm DEF Calm
<1>3. CASE \E t \in Tabs : LogOut(t)
    BY <1>1, <1>3 DEF LogOut
<1>4. CASE \E t \in Tabs, s \in Slots : Clicks(t, s)
    BY <1>1, <1>4, ClicksAreCalm DEF Calm
<1>5. CASE \E s \in Slots : Handle(s)
    <2>1. PICK s \in Slots : Handle(s)
        BY <1>5
    <2>2. ~(Refuse(s) \/ HandleLoad(s) \/ HandleLogin(s))
        BY <1>1 DEF Refuse, HandleLoad, HandleLogin
    <2>3. ~HandlePassword(s)
        BY DEF HandlePassword
    <2> QED BY <2>1, <2>2, <2>3 DEF Handle
<1>6. CASE \E s \in Slots : Arrives(s) \/ TimesOut(s)
    BY <1>1, <1>6, ArrivesIsCalm, TimesOutIsCalm DEF Calm
<1>7. CASE UNCHANGED vars
    BY <1>1, <1>7 DEF vars
<1> QED BY <1>2, <1>3, <1>4, <1>5, <1>6, <1>7 DEF Next

\* handleEdit and updateCallback: an edit of the url that was filled in from a table read
\* after the target's latest change does not turn its switch, however late it arrives.
THEOREM FreshEditsKeepSwitches == Spec => FreshEditKeepsSwitch
<1>1. ASSUME ConsoleInv, [Next]_vars, NEW s \in Slots, Pending(s), req[s].kind = "edit",
             req'[s] # req[s], rows' # rows, req[s].base >= rowRev[req[s].id]
      PROVE  rows'[req[s].id].enabled = rows[req[s].id].enabled
    <2>1. /\ IInv /\ req \in [Slots -> Reqs \cup {Null}] /\ req[s] \in Reqs
          /\ ReqTrue(req[s], rev) /\ rows \in [Ids -> Rows \cup {Null}]
        BY <1>1 DEF ConsoleInv, IInv, ServerTypes, BrowserTypes, RevsTrue, Pending, Lists
    <2>2. req[s].id \in Ids /\ req[s].base \in Int /\ rowRev[req[s].id] \in Int
        BY <1>1, <2>1, TypesOfServer DEF Reqs, Requests
    <2>3. rows[req[s].id] # Null /\ rows[req[s].id].enabled = req[s].fields.enabled
        BY <1>1, <2>1, <2>2 DEF ReqTrue, KeepsSwitch
    <2>4. HandleChange(s)
        <3>1. ~Elsewhere
            BY <1>1 DEF Elsewhere
        <3>2. PICK x \in Slots : HandleChange(x)
            BY <1>1, <2>1, <3>1, OnlyChanges
        <3>3. \E r : Answered(x, r)
            BY <3>2 DEF HandleChange
        <3>4. x = s
            BY <1>1, <2>1, <3>3 DEF Answered
        <3> QED BY <3>2, <3>4
    <2>5. rows' = [rows EXCEPT ![req[s].id] = Patched(rows[req[s].id], req[s].fields)]
        BY <1>1, <2>3, <2>4 DEF HandleChange, SetRow
    <2> QED BY <2>1, <2>2, <2>3, <2>5 DEF Patched
<1>2. ConsoleInv /\ [Next]_vars =>
        [\A s \in Slots :
           (/\ Pending(s) /\ req[s].kind = "edit" /\ req'[s] # req[s] /\ rows' # rows
            /\ req[s].base >= rowRev[req[s].id])
              => rows'[req[s].id].enabled = rows[req[s].id].enabled]_vars
    BY <1>1
<1> QED BY <1>2, ConsoleInvHolds, PTL DEF Spec, FreshEditKeepsSwitch
=============================================================================
