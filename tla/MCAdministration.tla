-------------------------- MODULE MCAdministration --------------------------
(***************************************************************************)
(* Administration for TLC: any three requests on issues, on accounts or on *)
(* topics, and any two of another kind, from two cities and of two users;  *)
(* and Reading: one read beside two such requests.                         *)
(***************************************************************************)
EXTENDS Reading, Sequences, TLC

CONSTANTS
    rome, milan, alice, bob, clerk, chief,
    i1, i2, i3, topic, old, area, hood, poll, idea, post, catalog, turin, locale, bookmark, notice, photo

MCRequest == 1..3
MCNotice == {notice}
MCSaved == {bookmark}
MCPhoto == {photo}
MCCity == {rome, milan}
MCRole == {clerk, chief}
MCAccount == {alice, bob}
MCIssue == {i1, i2, i3}
MCPlain == {topic, old, area, hood, poll, idea, post, catalog, turin, locale}
MCHome == [x \in Row |-> CASE x \in {i2, bob} -> milan [] x \in {catalog, turin, locale} -> Global [] OTHER -> rome]
MCOwner == [x \in {bookmark, notice} |-> alice]
MCSeed == {i1, i2, alice, bob, catalog, turin, locale, notice, idea, old}

Sent(city, user, super) == [city |-> city, user |-> user, super |-> super]
NoHeaders == Sent(Global, Nobody, FALSE)
With(headers, o) == [o EXCEPT !.sent = headers]

Do(method, x, user, city) == [does |-> method, on |-> x, by |-> user, city |-> city, sent |-> NoHeaders]
DoHere(method, x) == Do(method, x, alice, rome)
DoUnder(method, x, parent) ==
    [does |-> method, on |-> x, under |-> parent, by |-> alice, city |-> rome, sent |-> NoHeaders]
Status1(i, city, to) ==
    [does |-> "changeStatus", on |-> i, by |-> alice, city |-> city, sent |-> NoHeaders, status |-> to]
StatusAll(ids, to) ==
    [does |-> "bulkChangeStatus", ids |-> ids, by |-> alice, city |-> rome, sent |-> NoHeaders, status |-> to]
Assign1(i, to) ==
    [does |-> "assign", on |-> i, by |-> alice, city |-> rome, sent |-> NoHeaders, officer |-> to]
AssignAll(ids, to) ==
    [does |-> "bulkAssign", ids |-> ids, by |-> alice, city |-> rome, sent |-> NoHeaders, officer |-> to]
Patch(u, city, replaces, roles, to) ==
    [does |-> "patchUser", on |-> u, by |-> bob, city |-> city, sent |-> NoHeaders,
     replaces |-> replaces, roles |-> roles, status |-> to]
Self(sets, to) ==
    [does |-> "updateSelf", on |-> alice, by |-> alice, city |-> rome, sent |-> NoHeaders, sets |-> sets, to |-> to]
Settings(empty) ==
    [does |-> "patchSettings", on |-> catalog, by |-> alice, city |-> rome, sent |-> NoHeaders, empty |-> empty]

Issues == <<
    Status1(i1, rome, "in_progress"), Status1(i1, rome, "resolved"), Status1(i2, rome, "resolved"),
    Status1(i2, milan, "in_progress"), Status1(i3, rome, "resolved"), StatusAll({i1, i2}, "resolved"),
    StatusAll({i1, i3}, "in_progress"), Assign1(i1, alice), AssignAll({i1, i2}, bob), DoHere("createIssue", i3)>>
Accounts == <<
    Patch(alice, rome, TRUE, {clerk}, "keep"), Patch(alice, rome, TRUE, {chief}, "suspended"),
    Patch(bob, rome, TRUE, {clerk, chief}, "keep"), Patch(alice, milan, TRUE, {}, "suspended"),
    Patch(alice, rome, FALSE, {}, "deleted"),
    DoHere("suspend", alice), Do("suspend", alice, bob, milan), DoHere("reinstate", alice),
    DoHere("deleteMe", alice)>>
Selves == <<
    DoHere("exportData", alice), Self({}, rome), Self({"name"}, rome), Self({"city"}, rome), Self({"city"}, milan),
    DoHere("suspend", alice), DoHere("deleteMe", alice)>>
\* Headers of another city, of a super admin, of a super admin without a city
\* and of no user; an account that moves, and what is written to it then.
Headed == <<
    With(Sent(milan, bob, FALSE), StatusAll({i1, i2}, "resolved")), With(Sent(milan, Nobody, TRUE), AssignAll({i1, i2}, bob)),
    With(Sent(Global, bob, TRUE), StatusAll({i1, i2}, "in_progress")), With(Sent(milan, bob, TRUE), Status1(i2, rome, "resolved")),
    With(Sent(milan, bob, TRUE), Self({"city"}, milan)), With(Sent(milan, bob, FALSE), Self({"name"}, rome)),
    Do("suspend", alice, bob, milan), With(Sent(milan, bob, TRUE), Patch(alice, rome, TRUE, {clerk}, "suspended")),
    Patch(alice, rome, FALSE, {}, "deleted"), With(Sent(milan, bob, TRUE), DoHere("save", bookmark)),
    With(Sent(rome, bob, FALSE), DoHere("remove", bookmark)), With(Sent(rome, alice, FALSE), Do("markRead", notice, bob, milan)),
    With(Sent(rome, Nobody, FALSE), DoHere("markAllRead", alice)), With(Sent(rome, alice, FALSE), Do("markAllRead", bob, bob, milan))>>
Topics == <<
    DoHere("createTopic", topic), DoHere("updateTopic", topic), Do("updateTopic", topic, bob, milan),
    DoHere("deleteTopic", topic), Do("deleteTopic", topic, bob, milan)>>
Places == <<
    DoHere("addArea", area), DoUnder("addNeighborhood", hood, area), DoUnder("addModeratorComment", post, idea),
    DoUnder("addModeratorComment", post, topic), DoHere("createPoll", poll), DoHere("patchPoll", poll),
    DoHere("closePoll", poll), Do("createPoll", poll, bob, milan)>>
Catalogs == [k \in 1..14 |-> DoHere(
    <<"patchTopicCategory", "archiveTopicCategory", "patchIssueCategory", "patchCity", "patchRole", "deleteRole",
      "upsert", "deleteLocale", "createCity", "deactivateCity", "createRole", "patchKey",
      "invite", "revokeInvite">>[k], catalog)] \o <<Settings(TRUE), Settings(FALSE), DoHere("exportData", alice)>>
OwnItems == <<
    DoHere("save", bookmark), Do("save", bookmark, bob, rome), DoHere("remove", bookmark), Do("remove", bookmark, bob, rome),
    DoHere("markRead", notice), Do("markRead", notice, bob, rome), DoHere("markAllRead", alice), DoHere("issuePhoto", photo)>>

\* In no particular order: the requests are alike.
Three(ops) ==
    LET ks == 1..Len(ops)
        sorted == {t \in ks \X ks \X ks : t[1] <= t[2] /\ t[2] <= t[3]}
    IN {<<ops[t[1]], ops[t[2]], ops[t[3]]>> : t \in sorted}

MCTable == [x \in MCPlain |-> CASE x \in {topic, old} -> "topics" [] x = hood -> "neighborhoods"
                               [] x = poll -> "polls" [] x = idea -> "ideas" [] x = post -> "comments"
                               [] x = turin -> "cities" [] x = locale -> "translations" [] OTHER -> "other"]
MCArchived == {old}

\* Two requests of a kind, and a third that changes nothing.
Two(ops) == {<<u[1], u[2], DoHere("exportData", alice)>> : u \in {v \in Three(ops) : v[3] = v[2]}}

Unwatched ==
         Three(Issues) \cup Three(Accounts) \cup Two(Selves) \cup Two(Headed) \cup Three(Topics)
    \cup Two(Places) \cup {<<Places[1], Places[2], op3>> : op3 \in {Places[k] : k \in 1..Len(Places)}} \cup Two(OwnItems)
    \cup {<<Catalogs[k], Catalogs[k], DoHere("exportData", alice)>> : k \in 1..Len(Catalogs)}

Asks(what, user, city) == [asks |-> what, by |-> user, from |-> city, sent |-> NoHeaders]
IssueAsk(what, i, user, city, of, st, who) ==
    [asks |-> what, by |-> user, from |-> city, sent |-> NoHeaders, on |-> i, city |-> of, status |-> st, assignee |-> who]
ListAsk(what, of, st, who) ==
    [asks |-> what, by |-> bob, from |-> rome, sent |-> NoHeaders, city |-> of, status |-> st, assignee |-> who]
TopicAsk(what, x, city) == [asks |-> what, by |-> alice, from |-> city, sent |-> NoHeaders, on |-> x, city |-> rome]
SearchAsk(kind, of) == [asks |-> "search", by |-> alice, from |-> rome, sent |-> NoHeaders, kind |-> kind, city |-> of]

AuditAsk(city, headers, actor) == [asks |-> "listAudit", by |-> alice, from |-> city, sent |-> headers, actor |-> actor]

PageReads == {IssueAsk("getIssue", i1, alice, rome, rome, "any", Nobody)}
IssueReads ==
    {IssueAsk("getIssue", i2, alice, rome, rome, "any", Nobody), IssueAsk("getIssue", i3, alice, rome, rome, "any", Nobody),
     IssueAsk("listIssues", i1, alice, rome, rome, "any", Nobody), IssueAsk("listIssues", i1, alice, rome, milan, "resolved", Nobody),
     ListAsk("adminList", milan, "resolved", Nobody), ListAsk("adminList", rome, "any", alice),
     ListAsk("adminMap", rome, "resolved", Nobody), ListAsk("adminExport", milan, "in_progress", Nobody),
     ListAsk("dashboard", milan, "any", Nobody), SearchAsk("issue", Global),
     AuditAsk(milan, NoHeaders, alice), AuditAsk(rome, Sent(milan, bob, TRUE), Nobody)}
PlaceReads ==
    {SearchAsk("poll", rome), SearchAsk("idea", Global), SearchAsk("comment", rome),
     [asks |-> "getBySlug", by |-> alice, from |-> milan, sent |-> NoHeaders, city |-> rome],
     [asks |-> "neighborhoods", by |-> alice, from |-> milan, sent |-> NoHeaders, city |-> rome]}
TopicReads == {TopicAsk(what, topic, city) : what \in {"listTopics", "getTopic"}, city \in {rome, milan}}
CatalogReads ==
    [asks : {"listCities", "listLocales"}, by : {alice}, from : {rome}, sent : {NoHeaders}, on : {locale}]
    \cup [asks : {"getLocale"}, by : {alice}, from : {rome}, sent : {NoHeaders}, on : {locale, catalog}]
OwnHeaders == {NoHeaders, Sent(rome, bob, FALSE), Sent(milan, Nobody, TRUE), Sent(Global, bob, TRUE)}
OwnReads ==
    {With(h, Asks(what, u, rome)) : what \in {"listSaved", "self"}, u \in {alice, bob}, h \in OwnHeaders}
    \cup {[asks |-> "listNotifications", by |-> u, from |-> rome, sent |-> h, unread |-> b] :
             u \in {alice, bob}, h \in OwnHeaders, b \in BOOLEAN}

Twice(ops) == {<<ops[k], ops[k], DoHere("exportData", alice)>> : k \in 1..Len(ops)}
TwiceIssues == Twice(Issues)
TwoIssues == Two(<<Issues[1], Issues[2], Issues[6], Issues[8], Issues[9]>>)
TwicePlaces == Twice(Places) \cup {<<Places[1], Places[2], DoHere("exportData", alice)>>}
TwiceTopics == Twice(Topics)
TwiceOwnItems == Twice(OwnItems)
\* The account moves while its profile is read.
Moves == {<<Headed[5], Headed[5], DoHere("exportData", alice)>>}

MCUses == Unwatched \cup TwiceIssues \cup TwoIssues \cup TwicePlaces \cup TwiceTopics \cup TwiceOwnItems \cup Moves

MCWatched ==
    [q \in PageReads |-> TwoIssues] @@ [q \in IssueReads |-> TwiceIssues] @@
    [q \in PlaceReads |-> TwicePlaces]
    @@ [q \in TopicReads \cup CatalogReads |-> TwiceTopics] @@ [q \in OwnReads |-> TwiceOwnItems \cup Moves]
    @@ (Asks("nothing", alice, rome) :> Unwatched)

=============================================================================
