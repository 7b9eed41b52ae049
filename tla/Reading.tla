------------------------------ MODULE Reading ------------------------------
(***************************************************************************)
(* What a reader is shown of the rows that the requests of Administration  *)
(* write.  A read is a transaction at READ COMMITTED too: each of its      *)
(* statements sees what is committed when it runs, so an answer that takes *)
(* several is put together from several states of the database.            *)
(*                                                                         *)
(* Everyone reads under the policies of the city in the token, except for  *)
(* the bookmarks, the inbox and the profile, which are read in the tenant  *)
(* context of the request, and the audit log, which is read in its city;   *)
(* the officers' lists of issues, which read one city as a super admin;    *)
(* the dashboard, which binds the city it is asked for; and the lists of   *)
(* cities and of translations, which the connection's own role reads.      *)
(***************************************************************************)
EXTENDS Administration

CONSTANTS
    Table,    \* Table[x]: the table of the plain row x
    Archived, \* the topics whose status is "archived"
    Watched   \* Watched[q]: the uses during which the query q is asked

Ask(methods) == [asks : methods, by : Account, from : City, sent : Header]

\* Which issues: those of a city, and of a status and an officer if given.
IssueQuery ==
    [asks : {"listIssues", "getIssue"}, by : Account, from : City, sent : Header, on : Issue,
     city : City, status : Status \cup {"any"}, assignee : Account \cup {Nobody}]
AdminIssueQuery ==
    [asks : {"adminList", "adminMap", "adminExport", "dashboard"}, by : Account, from : City, sent : Header,
     city : City, status : Status \cup {"any"}, assignee : Account \cup {Nobody}]
TopicQuery == [asks : {"listTopics", "getTopic"}, by : Account, from : City, sent : Header, on : Plain, city : City]
SearchQuery ==
    [asks : {"search"}, by : Account, from : City, sent : Header,
     kind : {"issue", "poll", "idea", "comment"}, city : City \cup {Global}]
InboxQuery == [asks : {"listNotifications"}, by : Account, from : City, sent : Header, unread : BOOLEAN]
CityQuery == [asks : {"getBySlug", "neighborhoods"}, by : Account, from : City, sent : Header, city : City]
LocaleQuery == [asks : {"listCities", "listLocales", "getLocale"}, by : Account, from : City, sent : Header, on : Plain]
AuditQuery == [asks : {"listAudit"}, by : Account, from : City, sent : Header, actor : Account \cup {Nobody}]

Query ==
         IssueQuery \cup AdminIssueQuery \cup TopicQuery \cup SearchQuery
    \cup InboxQuery \cup CityQuery \cup LocaleQuery \cup AuditQuery
    \cup Ask({"listSaved", "self", "nothing"})

ASSUME TableAssumption == Table \in [Plain -> {"topics", "neighborhoods", "polls", "ideas", "comments", "cities", "translations", "other"}]
\* Neither table has a city_id.
ASSUME CatalogAssumption == \A x \in Plain : Table[x] \in {"cities", "translations"} => Home[x] = Global
ASSUME WatchedAssumption == DOMAIN Watched \subseteq Query
ASSUME ArchivedAssumption == Archived \subseteq Plain

VARIABLES
    query,   \* the one read there is
    step,    \* where it stands
    shown    \* its answer; "at" is when the row of an issue was read

readVars == <<query, step, shown>>

toIssue(i) == [status |-> status[i], officer |-> officer[i]]

Nothing == [rows |-> {}, issue |-> {}, timeline |-> {}, at |-> 0]

ReadInit ==
    /\ Init
    /\ query \in {q \in DOMAIN Watched : op \in Watched[q]}
    /\ step = "asked" /\ shown = Nothing

-----------------------------------------------------------------------------

Asked(what) == step = "asked" /\ query.asks = what

Goes(to) == step' = to /\ UNCHANGED <<vars, query>>

Shows(rowsShown) == shown' = [shown EXCEPT !.rows = rowsShown] /\ Goes("done")

\* LIMIT and OFFSET: one page of the rows.
ShowsPage(rowsFound) == \E page \in SUBSET rowsFound : Shows(page)

\* The context of the read.
Reader ==
    LET token == Token(query.by, query.from) tenant == buildTenant(token, query.sent) IN
    CASE query.asks \in {"self", "listSaved", "listNotifications"} -> tenant
      [] query.asks = "listAudit" -> Token(query.by, tenant.city)
      [] OTHER -> token

\* The rows that the policies let the reader see.
Readable == {x \in there : CityOf(x) \in CitiesOf(Reader)}

Stored(table) == {x \in Plain \cap there : Table[x] = table}

\* A row that is not there, or that the policies hide; a lost connection.
ThrowRead ==
    /\ step # "done" /\ query.asks # "nothing"
    /\ shown' = Nothing /\ Goes("done")

-----------------------------------------------------------------------------
(* Issues.                                                                 *)

OfCity == {i \in Issue \cap there : Home[i] = query.city}

Filtered ==
    {i \in OfCity : query.status \in {"any", status[i]} /\ query.assignee \in {Nobody, officer[i]}}

listIssues == Asked("listIssues") /\ ShowsPage(Filtered \cap Readable)

\* The issue, its photos and its timeline are three statements.
selectIssue ==
    /\ Asked("getIssue") /\ query.on \in Readable
    /\ shown' = [shown EXCEPT !.rows = {query.on}, !.at = clock, !.issue = {toIssue(query.on)}]
    /\ Goes("photos")

\* Nothing ever inserts a photo.
selectPhotos == step = "photos" /\ Goes("events") /\ UNCHANGED shown

\* Variant: a timeline cut to its oldest entries.
TimelineOldest ==
    {e \in events : e.on = query.on /\ \A f \in events : f.on = e.on => e.at <= f.at}

Timeline == {e \in events : e.on = query.on}

selectEvents ==
    /\ step = "events"
    /\ shown' = [shown EXCEPT !.timeline = Timeline]
    /\ Goes("done")

Exported == {i \in OfCity : query.status \in {"any", status[i]}}

adminList == Asked("adminList") /\ ShowsPage(Filtered)

\* Of the query, the map takes only the city.
adminMap == Asked("adminMap") /\ Shows(OfCity)

adminExport == Asked("adminExport") /\ Shows(Exported)

\* The city asked for is the one that the policies are bound to.
dashboard == Asked("dashboard") /\ Shows(OfCity)

-----------------------------------------------------------------------------
(* Topics, search, cities, the audit log, and what is one's own.           *)

listTopics ==
    Asked("listTopics") /\ Shows({x \in Stored("topics") \cap Readable : Home[x] = query.city /\ x \notin Archived})

getTopic ==
    Asked("getTopic") /\ query.on \in Stored("topics") \cap Readable /\ Shows({query.on})

Searched ==
    CASE query.kind = "issue" -> Issue \cap there
      [] query.kind = "idea" -> Stored("ideas")
      [] query.kind = "comment" -> Stored("comments")
      [] OTHER -> Stored("polls")

Hits == {x \in Searched \cap Readable : query.city \in {Global, Home[x]}}

\* A word may match any of the rows.  The query builder may refuse to_tsquery
\* with its arguments as column names, and ILIKE in capitals: ThrowRead.
tsvectorSearch == Asked("search") /\ query.kind # "poll" /\ ShowsPage(Hits)
ilikeSearch == Asked("search") /\ query.kind = "poll" /\ ShowsPage(Hits)

\* The city, then its neighborhoods, with no transaction around them.
selectCity ==
    /\ step = "asked" /\ query.asks \in {"getBySlug", "neighborhoods"}
    /\ Goes("neighborhoods") /\ UNCHANGED shown

selectNeighborhoods ==
    step = "neighborhoods" /\ Shows({x \in Stored("neighborhoods") : Home[x] = query.city})

\* The active cities, of one country if it is given.  No caller gets through
\* deactivateCity, so every city there is active.
listCities == Asked("listCities") /\ ShowsPage(Stored("cities"))

listLocales == Asked("listLocales") /\ Shows(Stored("translations"))

\* A locale without translations is no error.
getLocale == Asked("getLocale") /\ Shows(Stored("translations") \cap {query.on})

\* The audit rows of a city: an audit row has the city and the user of the
\* context it was written in.
AuditOf(city, actor) ==
    {b \in audit : Context(op[b.by]).city = city /\ actor \in {Nobody, Context(op[b.by]).user}}

\* Their targets.
listAudit == Asked("listAudit") /\ ShowsPage({a.on : a \in AuditOf(Reader.city, query.actor)})

\* Bookmarks have no policy.  A context of no user is an error.
listSaved ==
    /\ Asked("listSaved") /\ Reader.user # Nobody
    /\ Shows({x \in Saved \cap there : Owner[x] = Reader.user})

\* Variant: an inbox that leaves the recipient to the policies.
InboxOfCity == {n \in Notice \cap Readable : query.unread => n \in unread}

Inbox == {n \in Notice \cap Readable : Owner[n] = Reader.user /\ (query.unread => n \in unread)}

listNotifications == Asked("listNotifications") /\ ShowsPage(Inbox)

getSelf == Asked("self") /\ query.by \in Readable /\ Shows({query.by})

-----------------------------------------------------------------------------

Read ==
    \/ listIssues \/ selectIssue \/ selectPhotos \/ selectEvents
    \/ adminList \/ adminMap \/ adminExport \/ dashboard
    \/ listTopics \/ getTopic \/ tsvectorSearch \/ ilikeSearch
    \/ listCities \/ selectCity \/ selectNeighborhoods \/ listLocales \/ getLocale
    \/ listAudit \/ listSaved \/ listNotifications \/ getSelf
    \/ ThrowRead

ReadNext == (Next /\ UNCHANGED readVars) \/ Read

ReadSpec == ReadInit /\ [][ReadNext]_<<vars, readVars>>

-----------------------------------------------------------------------------

\* The three statements of an issue's page.  The row may be behind the
\* timeline shown with it, and never ahead: its status and officer are those
\* of the entries that were committed when the row was read, and an entry
\* that disagrees was committed between the statements.
IssueAnswersExplained ==
    step = "done" /\ query.asks = "getIssue" /\ shown.rows # {} =>
        LET Agrees(type, value, initially) ==
                LET before == {e \in shown.timeline : e.type = type /\ e.done <= shown.at} IN
                IF before = {} THEN value = initially
                ELSE \E e \in before : e.value = value /\ \A f \in before : f.done <= e.done
        IN \A i \in shown.issue :
            Agrees("status_changed", i.status, "open") /\ Agrees("assigned", i.officer, Nobody)

\* The answers for which the policies are not what keeps to a city.
CityAsked == {"adminList", "adminMap", "adminExport", "dashboard", "getBySlug", "neighborhoods"}

CatalogAsked == {"listCities", "listLocales", "getLocale"}

\* What a reader is shown: the rows of the city of the context read in, of
\* bookmarks and notifications those of the context's user, and of profiles
\* the reader's own.  An officer's list, which no policy guards, stays in the
\* city it was asked for; the lists that have no reader are of rows of no
\* city; and an entry of the audit log was written in the city read.
AnswersIsolated ==
    \A x \in shown.rows :
        IF query.asks = "listAudit" THEN \E a \in AuditOf(Reader.city, Nobody) : a.on = x
        ELSE IF query.asks \in CatalogAsked THEN Home[x] = Global
        ELSE IF x \in Saved THEN Owner[x] = Reader.user
        ELSE IF query.asks \in CityAsked THEN Home[x] = query.city
        ELSE /\ Home[x] \in CitiesOf(Reader) \/ Moved(x)
             /\ x \in Notice => Owner[x] = Reader.user
             /\ query.asks = "self" => x = query.by

=============================================================================
