--------------------------- MODULE Administration ---------------------------
(***************************************************************************)
(* What citizens, officers and administrators do to issues, accounts,      *)
(* roles, taxonomies, settings, bookmarks and the inbox.                   *)
(*                                                                         *)
(* A request is one transaction of runInTenantTx at READ COMMITTED, under  *)
(* the row-level security of a tenant context.  Its first statement stamps *)
(* now(); what a statement reads before the last write is a step of its    *)
(* own; the writes, which hold their row locks until the commit, are one   *)
(* step with the audit row and the commit.                                 *)
(*                                                                         *)
(* Nearly every handler finds its row by id alone and leaves it to the     *)
(* policies to keep it inside the city of the context.  The policies hide  *)
(* the other rows from an UPDATE or a DELETE, which then matches nothing;  *)
(* they make an INSERT of such a row fail.                                 *)
(*                                                                         *)
(* The guard makes a context of the token, and TenantContextInterceptor,   *)
(* which runs after the guards, puts one made of the request's headers in  *)
(* its place.  Some handlers use the context of the request, some only its *)
(* city, and some make their own from the token.                           *)
(*                                                                         *)
(* The controllers under admin/ are modelled as their tests call them,     *)
(* with the tenant context as an argument.                                 *)
(***************************************************************************)
EXTENDS Naturals, FiniteSets

CONSTANTS
    Request, City, Role,
    Global,     \* the home of the rows of no city
    Issue, Account, Notice, Saved, Photo,
    Plain,      \* topics, taxonomies, cities, areas, roles, settings, polls, comments
    Home,       \* Home[x]: the city in the city_id column of row x, of an
                \* account its first default city
    Owner,      \* Owner[x]: whose bookmark, or whose notification, x is
    Seed,       \* the rows that are there at the start
    Uses,       \* which operation each request is: the cases considered
    Nobody,     \* no officer
    NoRequest   \* who granted the roles held at the start

Row == Issue \cup Account \cup Notice \cup Saved \cup Photo \cup Plain

Status == {"open", "in_progress", "resolved"}
Standing == {"active", "suspended", "deleted"}

\* X-City-Id, X-User-Id and X-Is-Super-Admin; no valid city id is Global.
Header == [city : City \cup {Global}, user : Account \cup {Nobody}, super : BOOLEAN]

\* A request: a method, the row it names, who calls it, the city in the
\* caller's token, and the headers sent with it.
Call(methods, rows) == [does : methods, on : rows, by : Account, city : City, sent : Header]
IssueBody ==
         Call({"createIssue"}, Issue)
    \cup [does : {"changeStatus"}, on : Issue, by : Account, city : City, sent : Header, status : Status]
    \cup [does : {"assign"}, on : Issue, by : Account, city : City, sent : Header, officer : Account]
AdminIssueBulkStatus == [does : {"bulkChangeStatus"}, ids : SUBSET Issue, by : Account, city : City, sent : Header, status : Status]
AdminIssueBulkAssign == [does : {"bulkAssign"}, ids : SUBSET Issue, by : Account, city : City, sent : Header, officer : Account]

\* An absent field of a patch is "keep", or replaces nothing.
UserPatch ==
         [does : {"patchUser"}, on : Account, by : Account, city : City, sent : Header, replaces : BOOLEAN,
          roles : SUBSET Role, status : Standing \cup {"keep"}]
    \cup Call({"suspend", "reinstate"}, Account)
UpdateProfileBody ==
    [does : {"updateSelf"}, on : Account, by : Account, city : City, sent : Header, sets : SUBSET {"name", "city"}, to : City]

TopicBody == Call({"createTopic", "updateTopic", "deleteTopic"}, Plain)
CategoryPatch == Call({"patchTopicCategory", "archiveTopicCategory", "patchIssueCategory"}, Plain)
CityBody ==
         Call({"createCity", "patchCity", "deactivateCity", "addArea"}, Plain)
    \cup [does : {"addNeighborhood"}, on : Plain, under : Plain, by : Account, city : City, sent : Header]
RoleBody == Call({"createRole", "patchRole", "deleteRole"}, Plain)
SettingsBody == [does : {"patchSettings"}, on : Plain, by : Account, city : City, sent : Header, empty : BOOLEAN]
TranslationBody == Call({"upsert", "deleteLocale"}, Plain)
KeyBody == Call({"patchKey"}, Plain)
AdminPollBody == Call({"createPoll", "patchPoll", "closePoll"}, Plain)
ModeratorCommentBody == [does : {"addModeratorComment"}, on : Plain, under : Plain, by : Account, city : City, sent : Header]
InviteBody == Call({"invite", "revokeInvite"}, Plain)
SaveItemBody == Call({"save", "remove"}, Saved)
NotificationIdParam == Call({"markRead"}, Notice)

Operation ==
         IssueBody \cup AdminIssueBulkStatus \cup AdminIssueBulkAssign
    \cup UserPatch \cup UpdateProfileBody \cup Call({"deleteMe", "exportData", "markAllRead"}, Account)
    \cup TopicBody \cup CategoryPatch \cup CityBody \cup RoleBody
    \cup SettingsBody \cup TranslationBody \cup KeyBody
    \cup AdminPollBody \cup ModeratorCommentBody \cup InviteBody
    \cup SaveItemBody \cup NotificationIdParam \cup Call({"issuePhoto"}, Photo)

ASSUME HomeAssumption == Home \in [Row -> City \cup {Global}]
ASSUME OwnerAssumption == Owner \in [Saved \cup Notice -> Account]
\* Bookmarks, notifications and accounts are rows of tables of their own.
ASSUME OwnedAssumption ==
    /\ Saved \cap (Issue \cup Account \cup Notice \cup Photo \cup Plain) = {}
    /\ Notice \cap (Issue \cup Account \cup Photo \cup Plain) = {}
    /\ Account \cap (Issue \cup Photo \cup Plain) = {}
ASSUME SeedAssumption == Seed \subseteq Row
ASSUME UsesAssumption == Uses \subseteq [Request -> Operation]
ASSUME NoneAssumption == NoRequest \notin Request /\ Nobody \notin Account /\ Global \notin City

VARIABLES
    there,     \* the rows there are, and the stored photos
    status,    \* status[i] of an issue
    officer,   \* its assigned_officer_id
    standing,  \* standing[u]: the status column of an account
    stamped,   \* the accounts whose deleted_at is set
    defaultCity, \* defaultCity[u]: the default_city_id of an account
    grants,    \* user_roles
    unread,    \* the notifications whose read_at is null
    events,    \* issue_events; "at" is the created_at, "done" orders commits
    audit,     \* the audit rows: the request and the row it names
    changed,   \* which request really wrote which row (history)
    clock,     \* orders the beginnings and the commits of transactions
    began, ended,
    pc, op,
    found,     \* found[r]: whether the row r read first was there
    doomed     \* doomed[r]: the roles that r's DELETE found

rows == <<there, status, officer, standing, stamped, defaultCity, grants, unread, events>>
vars == <<rows, audit, changed, clock, began, ended, pc, op, found, doomed>>

Grant == [user : Account, role : Role, city : City, by : Request \cup {NoRequest}]
Event == [on : Issue, type : {"created", "status_changed", "assigned"},
          value : Status \cup Account \cup {Nobody}, at : Nat, done : Nat, by : Request]

TypeOK ==
    /\ there \subseteq Row
    /\ status \in [Issue -> Status] /\ officer \in [Issue -> Account \cup {Nobody}]
    /\ standing \in [Account -> Standing] /\ stamped \subseteq Account
    /\ defaultCity \in [Account -> City \cup {Global}]
    /\ grants \subseteq Grant /\ unread \subseteq Notice /\ events \subseteq Event
    /\ audit \subseteq [by : Request, on : Row] /\ changed \subseteq [by : Request, on : Row]
    /\ clock \in Nat /\ began \in [Request -> Nat] /\ ended \in [Request -> Nat]
    /\ pc \in [Request -> {"idle", "read", "write", "stored", "done"}]
    /\ op \in [Request -> Operation]
    /\ found \in [Request -> BOOLEAN] /\ doomed \in [Request -> SUBSET Grant]

-----------------------------------------------------------------------------

\* Every role of every account and city, granted before.
SeedGrants == [user : Account, role : Role, city : City, by : {NoRequest}]

Init ==
    /\ there = Seed
    /\ status = [i \in Issue |-> "open"] /\ officer = [i \in Issue |-> Nobody]
    /\ standing = [u \in Account |-> "active"] /\ stamped = {}
    /\ defaultCity = [u \in Account |-> Home[u]]
    /\ grants = SeedGrants /\ unread = Notice \cap Seed
    /\ events = {} /\ audit = {} /\ changed = {}
    /\ clock = 0 /\ began = [r \in Request |-> 0] /\ ended = [r \in Request |-> 0]
    /\ pc = [r \in Request |-> "idle"] /\ op \in Uses
    /\ found = [r \in Request |-> FALSE] /\ doomed = [r \in Request |-> {}]

ReadsFirst(o) ==
    \/ o.does \in {"createIssue", "addNeighborhood", "addModeratorComment", "upsert", "issuePhoto"}
    \/ o.does = "patchUser" /\ o.replaces

\* BEGIN and the SET LOCALs.
Begin(r) ==
    /\ pc[r] = "idle"
    /\ clock' = clock + 1 /\ began' = [began EXCEPT ![r] = clock + 1]
    /\ pc' = [pc EXCEPT ![r] = IF ReadsFirst(op[r]) THEN "read" ELSE "write"]
    /\ UNCHANGED <<rows, audit, changed, ended, op, found, doomed>>

RollBack(r) ==
    /\ pc' = [pc EXCEPT ![r] = "done"]
    /\ UNCHANGED <<rows, audit, changed, clock, began, ended, op, found, doomed>>

\* The methods of handlers that no caller gets through.
Barred ==
    {"createCity", "deactivateCity", "createRole", "patchKey", "deleteLocale",
     "invite", "revokeInvite"}

\* A missing row, a violated constraint or policy, a caller who may not, a
\* lost connection: the transaction is rolled back.
Throw(r) ==
    /\ pc[r] \in {"read", "write", "stored"} /\ op[r].does \notin Barred
    /\ RollBack(r)

\* Handlers that use the context of the request, or only its city.
ByTenant ==
    {"bulkChangeStatus", "bulkAssign", "updateSelf", "exportData", "deleteMe",
     "save", "remove", "markRead", "markAllRead", "issuePhoto"}
ByTenantCity ==
    {"patchUser", "suspend", "reinstate", "patchTopicCategory", "archiveTopicCategory", "patchIssueCategory",
     "createCity", "patchCity", "deactivateCity", "addArea", "addNeighborhood", "createRole", "patchRole",
     "deleteRole", "patchSettings", "patchKey", "createPoll", "patchPoll", "closePoll",
     "addModeratorComment", "invite", "revokeInvite"}

\* What the guard makes of the token: no token is of a super admin.
Token(user, city) == [city |-> city, user |-> user, super |-> FALSE]

\* Variant: headers that count without a city.
BuildTenantUngated(token, sent) ==
    IF sent.city = Global
    THEN [city |-> token.city, user |-> token.user, super |-> sent.super]
    ELSE sent

\* Without a valid X-City-Id the headers are ignored, and the token counts.
buildTenant(token, sent) == IF sent.city = Global THEN token ELSE sent

Context(o) ==
    LET token == Token(o.by, o.city) tenant == buildTenant(token, o.sent) IN
    IF o.does \in ByTenant THEN tenant
    ELSE IF o.does \in ByTenantCity THEN Token(o.by, tenant.city) ELSE token

\* The cities whose rows the policies let a context see and write.
CitiesOf(context) == IF context.super THEN City \cup {Global} ELSE {context.city}

Visible(o) == CitiesOf(Context(o))

CityOf(x) == IF x \in Account THEN defaultCity[x] ELSE Home[x]

\* What a statement may find by its id.
Matches(r, x) == x \in there /\ CityOf(x) \in Visible(op[r])

Hit(r, ids) == {x \in ids : Matches(r, x)}

At(r, method) == pc[r] = "write" /\ op[r].does = method

\* What commits together: the rows written, and the audit rows.
Commit(r, written, audited) ==
    /\ changed' = changed \cup {[by |-> r, on |-> x] : x \in written}
    /\ audit' = audit \cup {[by |-> r, on |-> x] : x \in audited}
    /\ clock' = clock + 1 /\ ended' = [ended EXCEPT ![r] = clock + 1]
    /\ pc' = [pc EXCEPT ![r] = "done"]
    /\ UNCHANGED <<began, op, found, doomed>>

\* UPDATE of a column that no property is about: audited, found or not.
Rewrite(r) ==
    /\ Commit(r, Hit(r, {op[r].on}), {op[r].on})
    /\ UNCHANGED rows

Created(r) ==
    /\ there' = there \cup {op[r].on}
    /\ UNCHANGED <<status, officer, standing, stamped, defaultCity, grants, unread>>

\* INSERT, under a new id, of a row with its city, which the policy checks.
Insert(r) ==
    /\ op[r].on \notin there /\ \A c \in changed : c.on # op[r].on
    /\ Home[op[r].on] \in Visible(op[r])
    /\ Created(r)

\* ... with the audit row, of the row itself.
InsertAudited(r) ==
    /\ Insert(r) /\ UNCHANGED events
    /\ Commit(r, {op[r].on}, {op[r].on})

-----------------------------------------------------------------------------
(* Issues.                                                                 *)

\* An event of each of the issues; its created_at is the begin of r.
Logged(r, ids, type, value) ==
    events' = events \cup {[on |-> i, type |-> type, value |-> value,
                            at |-> began[r], done |-> clock + 1, by |-> r] : i \in ids}

StatusSet(r, ids) ==
    /\ status' = [i \in Issue |-> IF i \in ids THEN op[r].status ELSE status[i]]
    /\ UNCHANGED <<there, officer, standing, stamped, defaultCity, grants, unread>>

OfficerSet(r, ids) ==
    /\ officer' = [i \in Issue |-> IF i \in ids THEN op[r].officer ELSE officer[i]]
    /\ UNCHANGED <<there, status, standing, stamped, defaultCity, grants, unread>>

\* The neighborhood of a new issue is found before the issue is inserted.
inferNeighborhood(r) ==
    /\ pc[r] = "read" /\ op[r].does = "createIssue"
    /\ pc' = [pc EXCEPT ![r] = "write"]
    /\ UNCHANGED <<rows, audit, changed, clock, began, ended, op, found, doomed>>

createIssue(r) ==
    /\ At(r, "createIssue")
    /\ Insert(r)
    /\ Logged(r, {op[r].on}, "created", Nobody)
    /\ Commit(r, {op[r].on}, {op[r].on})

changeStatus(r) ==
    /\ At(r, "changeStatus") /\ Matches(r, op[r].on)
    /\ StatusSet(r, {op[r].on})
    /\ Logged(r, {op[r].on}, "status_changed", op[r].status)
    /\ Commit(r, {op[r].on}, {op[r].on})

assign(r) ==
    /\ At(r, "assign") /\ Matches(r, op[r].on)
    /\ OfficerSet(r, {op[r].on})
    /\ Logged(r, {op[r].on}, "assigned", op[r].officer)
    /\ Commit(r, {op[r].on}, {op[r].on})

\* Variant: a bulk change that leaves the timeline alone.
BulkChangeStatusUnlogged(r) ==
    /\ At(r, "bulkChangeStatus")
    /\ LET hit == Hit(r, op[r].ids) IN
        /\ StatusSet(r, hit) /\ UNCHANGED events
        /\ Commit(r, hit, hit)

\* An id that is not found is passed over.
bulkChangeStatus(r) ==
    /\ At(r, "bulkChangeStatus")
    /\ LET hit == Hit(r, op[r].ids) IN
        /\ StatusSet(r, hit)
        /\ Logged(r, hit, "status_changed", op[r].status)
        /\ Commit(r, hit, hit)

bulkAssign(r) ==
    /\ At(r, "bulkAssign")
    /\ LET hit == Hit(r, op[r].ids) IN
        /\ OfficerSet(r, hit)
        /\ Logged(r, hit, "assigned", op[r].officer)
        /\ Commit(r, hit, hit)

-----------------------------------------------------------------------------
(* Accounts and roles.                                                     *)

\* Variant: a replacement that deletes only the roles it grants again.
DoomedListed(r) == {g \in grants : g.user = op[r].on /\ g.city = Context(op[r]).city /\ g.role \in op[r].roles}

\* The grants that the DELETE of patchUser finds.
Doomed(r) == {g \in grants : g.user = op[r].on /\ g.city = Context(op[r]).city}

deleteGrants(r) ==
    /\ pc[r] = "read" /\ op[r].does = "patchUser"
    /\ doomed' = [doomed EXCEPT ![r] = Doomed(r)]
    /\ pc' = [pc EXCEPT ![r] = "write"]
    /\ UNCHANGED <<rows, audit, changed, clock, began, ended, op, found>>

StandingSet(r, to) ==
    /\ standing' = [u \in Account |-> IF u \in Hit(r, {op[r].on}) THEN to ELSE standing[u]]
    /\ UNCHANGED <<there, status, officer, defaultCity, unread, events>>

\* No constraint keeps two requests from granting the same role.
patchUser(r) ==
    /\ At(r, "patchUser")
    /\ grants' = IF op[r].replaces
                 THEN (grants \ doomed[r])
                      \cup [user : {op[r].on}, role : op[r].roles, city : {Context(op[r]).city}, by : {r}]
                 ELSE grants
    /\ IF op[r].status = "keep"
       THEN /\ UNCHANGED <<there, status, officer, standing, defaultCity, unread, events>>
            /\ Commit(r, {}, {op[r].on})
       ELSE /\ StandingSet(r, op[r].status)
            /\ Commit(r, Hit(r, {op[r].on}), {op[r].on})
    /\ UNCHANGED stamped

StandingChanged(r, to) ==
    /\ StandingSet(r, to) /\ UNCHANGED grants
    /\ Commit(r, Hit(r, {op[r].on}), {op[r].on})

suspend(r) == At(r, "suspend") /\ StandingChanged(r, "suspended") /\ UNCHANGED stamped

reinstate(r) == At(r, "reinstate") /\ StandingChanged(r, "active") /\ UNCHANGED stamped

deleteMe(r) ==
    /\ At(r, "deleteMe")
    /\ StandingChanged(r, "deleted")
    /\ stamped' = stamped \cup Hit(r, {op[r].on})

\* The policy lets a row only stay in, or go to, a city that it lets see.
Move(r) ==
    /\ "city" \in op[r].sets => op[r].to \in Visible(op[r])
    /\ defaultCity' = IF "city" \in op[r].sets THEN [defaultCity EXCEPT ![op[r].on] = op[r].to] ELSE defaultCity
    /\ UNCHANGED <<there, status, officer, standing, stamped, grants, unread, events>>

\* Nothing to write: answered with the row, and no audit row.
updateSelf(r) ==
    /\ At(r, "updateSelf") /\ Matches(r, op[r].on)
    /\ IF op[r].sets = {} THEN Commit(r, {}, {}) /\ UNCHANGED rows
       ELSE Move(r) /\ Commit(r, {op[r].on}, {op[r].on})

\* The export is only recorded.
exportData(r) == At(r, "exportData") /\ Commit(r, {}, {op[r].on}) /\ UNCHANGED rows

-----------------------------------------------------------------------------
(* Topics, taxonomies, cities, settings, polls and comments.               *)

createTopic(r) == At(r, "createTopic") /\ InsertAudited(r)
addArea(r) == At(r, "addArea") /\ InsertAudited(r)
createPoll(r) == At(r, "createPoll") /\ InsertAudited(r)

\* Variant: an update that does not ask for the row.
UpdateTopicBlind(r) == At(r, "updateTopic") /\ Rewrite(r)

\* The UPDATE must return the row.
updateTopic(r) == At(r, "updateTopic") /\ Matches(r, op[r].on) /\ Rewrite(r)

deleteTopic(r) ==
    /\ At(r, "deleteTopic")
    /\ there' = there \ Hit(r, {op[r].on})
    /\ Commit(r, Hit(r, {op[r].on}), {op[r].on})
    /\ UNCHANGED <<status, officer, standing, stamped, defaultCity, grants, unread, events>>

patchTopicCategory(r) == At(r, "patchTopicCategory") /\ Rewrite(r)
archiveTopicCategory(r) == At(r, "archiveTopicCategory") /\ Rewrite(r)
patchIssueCategory(r) == At(r, "patchIssueCategory") /\ Rewrite(r)
patchCity(r) == At(r, "patchCity") /\ Rewrite(r)
patchRole(r) == At(r, "patchRole") /\ Rewrite(r)
deleteRole(r) == At(r, "deleteRole") /\ Rewrite(r)

\* That a poll opens and closes is in Participation, where votes read it.
patchPoll(r) == At(r, "patchPoll") /\ Rewrite(r)
closePoll(r) == At(r, "closePoll") /\ Rewrite(r)

\* The settings are of no city, so an INSERT of one fails.  A body without any
\* inserts none, and is audited.
patchSettings(r) ==
    /\ At(r, "patchSettings") /\ op[r].empty
    /\ Commit(r, {}, {op[r].on}) /\ UNCHANGED rows

\* Reserved to a super admin; an INSERT of a row of no city; a DELETE that must
\* find such a row; a table that does not exist.
createCity(r) == At(r, "createCity") /\ RollBack(r)
deactivateCity(r) == At(r, "deactivateCity") /\ RollBack(r)
createRole(r) == At(r, "createRole") /\ RollBack(r)
patchKey(r) == At(r, "patchKey") /\ RollBack(r)
deleteLocale(r) == At(r, "deleteLocale") /\ RollBack(r)
invite(r) == At(r, "invite") /\ RollBack(r)
revokeInvite(r) == At(r, "revokeInvite") /\ RollBack(r)

Selected(r, rowFound) ==
    /\ found' = [found EXCEPT ![r] = rowFound]
    /\ pc' = [pc EXCEPT ![r] = "write"]
    /\ UNCHANGED <<rows, audit, changed, clock, began, ended, op, doomed>>

\* Everyone may read the settings, where the translations are.
selectTranslations(r) ==
    /\ pc[r] = "read" /\ op[r].does = "upsert"
    /\ Selected(r, op[r].on \in there)

\* The settings are of no city: the UPDATE of a locale finds nothing, and the
\* INSERT of one fails.
upsert(r) == At(r, "upsert") /\ found[r] /\ Rewrite(r)

\* The area that a neighborhood, the idea that a comment is to be made under.
selectParent(r) ==
    /\ pc[r] = "read" /\ op[r].does \in {"addNeighborhood", "addModeratorComment"}
    /\ Selected(r, Matches(r, op[r].under))

addNeighborhood(r) == At(r, "addNeighborhood") /\ found[r] /\ InsertAudited(r)

addModeratorComment(r) ==
    /\ At(r, "addModeratorComment") /\ found[r]
    /\ Insert(r) /\ UNCHANGED events
    /\ Commit(r, {op[r].on}, {op[r].under})

-----------------------------------------------------------------------------
(* Bookmarks, the inbox and photos.                                        *)

\* saved_items has no policy, and an index that refuses a second bookmark.
save(r) ==
    /\ At(r, "save") /\ op[r].on \notin there /\ Owner[op[r].on] = op[r].by
    /\ Created(r) /\ UNCHANGED events
    /\ Commit(r, {op[r].on}, {op[r].on})

remove(r) ==
    /\ At(r, "remove")
    /\ LET hit == {x \in {op[r].on} \cap there : Owner[x] = op[r].by} IN
        /\ there' = there \ hit
        /\ Commit(r, hit, {op[r].on})
    /\ UNCHANGED <<status, officer, standing, stamped, defaultCity, grants, unread, events>>

Unread(r, ids) == {n \in Hit(r, ids) : n \in unread /\ Owner[n] = Context(op[r]).user}

ReadSet(r, ids) ==
    /\ unread' = unread \ ids
    /\ UNCHANGED <<there, status, officer, standing, stamped, defaultCity, grants, events>>

\* Not audited, by design.  A context of no user is an error in the UPDATE.
markRead(r) ==
    /\ At(r, "markRead") /\ Context(op[r]).user # Nobody
    /\ LET hit == Unread(r, {op[r].on}) IN ReadSet(r, hit) /\ Commit(r, hit, {})

\* The audit row names the user of the context.
markAllRead(r) ==
    /\ At(r, "markAllRead") /\ Context(op[r]).user # Nobody
    /\ LET hit == Unread(r, Notice) IN ReadSet(r, hit) /\ Commit(r, hit, {Context(op[r]).user})

\* The object is stored while the transaction is open, and not by it.
process(r) ==
    /\ pc[r] = "read" /\ op[r].does = "issuePhoto" /\ op[r].on \notin there
    /\ Created(r) /\ UNCHANGED events
    /\ changed' = changed \cup {[by |-> r, on |-> op[r].on]}
    /\ pc' = [pc EXCEPT ![r] = "stored"]
    /\ UNCHANGED <<audit, clock, began, ended, op, found, doomed>>

issuePhoto(r) ==
    /\ pc[r] = "stored"
    /\ Commit(r, {}, {op[r].on})
    /\ UNCHANGED rows

-----------------------------------------------------------------------------

IssuesController(r) == inferNeighborhood(r) \/ createIssue(r) \/ changeStatus(r) \/ assign(r)
AdminIssuesController(r) == bulkChangeStatus(r) \/ bulkAssign(r)
AdminUsersController(r) == deleteGrants(r) \/ patchUser(r) \/ suspend(r) \/ reinstate(r)
SelfController(r) == updateSelf(r) \/ exportData(r) \/ deleteMe(r)
TopicsController(r) == createTopic(r) \/ updateTopic(r) \/ deleteTopic(r)
AdminTaxonomiesController(r) == patchTopicCategory(r) \/ patchIssueCategory(r) \/ archiveTopicCategory(r)
AdminCitiesController(r) ==
    \/ createCity(r) \/ patchCity(r) \/ deactivateCity(r) \/ addArea(r)
    \/ selectParent(r) \/ addNeighborhood(r)
AdminRolesController(r) == createRole(r) \/ patchRole(r) \/ deleteRole(r)
AdminSettingsController(r) == patchSettings(r)
AdminI18nController(r) == patchKey(r)
I18nController(r) == selectTranslations(r) \/ upsert(r) \/ deleteLocale(r)
AdminPollsController(r) == createPoll(r) \/ patchPoll(r) \/ closePoll(r)
AdminIdeasController(r) == addModeratorComment(r)
AdminOfficersController(r) == invite(r) \/ revokeInvite(r)
SavedItemsController(r) == save(r) \/ remove(r)
NotificationsController(r) == markRead(r) \/ markAllRead(r)
UploadsController(r) == process(r) \/ issuePhoto(r)

Handler(r) ==
    \/ IssuesController(r) \/ AdminIssuesController(r)
    \/ AdminUsersController(r) \/ SelfController(r)
    \/ TopicsController(r) \/ AdminTaxonomiesController(r) \/ AdminCitiesController(r)
    \/ AdminRolesController(r) \/ AdminSettingsController(r)
    \/ AdminI18nController(r) \/ I18nController(r)
    \/ AdminPollsController(r) \/ AdminIdeasController(r) \/ AdminOfficersController(r)
    \/ SavedItemsController(r) \/ NotificationsController(r) \/ UploadsController(r)

Next == \E r \in Request : Begin(r) \/ Throw(r) \/ Handler(r)

Spec == Init /\ [][Next]_vars

-----------------------------------------------------------------------------

\* The cities that a request may write in: that of the token; where the
\* handler uses the headers, and they name a city, that one; and every city if
\* they say super admin besides.
Reach(o) ==
    {o.city} \cup
    (IF o.sent.city = Global \/ o.does \notin ByTenant \cup ByTenantCity THEN {}
     ELSE IF o.sent.super /\ o.does \in ByTenant THEN City \cup {Global} ELSE {o.sent.city})

\* Accounts whose default city the headers of a super admin changed.
Moved(x) ==
    \E m \in changed : /\ m.on = x /\ op[m.by].does = "updateSelf" /\ "city" \in op[m.by].sets
                       /\ op[m.by].sent.city # Global /\ op[m.by].sent.super

\* Tenant isolation, which nearly every handler leaves to the policies.  A
\* row that is written is of a city in its writer's reach, which headers
\* without a city do not widen, or it is the writer's own bookmark; an
\* account is written from elsewhere only after it was moved, which takes
\* the headers of a super admin; an issue's timeline is written from where
\* the issue is; and a role granted for a city is taken away by a
\* replacement for that city only.
TenantIsolation ==
    /\ \A c \in changed :
           IF c.on \in Saved THEN Owner[c.on] = op[c.by].by
           ELSE c.on \in Photo \/ Home[c.on] \in Reach(op[c.by]) \/ Moved(c.on)
    /\ \A e \in events : Home[e.on] \in Reach(op[e.by])
    /\ \A g \in SeedGrants \ grants :
           \E r \in Request : ended[r] > 0 /\ op[r].does = "patchUser" /\ g.city \in Reach(op[r])

\* Handlers that do not look at what their statement found, and those that
\* are audited though they write nothing themselves.
Blind ==
    {"patchUser", "suspend", "reinstate", "deleteMe", "deleteTopic", "patchTopicCategory",
     "archiveTopicCategory", "patchIssueCategory", "patchCity", "patchRole", "deleteRole",
     "patchPoll", "closePoll", "upsert", "remove"}

\* Why a request left an audit row and no change: its row was of a city that
\* its context does not see, was another user's, was not there, or was changed
\* by others.
Missed(r) ==
    /\ op[r].does \in Blind
    /\ \/ Home[op[r].on] \notin Visible(op[r]) \/ op[r].on \notin there
       \/ op[r].on \in Saved /\ Owner[op[r].on] # op[r].by
       \/ \E c \in changed : c.on = op[r].on

\* The audit log tells what was done: a change was audited by the request
\* that made it, but for the inbox and for a photo whose request failed after
\* storing it; and where an audit row has no change behind it, the policies
\* hid the row from the caller, or it was not there any more.
AuditExplained ==
    /\ \A c \in changed :
           \/ \E a \in audit : a.by = c.by
           \/ op[c.by].does = "markRead"
           \/ c.on \in Photo /\ ended[c.by] = 0
    /\ \A a \in audit :
           \/ \E c \in changed : c.by = a.by
           \/ op[a.by].does \in {"exportData", "markAllRead", "patchSettings"}
           \/ op[a.by].does = "patchUser" /\ op[a.by].status = "keep"
           \/ Missed(a.by)

\* The entry that an issue's timeline, ordered by created_at, shows last.
Shown(i, type) ==
    {e \in events : /\ e.on = i /\ e.type = type
                    /\ \A f \in events : f.on = i /\ f.type = type => f.at <= e.at}

\* The timeline of an issue ends in the status and the officer that it has.
\* Only a request that began before the one shown last, and committed after
\* it, can have set another: created_at is when the transaction began.
TimelineReplays ==
    \A i \in Issue :
        LET Agrees(type, value, initially) ==
                \/ Shown(i, type) = {} /\ value = initially
                \/ \E last \in Shown(i, type) :
                       \/ last.value = value
                       \/ \E e \in events : /\ e.on = i /\ e.type = type /\ e.value = value
                                            /\ e.at < last.at /\ last.done < e.done
        IN Agrees("status_changed", status[i], "open") /\ Agrees("assigned", officer[i], Nobody)

Replaced(q) == op[q].does = "patchUser" /\ op[q].replaces /\ ended[q] > 0

GrantedAt(g) == IF g.by = NoRequest THEN 0 ELSE ended[g.by]

\* patchUser replaces the roles of a user.  A role that another request
\* granted outlives a replacement only if the replacement began before that
\* request committed: two that overlap leave the union of their roles.  And
\* what a replacement granted stays until a later one.
ReplacementsExplained ==
    \A q \in Request : Replaced(q) =>
        /\ \A g \in grants :
               g.user = op[q].on /\ g.city = Context(op[q]).city /\ g.by # q => began[q] < GrantedAt(g)
        /\ \A role \in op[q].roles :
               \/ [user |-> op[q].on, role |-> role, city |-> Context(op[q]).city, by |-> q] \in grants
               \/ \E p \in Request : /\ Replaced(p) /\ ended[q] < ended[p]
                                      /\ op[p].on = op[q].on /\ Context(op[p]).city = Context(op[q]).city

=============================================================================
