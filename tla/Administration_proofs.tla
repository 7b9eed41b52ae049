------------------------ MODULE Administration_proofs ------------------------
(***************************************************************************)
(* No write crosses cities, the audit log and the timelines tell what was  *)
(* done, replacements of roles are explained, and no answer shows more     *)
(* than its reader may see: for any requests, cities, accounts and rows.   *)
(***************************************************************************)
EXTENDS Reading, WellFoundedInduction, TLAPS

-----------------------------------------------------------------------------
(* Operations.                                                             *)

OfIssues == {"createIssue", "changeStatus", "assign"}
OfAccounts ==
    {"patchUser", "suspend", "reinstate", "updateSelf", "deleteMe", "exportData", "markAllRead"}
OfParents == {"addNeighborhood", "addModeratorComment"}
OfPlain ==
    {"createTopic", "updateTopic", "deleteTopic", "patchTopicCategory", "archiveTopicCategory",
     "patchIssueCategory", "patchCity", "addArea", "patchRole", "deleteRole", "upsert",
     "createPoll", "patchPoll", "closePoll", "patchSettings"}

\* The target of an operation is of the kind its method works on.
OnItsKind(o) ==
    /\ o.by \in Account /\ o.city \in City /\ o.sent \in Header
    /\ o.does \in OfIssues => o.on \in Issue
    /\ o.does = "changeStatus" => o.status \in Status
    /\ o.does = "assign" => o.officer \in Account
    /\ o.does \in {"bulkChangeStatus", "bulkAssign"} => o.ids \subseteq Issue
    /\ o.does = "bulkChangeStatus" => o.status \in Status
    /\ o.does = "bulkAssign" => o.officer \in Account
    /\ o.does \in OfAccounts => o.on \in Account
    /\ o.does = "updateSelf" => o.to \in City
    /\ o.does = "patchUser" =>
        o.replaces \in BOOLEAN /\ o.roles \subseteq Role /\ o.status \in Standing \cup {"keep"}
    /\ o.does \in OfPlain \cup OfParents => o.on \in Plain
    /\ o.does \in OfParents => o.under \in Plain
    /\ o.does \in {"save", "remove"} => o.on \in Saved
    /\ o.does = "markRead" => o.on \in Notice
    /\ o.does = "issuePhoto" => o.on \in Photo

LEMMA Targets == ASSUME NEW o \in Operation PROVE OnItsKind(o)
<1> USE DEF OnItsKind, OfIssues, OfAccounts, OfParents, OfPlain, Call
<1>1. CASE o \in IssueBody
  BY <1>1 DEF IssueBody
<1>2. CASE o \in AdminIssueBulkStatus \cup AdminIssueBulkAssign
  BY <1>2 DEF AdminIssueBulkStatus, AdminIssueBulkAssign
<1>3. CASE o \in UserPatch \cup UpdateProfileBody \cup Call({"deleteMe", "exportData", "markAllRead"}, Account)
  BY <1>3 DEF UserPatch, UpdateProfileBody
<1>4. CASE o \in TopicBody \cup CategoryPatch \cup CityBody
  BY <1>4 DEF TopicBody, CategoryPatch, CityBody
<1>5. CASE o \in RoleBody \cup SettingsBody \cup TranslationBody \cup KeyBody
  BY <1>5 DEF RoleBody, SettingsBody, TranslationBody, KeyBody
<1>6. CASE o \in AdminPollBody \cup ModeratorCommentBody \cup InviteBody
  BY <1>6 DEF AdminPollBody, ModeratorCommentBody, InviteBody
<1>7. CASE o \in SaveItemBody \cup NotificationIdParam \cup Call({"issuePhoto"}, Photo)
  BY <1>7 DEF SaveItemBody, NotificationIdParam
<1> QED
  BY <1>1, <1>2, <1>3, <1>4, <1>5, <1>6, <1>7 DEF Operation

\* What the policies let a request see is in its reach.
LEMMA Contexts ==
    ASSUME NEW o, OnItsKind(o)
    PROVE  /\ Context(o).city \in City /\ Context(o).user \in Account \cup {Nobody}
           /\ Context(o).super => o.sent.city # Global /\ o.sent.super
           /\ Context(o).city \in Reach(o) /\ Visible(o) \subseteq Reach(o)
<1>1. /\ o.by \in Account /\ o.city \in City
      /\ o.sent.city \in City \cup {Global} /\ o.sent.user \in Account \cup {Nobody}
  BY DEF OnItsKind, Header
<1>2. CASE o.sent.city = Global
  BY <1>1, <1>2 DEF Context, buildTenant, Token, Reach, Visible, CitiesOf
<1>3. CASE o.sent.city # Global
  BY <1>1, <1>3 DEF Context, buildTenant, Token, Reach, Visible, CitiesOf
<1> QED
  BY <1>2, <1>3

-----------------------------------------------------------------------------
(* What a step does.                                                       *)

RowsTyped ==
    /\ there \subseteq Row
    /\ status \in [Issue -> Status] /\ officer \in [Issue -> Account \cup {Nobody}]
    /\ standing \in [Account -> Standing] /\ stamped \subseteq Account
    /\ defaultCity \in [Account -> City \cup {Global}]
    /\ grants \subseteq Grant /\ unread \subseteq Notice /\ events \subseteq Event

\* Entries for issues of the caller's city.
Told(r, ids, type, value) ==
    /\ ids \subseteq Issue /\ \A i \in ids : Home[i] \in Visible(op[r])
    /\ Logged(r, ids, type, value)

\* The timeline goes with the issues.
TimelineKept(r) ==
    \/ UNCHANGED <<status, officer, events>>
    \/ Told(r, {op[r].on}, "created", Nobody) /\ UNCHANGED <<status, officer>>
    \/ \E ids \in SUBSET Issue :
        /\ Told(r, ids, "status_changed", op[r].status)
        /\ status' = [i \in Issue |-> IF i \in ids THEN op[r].status ELSE status[i]]
        /\ officer' = officer
    \/ \E ids \in SUBSET Issue :
        /\ Told(r, ids, "assigned", op[r].officer)
        /\ officer' = [i \in Issue |-> IF i \in ids THEN op[r].officer ELSE officer[i]]
        /\ status' = status

Replaces(r) == op[r].does = "patchUser" /\ op[r].replaces

NewGrants(r) == [user : {op[r].on}, role : op[r].roles, city : {Context(op[r]).city}, by : {r}]

\* The row is not there, or the policies hide it.
Hidden(r) ==
    op[r].does \in Blind /\ (op[r].on \notin there \/ CityOf(op[r].on) \notin Visible(op[r]))

\* A row that is written is the caller's or of a city that the caller sees, and
\* a change is audited and an audit row explained, with the exceptions there are.
Accounted(r, written, audited) ==
    /\ \A x \in written : IF x \in Saved THEN Owner[x] = op[r].by ELSE CityOf(x) \in Visible(op[r])
    /\ written # {} \/ op[r].does = "issuePhoto" => audited # {} \/ op[r].does = "markRead"
    /\ \/ audited = {} \/ written # {} \/ pc[r] = "stored"
       \/ op[r].does \in {"exportData", "markAllRead", "patchSettings"}
       \/ op[r].does = "patchUser" /\ op[r].status = "keep"
       \/ Missed(r) \/ Hidden(r)

\* Only an update of one's own account moves it to another city.
Relocates(r) ==
    \/ defaultCity' = defaultCity
    \/ /\ op[r].does = "updateSelf" /\ "city" \in op[r].sets /\ op[r].on \in Account
       /\ op[r].sent.city # Global /\ op[r].sent.super
       /\ defaultCity' = [defaultCity EXCEPT ![op[r].on] = op[r].to]
       /\ [by |-> r, on |-> op[r].on] \in changed'

\* A handler that commits.
Writes(r) ==
    \E written, audited \in SUBSET Row :
        /\ Commit(r, written, audited)
        /\ Accounted(r, written, audited)
        /\ there' \subseteq there \cup written

Committed(r) ==
    /\ \/ pc[r] = "write"
       \/ pc[r] = "stored" /\ op[r].does = "issuePhoto"
    /\ Writes(r)
    /\ TimelineKept(r) /\ Relocates(r)
    /\ grants' = IF Replaces(r) THEN (grants \ doomed[r]) \cup NewGrants(r) ELSE grants
    /\ RowsTyped'

\* A handler that reads, or rolls back.
Waited(r) ==
    /\ UNCHANGED <<rows, audit, changed, clock, began, ended, op>>
    /\ pc[r] \in {"read", "write", "stored"}
    /\ found' \in [Request -> BOOLEAN]
    /\ \/ /\ pc[r] = "read" /\ pc' = [pc EXCEPT ![r] = "write"]
          /\ doomed' = IF op[r].does = "patchUser" THEN [doomed EXCEPT ![r] = Doomed(r)] ELSE doomed
       \/ pc' = [pc EXCEPT ![r] = "done"] /\ UNCHANGED doomed

LEMMA OnKind == ASSUME TypeOK, NEW r \in Request PROVE OnItsKind(op[r])
BY Targets DEF TypeOK

LEMMA WritesThese ==
    ASSUME NEW r \in Request, NEW written \in SUBSET Row, NEW audited \in SUBSET Row,
           Commit(r, written, audited), Accounted(r, written, audited), there' \subseteq there \cup written
    PROVE  Writes(r)
BY DEF Writes, Commit, Accounted

\* The write of a row that is there, or that the policies hide.
LEMMA Rewrites ==
    ASSUME TypeOK, NEW r \in Request, pc[r] = "write", Rewrite(r), op[r].on \in Account \cup Plain,
           op[r].does \in Blind \cup {"updateTopic"}, op[r].does # "patchUser",
           op[r].does \in Blind \/ Matches(r, op[r].on)
    PROVE  Committed(r)
<1> DEFINE x == op[r].on
           hit == Hit(r, {x})
<1>1. x \in Row /\ x \notin Saved /\ hit \in SUBSET Row /\ {x} \in SUBSET Row
  BY OwnedAssumption DEF Row, Hit
<1>2. Accounted(r, hit, {x})
  <2>1. hit = {} => Hidden(r)
    BY DEF Hit, Matches, Hidden
  <2>2. \A y \in hit : y = x /\ CityOf(y) \in Visible(op[r])
    BY DEF Hit, Matches
  <2> QED
    BY <1>1, <2>1, <2>2 DEF Accounted
<1>3. Commit(r, hit, {x}) /\ UNCHANGED rows
  BY DEF Rewrite
<1>4. TimelineKept(r) /\ Relocates(r) /\ RowsTyped' /\ ~Replaces(r) /\ there' = there /\ grants' = grants
  BY <1>3 DEF rows, TypeOK, RowsTyped, TimelineKept, Relocates, Replaces
<1>5. Writes(r)
  BY <1>1, <1>2, <1>3, <1>4, WritesThese
<1> QED
  <2> HIDE DEF x, hit
  <2> QED
    BY <1>4, <1>5 DEF Committed

\* The INSERT of a row, with an audit row of it or of its parent.
LEMMA Inserts ==
    ASSUME TypeOK, NEW r \in Request, pc[r] = "write", Insert(r), op[r].on \in Issue \cup Plain,
           NEW y \in Row, Commit(r, {op[r].on}, {y}), op[r].does # "patchUser",
           UNCHANGED events \/ (op[r].on \in Issue /\ Logged(r, {op[r].on}, "created", Nobody))
    PROVE  Committed(r)
<1>1. /\ op[r].on \in Row /\ op[r].on \notin Saved
      /\ Home[op[r].on] \in Visible(op[r]) /\ CityOf(op[r].on) = Home[op[r].on]
  BY OwnedAssumption DEF Row, Insert, CityOf
<1>2. Accounted(r, {op[r].on}, {y})
  BY <1>1 DEF Accounted
<1>3. /\ there' = there \cup {op[r].on}
      /\ UNCHANGED <<status, officer, standing, stamped, defaultCity, grants, unread>>
  BY DEF Insert, Created
<1>4. TimelineKept(r) /\ Relocates(r)
  BY <1>1, <1>3 DEF TimelineKept, Told, Relocates
<1>5. events' \subseteq Event
  BY <1>1 DEF TypeOK, Logged, Event
<1>6. RowsTyped' /\ ~Replaces(r)
  BY <1>1, <1>3, <1>5 DEF TypeOK, RowsTyped, Replaces
<1>7. Writes(r)
  BY <1>1, <1>2, <1>3, WritesThese
<1> QED
  BY <1>3, <1>4, <1>6, <1>7 DEF Committed

\* A change of issues of the caller's city, with their timelines.
LEMMA Sets ==
    ASSUME TypeOK, NEW r \in Request, pc[r] = "write", NEW ids \in SUBSET Issue,
           \A i \in ids : Home[i] \in Visible(op[r]), Commit(r, ids, ids),
           op[r].does \in {"changeStatus", "bulkChangeStatus", "assign", "bulkAssign"},
           \/ /\ op[r].status \in Status
              /\ StatusSet(r, ids) /\ Logged(r, ids, "status_changed", op[r].status)
           \/ /\ op[r].officer \in Account
              /\ OfficerSet(r, ids) /\ Logged(r, ids, "assigned", op[r].officer)
    PROVE  Committed(r)
<1>1. ids \in SUBSET Row /\ ids \cap Saved = {}
  BY OwnedAssumption DEF Row
<1>2. Accounted(r, ids, ids)
  <2>1. \A i \in ids : CityOf(i) = Home[i]
    BY OwnedAssumption DEF CityOf
  <2> QED
    BY <1>1, <2>1 DEF Accounted
<1>3. TimelineKept(r) /\ Relocates(r)
  BY DEF TimelineKept, Told, StatusSet, OfficerSet, Relocates
<1>4. events' \subseteq Event
  BY DEF TypeOK, Logged, Event
<1>5. there' = there /\ grants' = grants /\ RowsTyped' /\ ~Replaces(r)
  BY <1>4 DEF TypeOK, RowsTyped, Replaces, StatusSet, OfficerSet
<1>6. Writes(r)
  BY <1>1, <1>2, <1>5, WritesThese
<1> QED
  BY <1>3, <1>5, <1>6 DEF Committed

\* A change of an account's standing.
LEMMA Stands ==
    ASSUME TypeOK, NEW r \in Request, pc[r] = "write", NEW to \in Standing, op[r].on \in Account,
           op[r].does \in {"suspend", "reinstate", "deleteMe"},
           StandingChanged(r, to), stamped' \subseteq Account
    PROVE  Committed(r)
<1> DEFINE x == op[r].on
           hit == Hit(r, {x})
<1>1. x \in Row /\ x \notin Saved /\ hit \in SUBSET Row /\ {x} \in SUBSET Row
  BY OwnedAssumption DEF Row, Hit
<1>2. Accounted(r, hit, {x})
  <2>1. hit = {} => Hidden(r)
    BY DEF Hit, Matches, Hidden, Blind
  <2>2. \A y \in hit : y = x /\ CityOf(y) \in Visible(op[r])
    BY DEF Hit, Matches
  <2> QED
    BY <1>1, <2>1, <2>2 DEF Accounted
<1>3. Commit(r, hit, {x})
  BY DEF StandingChanged
<1>4. /\ UNCHANGED <<there, status, officer, defaultCity, unread, events, grants>>
      /\ standing' \in [Account -> Standing]
  BY DEF StandingChanged, StandingSet, TypeOK
<1>5. TimelineKept(r) /\ Relocates(r) /\ RowsTyped' /\ ~Replaces(r)
  BY <1>4 DEF TypeOK, RowsTyped, TimelineKept, Relocates, Replaces
<1>6. Writes(r)
  BY <1>1, <1>2, <1>3, <1>4, WritesThese
<1> QED
  <2> HIDE DEF x, hit
  <2> QED
    BY <1>4, <1>5, <1>6 DEF Committed

LEMMA PatchesUser == ASSUME TypeOK, NEW r \in Request, patchUser(r) PROVE Committed(r)
<1> DEFINE x == op[r].on
           hit == IF op[r].status = "keep" THEN {} ELSE Hit(r, {x})
<1>1. /\ pc[r] = "write" /\ op[r].does = "patchUser" /\ OnItsKind(op[r])
      /\ x \in Account /\ op[r].roles \subseteq Role /\ Context(op[r]).city \in City
      /\ op[r].status \in Standing \cup {"keep"}
  BY OnKind, Contexts DEF patchUser, At, OnItsKind, OfAccounts
<1>2. x \in Row /\ x \notin Saved /\ hit \in SUBSET Row /\ {x} \in SUBSET Row
  BY <1>1, OwnedAssumption DEF Row, Hit
<1>3. Accounted(r, hit, {x})
  <2>1. hit = {} => op[r].status = "keep" \/ Hidden(r)
    BY <1>1 DEF Hit, Matches, Hidden, Blind
  <2>2. \A y \in hit : y = x /\ CityOf(y) \in Visible(op[r])
    BY DEF Hit, Matches
  <2> QED
    BY <1>1, <1>2, <2>1, <2>2 DEF Accounted
<1>4. Commit(r, hit, {x})
  BY DEF patchUser
<1>5. /\ UNCHANGED <<there, status, officer, defaultCity, unread, events, stamped>>
      /\ standing' \in [Account -> Standing]
  BY <1>1 DEF patchUser, StandingSet, TypeOK
<1>6. grants' = IF Replaces(r) THEN (grants \ doomed[r]) \cup NewGrants(r) ELSE grants
  BY <1>1 DEF patchUser, Replaces, NewGrants
<1>7. grants' \subseteq Grant
  BY <1>1, <1>6 DEF TypeOK, NewGrants, Grant
<1>8. TimelineKept(r) /\ Relocates(r) /\ RowsTyped'
  BY <1>5, <1>7 DEF TypeOK, RowsTyped, TimelineKept, Relocates
<1>9. Writes(r)
  BY <1>2, <1>3, <1>4, <1>5, WritesThese
<1> QED
  <2> HIDE DEF x, hit
  <2> QED
    BY <1>1, <1>6, <1>8, <1>9 DEF Committed

\* What is deleted, or read: rows of the caller's city, or the caller's.
LEMMA Removes ==
    ASSUME TypeOK, NEW r \in Request, pc[r] = "write", NEW hit \in SUBSET Row, NEW audited \in SUBSET Row,
           Commit(r, hit, audited), Accounted(r, hit, audited), op[r].does # "patchUser",
           there' \subseteq there, unread' \subseteq unread,
           UNCHANGED <<status, officer, standing, stamped, defaultCity, grants, events>>
    PROVE  Committed(r)
<1>1. TimelineKept(r) /\ Relocates(r) /\ RowsTyped' /\ ~Replaces(r)
  BY DEF TypeOK, RowsTyped, TimelineKept, Relocates, Replaces
<1>2. Writes(r)
  BY WritesThese
<1> QED
  BY <1>1, <1>2 DEF Committed

LEMMA IssueStep ==
    ASSUME TypeOK, NEW r \in Request, IssuesController(r) \/ AdminIssuesController(r)
    PROVE  Waited(r) \/ Committed(r)
<1>0. OnItsKind(op[r])
  BY OnKind
<1>1. CASE inferNeighborhood(r)
  BY <1>1 DEF inferNeighborhood, Waited, TypeOK
<1>2. CASE createIssue(r)
  <2>1. pc[r] = "write" /\ op[r].does = "createIssue" /\ op[r].on \in Issue /\ op[r].on \in Row
    BY <1>0, <1>2 DEF createIssue, At, OnItsKind, OfIssues, Row
  <2> QED
    BY <1>2, <2>1, Inserts DEF createIssue
<1>3. CASE changeStatus(r)
  <2>1. /\ pc[r] = "write" /\ op[r].does = "changeStatus" /\ op[r].on \in Issue
        /\ op[r].status \in Status /\ Home[op[r].on] \in Visible(op[r])
    BY <1>0, <1>3, OwnedAssumption DEF changeStatus, At, OnItsKind, OfIssues, Matches, CityOf
  <2>2. {op[r].on} \in SUBSET Issue
    BY <2>1
  <2> QED
    BY <1>3, <2>1, <2>2, Sets DEF changeStatus
<1>4. CASE assign(r)
  <2>1. /\ pc[r] = "write" /\ op[r].does = "assign" /\ op[r].on \in Issue
        /\ op[r].officer \in Account /\ Home[op[r].on] \in Visible(op[r])
    BY <1>0, <1>4, OwnedAssumption DEF assign, At, OnItsKind, OfIssues, Matches, CityOf
  <2>2. {op[r].on} \in SUBSET Issue
    BY <2>1
  <2> QED
    BY <1>4, <2>1, <2>2, Sets DEF assign
<1>5. CASE bulkChangeStatus(r)
  <2> PICK hit : hit = Hit(r, op[r].ids)
    OBVIOUS
  <2>1. /\ pc[r] = "write" /\ op[r].does = "bulkChangeStatus" /\ op[r].ids \subseteq Issue
        /\ op[r].status \in Status
    BY <1>0, <1>5 DEF bulkChangeStatus, At, OnItsKind
  <2>2. hit \in SUBSET Issue /\ \A i \in hit : Home[i] \in Visible(op[r])
    BY <2>1, OwnedAssumption DEF Hit, Matches, CityOf
  <2> QED
    BY <1>5, <2>1, <2>2, Sets DEF bulkChangeStatus
<1>6. CASE bulkAssign(r)
  <2> PICK hit : hit = Hit(r, op[r].ids)
    OBVIOUS
  <2>1. /\ pc[r] = "write" /\ op[r].does = "bulkAssign" /\ op[r].ids \subseteq Issue
        /\ op[r].officer \in Account
    BY <1>0, <1>6 DEF bulkAssign, At, OnItsKind
  <2>2. hit \in SUBSET Issue /\ \A i \in hit : Home[i] \in Visible(op[r])
    BY <2>1, OwnedAssumption DEF Hit, Matches, CityOf
  <2> QED
    BY <1>6, <2>1, <2>2, Sets DEF bulkAssign
<1> QED
  BY <1>1, <1>2, <1>3, <1>4, <1>5, <1>6 DEF IssuesController, AdminIssuesController

LEMMA AccountStep ==
    ASSUME TypeOK, NEW r \in Request, AdminUsersController(r) \/ SelfController(r)
    PROVE  Waited(r) \/ Committed(r)
<1>0. OnItsKind(op[r])
  BY OnKind
<1>1. CASE deleteGrants(r)
  BY <1>1 DEF deleteGrants, Waited, TypeOK
<1>2. CASE patchUser(r)
  BY <1>2, PatchesUser
<1>3. CASE suspend(r)
  BY <1>0, <1>3, Stands DEF suspend, At, OnItsKind, OfAccounts, TypeOK, Standing
<1>4. CASE reinstate(r)
  BY <1>0, <1>4, Stands DEF reinstate, At, OnItsKind, OfAccounts, TypeOK, Standing
<1>5. CASE deleteMe(r)
  <2>1. pc[r] = "write" /\ op[r].does = "deleteMe" /\ op[r].on \in Account /\ "deleted" \in Standing
    BY <1>0, <1>5 DEF deleteMe, At, OnItsKind, OfAccounts, Standing
  <2>2. stamped' \subseteq Account
    BY <1>5, <2>1 DEF deleteMe, Hit, TypeOK
  <2> QED
    BY <1>5, <2>1, <2>2, Stands DEF deleteMe
<1>6. CASE updateSelf(r)
  <2> PICK x : x = op[r].on
    OBVIOUS
  <2>1. /\ pc[r] = "write" /\ op[r].does = "updateSelf" /\ x \in Account /\ x \in Row /\ x \notin Saved
        /\ CityOf(x) \in Visible(op[r]) /\ op[r].to \in City
    BY <1>0, <1>6, OwnedAssumption DEF updateSelf, At, OnItsKind, OfAccounts, Matches, Row
  <2>2. CASE Move(r) /\ Commit(r, {x}, {x})
    <3>1. Accounted(r, {x}, {x}) /\ {x} \in SUBSET Row
      BY <2>1 DEF Accounted
    <3>2. /\ "city" \in op[r].sets => op[r].to \in Visible(op[r])
          /\ defaultCity' = IF "city" \in op[r].sets THEN [defaultCity EXCEPT ![x] = op[r].to] ELSE defaultCity
          /\ UNCHANGED <<there, status, officer, standing, stamped, grants, unread, events>>
      BY <2>2 DEF Move
    <3>3. Relocates(r)
      <4>1. CASE Context(op[r]).super
        <5>1. op[r].sent.city # Global /\ op[r].sent.super
          BY <1>0, <4>1, Contexts
        <5>2. [by |-> r, on |-> x] \in changed'
          BY <2>2 DEF Commit
        <5> QED
          BY <2>1, <3>2, <5>1, <5>2 DEF Relocates
      <4>2. CASE ~Context(op[r]).super
        <5>1. \A c \in Visible(op[r]) : c = Context(op[r]).city
          BY <4>2 DEF Visible, CitiesOf
        <5>2. "city" \in op[r].sets => op[r].to = defaultCity[x]
          BY <2>1, <3>2, <5>1 DEF CityOf
        <5>3. defaultCity' = defaultCity
          BY <2>1, <3>2, <5>2 DEF TypeOK
        <5> QED
          BY <5>3 DEF Relocates
      <4> QED
        BY <4>1, <4>2
    <3>4. TimelineKept(r) /\ ~Replaces(r) /\ RowsTyped'
      BY <2>1, <3>2 DEF TypeOK, RowsTyped, TimelineKept, Replaces
    <3>5. Writes(r)
      BY <2>2, <3>1, <3>2, WritesThese
    <3> QED
      BY <2>1, <3>2, <3>3, <3>4, <3>5 DEF Committed
  <2>3. CASE Commit(r, {}, {}) /\ UNCHANGED rows
    <3>1. Accounted(r, {}, {})
      BY <2>1 DEF Accounted
    <3> QED
      BY <2>1, <2>3, <3>1, Removes DEF rows
  <2> QED
    BY <1>6, <2>2, <2>3 DEF updateSelf
<1>7. CASE exportData(r)
  <2>1. pc[r] = "write" /\ op[r].does = "exportData" /\ {op[r].on} \in SUBSET Row
    BY <1>0, <1>7 DEF exportData, At, OnItsKind, OfAccounts, Row
  <2>2. Accounted(r, {}, {op[r].on})
    BY <2>1 DEF Accounted
  <2> QED
    BY <1>7, <2>1, <2>2, Removes DEF exportData, rows
<1> QED
  BY <1>1, <1>2, <1>3, <1>4, <1>5, <1>6, <1>7 DEF AdminUsersController, SelfController

\* An UPDATE that is audited, found or not.
BlindUpdates ==
    {"patchTopicCategory", "archiveTopicCategory", "patchIssueCategory", "patchCity", "patchRole",
     "deleteRole", "patchPoll", "closePoll", "upsert"}

LEMMA PlainStep ==
    ASSUME TypeOK, NEW r \in Request,
           \/ TopicsController(r) \/ AdminTaxonomiesController(r) \/ AdminCitiesController(r)
           \/ AdminRolesController(r) \/ AdminSettingsController(r)
           \/ AdminI18nController(r) \/ I18nController(r)
           \/ AdminPollsController(r) \/ AdminIdeasController(r) \/ AdminOfficersController(r)
    PROVE  Waited(r) \/ Committed(r)
<1>0. OnItsKind(op[r])
  BY OnKind
<1>1. CASE /\ pc[r] = "write" /\ op[r].does \in BlindUpdates /\ Rewrite(r)
  <2>1. op[r].on \in Plain /\ op[r].does \in Blind /\ op[r].does # "patchUser"
    BY <1>0, <1>1 DEF OnItsKind, OfPlain, BlindUpdates, Blind
  <2> QED
    BY <1>1, <2>1, Rewrites
<1>2. CASE updateTopic(r)
  <2>1. /\ pc[r] = "write" /\ op[r].does = "updateTopic" /\ op[r].on \in Plain
        /\ Matches(r, op[r].on) /\ Rewrite(r)
    BY <1>0, <1>2 DEF updateTopic, At, OnItsKind, OfPlain
  <2> QED
    BY <2>1, Rewrites
<1>3. CASE /\ pc[r] = "write" /\ op[r].does \in {"createTopic", "addArea", "createPoll", "addNeighborhood"}
           /\ InsertAudited(r)
  <2>1. op[r].on \in Plain /\ op[r].on \in Row /\ op[r].does # "patchUser"
    BY <1>0, <1>3 DEF OnItsKind, OfPlain, OfParents, Row
  <2> QED
    BY <1>3, <2>1, Inserts DEF InsertAudited
<1>4. CASE addModeratorComment(r)
  <2>1. /\ pc[r] = "write" /\ op[r].does = "addModeratorComment" /\ op[r].on \in Plain
        /\ op[r].under \in Row
    BY <1>0, <1>4 DEF addModeratorComment, At, OnItsKind, OfParents, Row
  <2> QED
    BY <1>4, <2>1, Inserts DEF addModeratorComment
<1>5. CASE deleteTopic(r)
  <2> PICK x, hit : x = op[r].on /\ hit = Hit(r, {x})
    OBVIOUS
  <2>1. pc[r] = "write" /\ op[r].does = "deleteTopic" /\ x \in Plain /\ x \in Row /\ x \notin Saved
    BY <1>0, <1>5, OwnedAssumption DEF deleteTopic, At, OnItsKind, OfPlain, Row
  <2>2. hit \in SUBSET Row /\ {x} \in SUBSET Row
    BY <2>1 DEF Hit
  <2>3. Accounted(r, hit, {x})
    <3>1. hit = {} => Hidden(r)
      BY <2>1 DEF Hit, Matches, Hidden, Blind
    <3>2. \A y \in hit : y = x /\ CityOf(y) \in Visible(op[r])
      BY DEF Hit, Matches
    <3> QED
      BY <2>1, <3>1, <3>2 DEF Accounted
  <2>4. /\ Commit(r, hit, {x}) /\ there' = there \ hit
        /\ UNCHANGED <<status, officer, standing, stamped, defaultCity, grants, unread, events>>
    BY <1>5 DEF deleteTopic
  <2> QED
    BY <2>1, <2>2, <2>3, <2>4, Removes
<1>6. CASE RollBack(r) /\ pc[r] = "write"
  BY <1>6 DEF RollBack, Waited, TypeOK
<1>8. CASE patchSettings(r)
  <2>1. pc[r] = "write" /\ op[r].does = "patchSettings" /\ {op[r].on} \in SUBSET Row
    BY <1>0, <1>8 DEF patchSettings, At, OnItsKind, OfPlain, Row
  <2>2. Accounted(r, {}, {op[r].on})
    BY <2>1 DEF Accounted
  <2> QED
    BY <1>8, <2>1, <2>2, Removes DEF patchSettings, rows
<1>7. CASE selectTranslations(r) \/ selectParent(r)
  <2>1. /\ pc[r] = "read" /\ op[r].does # "patchUser"
        /\ pc' = [pc EXCEPT ![r] = "write"] /\ UNCHANGED doomed
        /\ UNCHANGED <<rows, audit, changed, clock, began, ended, op>>
    BY <1>7 DEF selectTranslations, selectParent, Selected
  <2>2. found' \in [Request -> BOOLEAN]
    <3>1. PICK b \in BOOLEAN : found' = [found EXCEPT ![r] = b]
      <4>1. CASE selectTranslations(r)
        <5>1. (op[r].on \in there) \in BOOLEAN
          OBVIOUS
        <5> QED
          BY <4>1, <5>1 DEF selectTranslations, Selected
      <4>2. CASE selectParent(r)
        <5>1. Matches(r, op[r].under) \in BOOLEAN
          BY DEF Matches
        <5> QED
          BY <4>2, <5>1 DEF selectParent, Selected
      <4> QED
        BY <1>7, <4>1, <4>2
    <3> QED
      BY <3>1 DEF TypeOK
  <2> QED
    BY <2>1, <2>2 DEF Waited
<1> QED
  BY <1>1, <1>2, <1>3, <1>4, <1>5, <1>6, <1>7, <1>8
  DEF At, BlindUpdates, TopicsController, createTopic,
      AdminTaxonomiesController, patchTopicCategory, archiveTopicCategory, patchIssueCategory,
      AdminCitiesController, createCity, patchCity, deactivateCity, addArea, addNeighborhood,
      AdminRolesController, createRole, patchRole, deleteRole, AdminSettingsController,
      AdminI18nController, patchKey, I18nController, upsert, deleteLocale,
      AdminPollsController, createPoll, patchPoll, closePoll, AdminIdeasController,
      AdminOfficersController, invite, revokeInvite

LEMMA OwnStep ==
    ASSUME TypeOK, NEW r \in Request, pc[r] = "stored" => op[r].does = "issuePhoto",
           SavedItemsController(r) \/ NotificationsController(r) \/ UploadsController(r)
    PROVE  Committed(r) \/ process(r)
<1>0. OnItsKind(op[r])
  BY OnKind
<1> PICK x : x = op[r].on
  OBVIOUS
<1>1. CASE save(r)
  <2>1. /\ pc[r] = "write" /\ op[r].does = "save" /\ x \in Saved /\ {x} \in SUBSET Row
        /\ Owner[x] = op[r].by
    BY <1>0, <1>1 DEF save, At, OnItsKind, Row
  <2>2. Accounted(r, {x}, {x})
    BY <2>1 DEF Accounted
  <2>3. Commit(r, {x}, {x}) /\ there' = there \cup {x}
        /\ UNCHANGED <<status, officer, standing, stamped, defaultCity, grants, unread, events>>
    BY <1>1 DEF save, Created
  <2>4. Writes(r)
    BY <2>1, <2>2, <2>3, WritesThese
  <2>5. TimelineKept(r) /\ Relocates(r) /\ RowsTyped' /\ ~Replaces(r)
    BY <2>1, <2>3 DEF TypeOK, RowsTyped, TimelineKept, Relocates, Replaces
  <2> QED
    BY <2>1, <2>3, <2>4, <2>5 DEF Committed
<1>2. CASE remove(r)
  <2> PICK hit : hit = {y \in {x} \cap there : Owner[y] = op[r].by}
    OBVIOUS
  <2>1. pc[r] = "write" /\ op[r].does = "remove" /\ x \in Saved /\ {x} \in SUBSET Row /\ hit \in SUBSET Row
    BY <1>0, <1>2 DEF remove, At, OnItsKind, Row
  <2>2. Accounted(r, hit, {x})
    BY <2>1 DEF Accounted, Missed, Blind
  <2>3. Commit(r, hit, {x}) /\ there' = there \ hit
        /\ UNCHANGED <<status, officer, standing, stamped, defaultCity, grants, unread, events>>
    BY <1>2 DEF remove
  <2> QED
    BY <2>1, <2>2, <2>3, Removes
<1>3. CASE markRead(r)
  <2> PICK hit : hit = Unread(r, {x})
    OBVIOUS
  <2>1. pc[r] = "write" /\ op[r].does = "markRead"
    BY <1>3 DEF markRead, At
  <2>2. hit \in SUBSET Row /\ \A n \in hit : n \notin Saved /\ CityOf(n) \in Visible(op[r])
    <3>1. \A n \in hit : n \in Notice /\ CityOf(n) \in Visible(op[r])
      BY DEF TypeOK, Unread, Hit, Matches
    <3> QED
      BY <3>1, OwnedAssumption DEF Row
  <2>3. Accounted(r, hit, {})
    BY <2>1, <2>2 DEF Accounted
  <2>4. Commit(r, hit, {}) /\ ReadSet(r, hit)
    BY <1>3 DEF markRead
  <2> QED
    BY <2>1, <2>2, <2>3, <2>4, Removes DEF ReadSet
<1>4. CASE markAllRead(r)
  <2> PICK hit : hit = Unread(r, Notice)
    OBVIOUS
  <2>1. pc[r] = "write" /\ op[r].does = "markAllRead" /\ {Context(op[r]).user} \in SUBSET Row
    BY <1>0, <1>4, Contexts DEF markAllRead, At, Row
  <2>2. hit \in SUBSET Row /\ \A n \in hit : n \notin Saved /\ CityOf(n) \in Visible(op[r])
    <3>1. \A n \in hit : n \in Notice /\ CityOf(n) \in Visible(op[r])
      BY DEF TypeOK, Unread, Hit, Matches
    <3> QED
      BY <3>1, OwnedAssumption DEF Row
  <2>3. Accounted(r, hit, {Context(op[r]).user})
    BY <2>1, <2>2 DEF Accounted
  <2>4. Commit(r, hit, {Context(op[r]).user}) /\ ReadSet(r, hit)
    BY <1>4 DEF markAllRead
  <2> QED
    BY <2>1, <2>2, <2>3, <2>4, Removes DEF ReadSet
<1>5. CASE process(r)
  BY <1>5
<1>6. CASE issuePhoto(r) /\ op[r].does = "issuePhoto"
  <2>1. /\ pc[r] = "stored" /\ {x} \in SUBSET Row
        /\ Commit(r, {}, {x}) /\ UNCHANGED rows
    BY <1>0, <1>6 DEF issuePhoto, OnItsKind, Row
  <2>2. Accounted(r, {}, {x})
    BY <2>1 DEF Accounted
  <2>3. Writes(r)
    BY <2>1, <2>2, WritesThese DEF rows
  <2>4. TimelineKept(r) /\ Relocates(r) /\ RowsTyped' /\ ~Replaces(r)
    BY <1>6, <2>1 DEF TypeOK, RowsTyped, TimelineKept, Relocates, Replaces, rows
  <2> QED
    BY <1>6, <2>1, <2>3, <2>4 DEF Committed, rows
<1> QED
  BY <1>1, <1>2, <1>3, <1>4, <1>5, <1>6
  DEF SavedItemsController, NotificationsController, UploadsController, issuePhoto

-----------------------------------------------------------------------------
(* The inductive invariant.                                                *)

\* Times are of the past, and no two transactions ended at one.
TimeInv ==
    /\ \A r \in Request : began[r] <= clock /\ ended[r] <= clock
    /\ \A r \in Request : pc[r] # "done" => ended[r] = 0
    /\ \A r, q \in Request : ended[r] = ended[q] /\ ended[r] > 0 => r = q

\* Only a photo is written before its transaction ends.
StoredInv ==
    /\ \A r \in Request : pc[r] = "stored" => op[r].does = "issuePhoto" /\ \E c \in changed : c.by = r
    /\ \A c \in changed :
        ended[c.by] = 0 =>
            c.on \in Photo /\ op[c.by].does = "issuePhoto" /\ pc[c.by] \in {"stored", "done"}

\* An account has its first default city until it is moved.
MovedInv == \A u \in Account : defaultCity[u] # Home[u] => Moved(u)

\* A DELETE finds grants of its user and city.
DoomedInv ==
    \A q \in Request : \A g \in doomed[q] : g.user = op[q].on /\ g.city = Context(op[q]).city

GrantsInv == \A g \in grants : g.by # NoRequest => ended[g.by] > 0

EventsInv == \A e \in events : ended[e.by] > 0 /\ e.done = ended[e.by] /\ e.at = began[e.by]

\* The entries of an issue of one type, and what they say if their order is
\* that of the commits.
Entries(i, type) == {e \in events : e.on = i /\ e.type = type}

Tells(entries, value, initially) ==
    IF entries = {} THEN value = initially
    ELSE \E e \in entries : e.value = value /\ \A f \in entries : f.done <= e.done

LatestInv ==
    \A i \in Issue :
        /\ Tells(Entries(i, "status_changed"), status[i], "open")
        /\ Tells(Entries(i, "assigned"), officer[i], Nobody)

\* A replacement has found every grant, or the grant was made meanwhile.
Met(q, g) == g.user = op[q].on /\ g.city = Context(op[q]).city

PendingInv ==
    \A q \in Request : Replaces(q) /\ pc[q] = "write" =>
        \A g \in grants : Met(q, g) => g \in doomed[q] \/ began[q] < GrantedAt(g)

IInv ==
    /\ TypeOK /\ TimeInv /\ StoredInv /\ MovedInv /\ DoomedInv /\ GrantsInv /\ EventsInv
    /\ LatestInv /\ PendingInv
    /\ TenantIsolation /\ AuditExplained /\ ReplacementsExplained

LEMMA StepEffect ==
    ASSUME TypeOK, StoredInv, [Next]_vars
    PROVE  \/ UNCHANGED vars
           \/ \E r \in Request : Begin(r) \/ Waited(r) \/ process(r) \/ Committed(r)
<1>1. ASSUME NEW r \in Request, Throw(r) PROVE Waited(r)
  BY <1>1 DEF Throw, RollBack, Waited, TypeOK
<1>2. ASSUME NEW r \in Request, Handler(r) PROVE Waited(r) \/ process(r) \/ Committed(r)
  BY <1>2, IssueStep, AccountStep, PlainStep, OwnStep DEF Handler, StoredInv
<1> QED
  BY <1>1, <1>2 DEF Next

\* What a commit leaves alone.
LEMMA CommitTimes ==
    ASSUME TypeOK, NEW r \in Request, Committed(r)
    PROVE  /\ clock' = clock + 1 /\ ended' = [ended EXCEPT ![r] = clock + 1]
           /\ pc' = [pc EXCEPT ![r] = "done"]
           /\ UNCHANGED <<began, op, found, doomed>>
           /\ changed \subseteq changed' /\ audit \subseteq audit'
           /\ pc[r] # "done"
BY DEF Committed, Writes, Commit

\* The photo is stored.
LEMMA Stores ==
    ASSUME TypeOK, NEW r \in Request, process(r)
    PROVE  /\ pc[r] = "read" /\ op[r].does = "issuePhoto" /\ op[r].on \in Photo /\ op[r].on \in Row
           /\ there' = there \cup {op[r].on} /\ changed' = changed \cup {[by |-> r, on |-> op[r].on]}
           /\ pc' = [pc EXCEPT ![r] = "stored"]
           /\ UNCHANGED <<status, officer, standing, stamped, defaultCity, grants, unread, events>>
           /\ UNCHANGED <<audit, clock, began, ended, op, found, doomed>>
BY OnKind DEF process, Created, OnItsKind, Row

LEMMA InitTyped == Init => TypeOK
BY HomeAssumption, SeedAssumption, UsesAssumption
DEF Init, TypeOK, Row, Status, Standing, SeedGrants, Grant

LEMMA TypeStep == ASSUME TypeOK, StoredInv, [Next]_vars PROVE TypeOK'
<1>1. ASSUME NEW r \in Request, Begin(r) PROVE TypeOK'
  BY <1>1 DEF Begin, TypeOK, rows
<1>2. ASSUME NEW r \in Request, Waited(r) PROVE TypeOK'
  <2>1. Doomed(r) \subseteq Grant
    BY DEF TypeOK, Doomed
  <2> QED
    BY <1>2, <2>1 DEF Waited, TypeOK, rows
<1>3. ASSUME NEW r \in Request, process(r) PROVE TypeOK'
  BY <1>3, Stores DEF TypeOK
<1>4. ASSUME NEW r \in Request, Committed(r) PROVE TypeOK'
  <2>1. RowsTyped'
    BY <1>4 DEF Committed
  <2>2. audit' \subseteq [by : Request, on : Row] /\ changed' \subseteq [by : Request, on : Row]
    BY <1>4 DEF Committed, Writes, Commit, TypeOK
  <2> QED
    BY <1>4, <2>1, <2>2, CommitTimes DEF TypeOK, RowsTyped
<1>5. CASE UNCHANGED vars
  BY <1>5 DEF vars, rows, TypeOK
<1> QED
  BY <1>1, <1>2, <1>3, <1>4, <1>5, StepEffect

\* What the steps that do not commit leave alone.
Paused ==
    UNCHANGED <<grants, events, status, officer, audit, ended, op>>

LEMMA Pauses ==
    ASSUME TypeOK, StoredInv, [Next]_vars
    PROVE  \/ Paused /\ changed \subseteq changed'
           \/ \E r \in Request : Committed(r)
<1>1. ASSUME NEW r \in Request, Begin(r) \/ Waited(r) \/ process(r) PROVE Paused /\ changed \subseteq changed'
  BY <1>1, Stores DEF Begin, Waited, rows, Paused
<1>2. ASSUME UNCHANGED vars PROVE Paused /\ changed \subseteq changed'
  BY <1>2 DEF rows, vars, Paused
<1> QED
  BY <1>1, <1>2, StepEffect

LEMMA TimeStep == ASSUME TypeOK, TimeInv, StoredInv, [Next]_vars PROVE TimeInv'
<1> USE DEF TimeInv
<1>1. ASSUME NEW r \in Request, Begin(r) PROVE TimeInv'
  BY <1>1 DEF Begin, TypeOK
<1>2. ASSUME NEW r \in Request, Waited(r) PROVE TimeInv'
  BY <1>2 DEF Waited, TypeOK
<1>3. ASSUME NEW r \in Request, process(r) PROVE TimeInv'
  BY <1>3, Stores DEF TypeOK
<1>4. ASSUME NEW r \in Request, Committed(r) PROVE TimeInv'
  BY <1>4, CommitTimes DEF TypeOK
<1>5. CASE UNCHANGED vars
  BY <1>5 DEF vars
<1> QED
  BY <1>1, <1>2, <1>3, <1>4, <1>5, StepEffect

LEMMA StoredStep == ASSUME TypeOK, TimeInv, StoredInv, [Next]_vars PROVE StoredInv'
<1> USE DEF StoredInv
<1>1. ASSUME NEW r \in Request, Begin(r) \/ Waited(r) PROVE StoredInv'
  <2>1. changed' = changed /\ ended' = ended /\ op' = op
    BY <1>1 DEF Begin, Waited
  <2>2. \A q \in Request : pc'[q] = "stored" => pc[q] = "stored"
    BY <1>1 DEF Begin, Waited, TypeOK
  <2>3. \A q \in Request : pc[q] \in {"stored", "done"} => pc'[q] \in {"stored", "done"}
    BY <1>1 DEF Begin, Waited, TypeOK
  <2>4. \A c \in changed : c.by \in Request
    BY DEF TypeOK
  <2> QED
    BY <2>1, <2>2, <2>3, <2>4
<1>2. ASSUME NEW r \in Request, process(r) PROVE StoredInv'
  <2>1. \A c \in changed : c.by \in Request
    BY DEF TypeOK
  <2> PICK new : new = [by |-> r, on |-> op[r].on]
    OBVIOUS
  <2>2. /\ changed' = changed \cup {new} /\ new.by = r /\ new.on \in Photo
        /\ op[r].does = "issuePhoto" /\ UNCHANGED <<ended, op>> /\ pc' = [pc EXCEPT ![r] = "stored"]
    BY <1>2, Stores
  <2>3. \A q \in Request : pc'[q] = IF q = r THEN "stored" ELSE pc[q]
    BY <2>2 DEF TypeOK
  <2>4. \A q \in Request : pc'[q] = "stored" => op'[q].does = "issuePhoto" /\ \E c \in changed' : c.by = q
    BY <2>2, <2>3
  <2> QED
    BY <2>1, <2>2, <2>3, <2>4
<1>3. ASSUME NEW r \in Request, Committed(r) PROVE StoredInv'
  <2>1. /\ ended' = [ended EXCEPT ![r] = clock + 1] /\ op' = op
        /\ pc' = [pc EXCEPT ![r] = "done"] /\ changed \subseteq changed'
    BY <1>3, CommitTimes
  <2>2. \A c \in changed' : c \in changed \/ c.by = r
    BY <1>3 DEF Committed, Writes, Commit
  <2>3. ended'[r] # 0
    BY <2>1 DEF TypeOK
  <2>4. \A c \in changed : c.by \in Request
    BY DEF TypeOK
  <2> QED
    BY <2>1, <2>2, <2>3, <2>4 DEF TypeOK
<1>4. CASE UNCHANGED vars
  BY <1>4 DEF vars
<1> QED
  BY <1>1, <1>2, <1>3, <1>4, StepEffect

LEMMA MovedStep == ASSUME TypeOK, TimeInv, StoredInv, MovedInv, [Next]_vars PROVE MovedInv'
<1>1. ASSUME op' = op, defaultCity' = defaultCity, changed \subseteq changed' PROVE MovedInv'
  BY <1>1 DEF MovedInv, Moved
<1>2. ASSUME NEW r \in Request, Committed(r) PROVE MovedInv'
  <2>1. op' = op /\ changed \subseteq changed' /\ Relocates(r)
    BY <1>2, CommitTimes DEF Committed
  <2>2. CASE defaultCity' # defaultCity
    <3> PICK x, new : x = op[r].on /\ new = [by |-> r, on |-> x]
      OBVIOUS
    <3>1. /\ op[r].does = "updateSelf" /\ "city" \in op[r].sets
          /\ op[r].sent.city # Global /\ op[r].sent.super
          /\ defaultCity' = [defaultCity EXCEPT ![x] = op[r].to]
          /\ new \in changed' /\ new.on = x /\ new.by = r
      BY <2>1, <2>2 DEF Relocates
    <3>2. Moved(x)'
      BY <2>1, <3>1 DEF Moved
    <3>3. ASSUME NEW u \in Account, defaultCity'[u] # Home[u] PROVE Moved(u)'
      <4>1. CASE u = x
        BY <3>2, <4>1 DEF Moved
      <4>2. CASE u # x
        <5>1. Moved(u)
          BY <3>1, <3>3, <4>2 DEF MovedInv, TypeOK
        <5> QED
          BY <2>1, <5>1 DEF Moved
      <4> QED
        BY <4>1, <4>2
    <3> QED
      BY <3>3 DEF MovedInv
  <2> QED
    BY <1>1, <2>1, <2>2
<1> QED
  BY <1>1, <1>2, StepEffect, Stores DEF Begin, Waited, vars, rows

LEMMA DoomedStep == ASSUME TypeOK, StoredInv, DoomedInv, [Next]_vars PROVE DoomedInv'
<1>1. ASSUME NEW r \in Request, Waited(r) PROVE DoomedInv'
  BY <1>1 DEF DoomedInv, Waited, TypeOK, Doomed
<1>2. ASSUME NEW r \in Request, Begin(r) \/ process(r) \/ Committed(r) PROVE DoomedInv'
  BY <1>2, Stores, CommitTimes DEF Begin, DoomedInv
<1>3. CASE UNCHANGED vars
  BY <1>3 DEF vars, DoomedInv
<1> QED
  BY <1>1, <1>2, <1>3, StepEffect

LEMMA GrantsStep == ASSUME TypeOK, StoredInv, GrantsInv, [Next]_vars PROVE GrantsInv'
<1> USE DEF GrantsInv
<1>1. ASSUME Paused PROVE GrantsInv'
  BY <1>1 DEF Paused
<1>2. ASSUME NEW r \in Request, Committed(r) PROVE GrantsInv'
  <2>1. ended' = [ended EXCEPT ![r] = clock + 1] /\ clock + 1 > 0
    BY <1>2, CommitTimes DEF TypeOK
  <2>2. \A g \in grants' : g \in grants \/ g.by = r
    BY <1>2 DEF Committed, NewGrants
  <2>3. \A g \in grants : g.by # NoRequest => g.by \in Request
    BY DEF TypeOK, Grant
  <2> QED
    BY <2>1, <2>2, <2>3 DEF TypeOK
<1> QED
  BY <1>1, <1>2, Pauses

\* The entries that a step adds are of the request that commits.
LEMMA NewEntries ==
    ASSUME TypeOK, NEW r \in Request, Committed(r)
    PROVE  /\ events \subseteq events'
           /\ \A e \in events' \ events :
                e.by = r /\ e.done = clock + 1 /\ e.at = began[r] /\ Home[e.on] \in Visible(op[r])
BY DEF Committed, TimelineKept, Told, Logged

LEMMA EventsStep == ASSUME TypeOK, TimeInv, StoredInv, EventsInv, [Next]_vars PROVE EventsInv'
<1> USE DEF EventsInv
<1>0. \A e \in events : e.by \in Request
  BY DEF TypeOK, Event
<1>1. ASSUME NEW r \in Request, Begin(r) PROVE EventsInv'
  <2>1. \A e \in events : e.by # r
    BY <1>0, <1>1 DEF Begin, TimeInv
  <2> QED
    BY <1>0, <1>1, <2>1 DEF Begin, TypeOK, rows
<1>2. ASSUME NEW r \in Request, Waited(r) \/ process(r) PROVE EventsInv'
  <2>1. UNCHANGED <<events, ended, began>>
    BY <1>2, Stores DEF Waited, rows
  <2> QED
    BY <2>1
<1>3. ASSUME NEW r \in Request, Committed(r) PROVE EventsInv'
  <2>1. \A e \in events : e.by # r
    BY <1>0, <1>3, CommitTimes DEF TimeInv
  <2>2. ended' = [ended EXCEPT ![r] = clock + 1] /\ began' = began /\ clock + 1 > 0
    BY <1>3, CommitTimes DEF TypeOK
  <2> QED
    BY <1>0, <1>3, <2>1, <2>2, NewEntries DEF TypeOK
<1>4. CASE UNCHANGED vars
  BY <1>4 DEF vars, rows
<1> QED
  BY <1>1, <1>2, <1>3, <1>4, StepEffect

-----------------------------------------------------------------------------
(* Cities and the audit log.                                               *)

\* What is written stays written.
LEMMA WrittenStays == ASSUME TypeOK, StoredInv, [Next]_vars PROVE changed \subseteq changed'
BY Pauses, CommitTimes

LEMMA IsolationStep ==
    ASSUME TypeOK, TimeInv, StoredInv, MovedInv, DoomedInv, TenantIsolation, [Next]_vars
    PROVE  TenantIsolation'
<1> DEFINE Own(c) == IF c.on \in Saved THEN Owner[c.on] = op[c.by].by
                     ELSE c.on \in Photo \/ Home[c.on] \in Reach(op[c.by])
           Lost(g) == \E r \in Request : ended[r] > 0 /\ op[r].does = "patchUser" /\ g.city \in Reach(op[r])
<1>0. /\ \A c \in changed : Own(c) \/ (c.on \notin Saved /\ Moved(c.on))
      /\ \A e \in events : Home[e.on] \in Reach(op[e.by])
      /\ \A g \in SeedGrants \ grants : Lost(g)
  <2>1. \A c \in changed : Own(c) \/ (c.on \notin Saved /\ Moved(c.on))
    <3> SUFFICES ASSUME NEW c \in changed PROVE Own(c) \/ (c.on \notin Saved /\ Moved(c.on))
      OBVIOUS
    <3>1. CASE c.on \in Saved
      BY <3>1 DEF TenantIsolation
    <3>2. CASE c.on \notin Saved
      BY <3>2 DEF TenantIsolation
    <3> QED
      BY <3>1, <3>2
  <2> QED
    BY <2>1 DEF TenantIsolation
<1>1. op' = op
  BY StepEffect, Stores, CommitTimes DEF Begin, Waited, vars
<1>2. \A c \in changed' : Own(c) \/ (c.on \notin Saved /\ Moved(c.on))
  <2>1. ASSUME NEW r \in Request, process(r) PROVE \A c \in changed' : Own(c) \/ c \in changed
    <3>1. changed' = changed \cup {[by |-> r, on |-> op[r].on]} /\ op[r].on \in Photo /\ op[r].on \notin Saved
      BY <2>1, Stores, OwnedAssumption
    <3> QED
      BY <3>1
  <2>2. ASSUME NEW r \in Request, Committed(r), NEW c \in changed' \ changed
        PROVE  Own(c) \/ (c.on \notin Saved /\ Moved(c.on))
    <3>1. PICK written \in SUBSET Row, audited \in SUBSET Row :
            Commit(r, written, audited) /\ Accounted(r, written, audited)
      BY <2>2 DEF Committed, Writes
    <3>2. PICK x \in written : c = [by |-> r, on |-> x]
      BY <2>2, <3>1 DEF Commit
    <3>3. c.by = r /\ c.on = x
      BY <3>2
    <3>4. IF x \in Saved THEN Owner[x] = op[r].by ELSE CityOf(x) \in Reach(op[r])
      BY <3>1, OnKind, Contexts DEF Accounted
    <3>5. CityOf(x) = Home[x] \/ Moved(x)
      BY DEF CityOf, MovedInv
    <3> HIDE DEF Own
    <3>6. CASE x \in Saved
      BY <3>3, <3>4, <3>6 DEF Own
    <3>7. CASE x \notin Saved
      <4>1. Home[x] \in Reach(op[r]) \/ Moved(x)
        BY <3>4, <3>5, <3>7
      <4>2. Home[x] \in Reach(op[r]) => Own(c)
        BY <3>3, <3>7 DEF Own
      <4> QED
        BY <3>3, <3>7, <4>1, <4>2
    <3> QED
      BY <3>6, <3>7
  <2> HIDE DEF Own
  <2>3. \A c \in changed : Own(c) \/ (c.on \notin Saved /\ Moved(c.on))
    BY <1>0
  <2>4. \/ changed' = changed
        \/ \E r \in Request : process(r) \/ Committed(r)
    BY StepEffect DEF Begin, Waited, vars
  <2>5. ASSUME NEW c \in changed' PROVE Own(c) \/ (c.on \notin Saved /\ Moved(c.on))
    <3>1. CASE c \in changed
      BY <2>3, <3>1
    <3>2. CASE c \notin changed
      BY <2>1, <2>2, <2>4, <3>2
    <3> QED
      BY <3>1, <3>2
  <2> QED
    BY <2>5
<1>21. \A x : Moved(x) => Moved(x)'
  BY <1>1, WrittenStays DEF Moved
<1>3. \A e \in events' : Home[e.on] \in Reach(op[e.by])
  <2>1. ASSUME NEW r \in Request, Committed(r) PROVE \A e \in events' : Home[e.on] \in Reach(op[e.by])
    <3>1. \A e \in events' \ events : e.by = r /\ Home[e.on] \in Reach(op[r])
      BY <2>1, NewEntries, OnKind, Contexts
    <3> QED
      BY <1>0, <3>1
  <2> QED
    BY <1>0, <2>1, Pauses DEF Paused
<1>4. \A g \in SeedGrants \ grants' : Lost(g)'
  <2>1. CASE Paused
    BY <1>0, <2>1 DEF Paused
  <2>2. ASSUME NEW r \in Request, Committed(r), NEW g \in SeedGrants \ grants' PROVE Lost(g)'
    <3>1. ended' = [ended EXCEPT ![r] = clock + 1] /\ clock + 1 > 0 /\ op' = op
      BY <2>2, CommitTimes DEF TypeOK
    <3>2. \A q \in Request : ended[q] > 0 => ended'[q] > 0
      BY <3>1 DEF TypeOK
    <3>3. CASE g \notin grants
      BY <1>0, <2>2, <3>1, <3>2, <3>3
    <3>4. CASE g \in grants
      <4>1. Replaces(r) /\ g \in doomed[r]
        BY <2>2, <3>4 DEF Committed
      <4>2. op[r].does = "patchUser" /\ g.city \in Reach(op[r])
        BY <4>1, OnKind, Contexts DEF Replaces, DoomedInv
      <4>3. ended'[r] > 0
        BY <3>1 DEF TypeOK
      <4> QED
        BY <3>1, <4>2, <4>3
    <3> QED
      BY <3>3, <3>4
  <2> QED
    BY <2>1, <2>2, Pauses
<1> QED
  BY <1>1, <1>2, <1>21, <1>3, <1>4 DEF TenantIsolation

\* A row that was missed is missed still, or was written since.
LEMMA MissedStays ==
    ASSUME NEW r, Missed(r), op' = op, changed \subseteq changed',
           \A x \in there' \ there : \E c \in changed' : c.on = x
    PROVE  Missed(r)'
BY DEF Missed

\* Why an audit row has no change behind it.
Excused(r) ==
    \/ \E c \in changed : c.by = r
    \/ op[r].does \in {"exportData", "markAllRead", "patchSettings"}
    \/ op[r].does = "patchUser" /\ op[r].status = "keep"
    \/ Missed(r)

\* A row that the policies hide is of another city, or was moved.
LEMMA HiddenMissed == ASSUME MovedInv, NEW r, Hidden(r) PROVE Missed(r)
BY DEF Hidden, Missed, CityOf, MovedInv, Moved

LEMMA AuditStep ==
    ASSUME TypeOK, TimeInv, StoredInv, MovedInv, AuditExplained, [Next]_vars
    PROVE  AuditExplained'
<1> DEFINE Kept(c) == \/ \E a \in audit : a.by = c.by
                      \/ op[c.by].does = "markRead"
                      \/ c.on \in Photo /\ ended[c.by] = 0
<1>0. /\ \A c \in changed : Kept(c) /\ c.by \in Request
      /\ \A a \in audit : Excused(a.by)
  BY DEF AuditExplained, Excused, TypeOK
<1>1. ASSUME NEW r \in Request, process(r) PROVE AuditExplained'
  <2> PICK new : new = [by |-> r, on |-> op[r].on]
    OBVIOUS
  <2>1. /\ there' = there \cup {op[r].on} /\ changed' = changed \cup {new}
        /\ new.by = r /\ new.on = op[r].on /\ op[r].on \in Photo
        /\ UNCHANGED <<audit, ended, op>> /\ pc[r] = "read"
    BY <1>1, Stores
  <2>2. ended[r] = 0
    BY <2>1 DEF TimeInv
  <2>3. \A c \in changed' : Kept(c)'
    BY <1>0, <2>1, <2>2
  <2>4. \A a \in audit : Excused(a.by)'
    <3>1. ASSUME NEW a \in audit, Missed(a.by) PROVE Missed(a.by)'
      <4> PICK q : q = a.by
        OBVIOUS
      <4>1. \A x \in there' \ there : \E c \in changed' : c.on = x
        BY <2>1
      <4>2. Missed(q)'
        BY <2>1, <3>1, <4>1, MissedStays
      <4> QED
        BY <4>2 DEF Missed
    <3> QED
      BY <1>0, <2>1, <3>1 DEF Excused
  <2> QED
    BY <2>1, <2>3, <2>4 DEF AuditExplained, Excused
<1>2. ASSUME NEW r \in Request, Committed(r) PROVE AuditExplained'
  <2>1. PICK written \in SUBSET Row, audited \in SUBSET Row :
          Commit(r, written, audited) /\ Accounted(r, written, audited) /\ there' \subseteq there \cup written
    BY <1>2 DEF Committed, Writes
  <2>2. /\ changed' = changed \cup {[by |-> r, on |-> x] : x \in written}
        /\ audit' = audit \cup {[by |-> r, on |-> x] : x \in audited}
        /\ ended' = [ended EXCEPT ![r] = clock + 1] /\ op' = op
    BY <2>1 DEF Commit
  <2>3. \A q \in Request \ {r} : ended'[q] = ended[q]
    BY <2>2
  <2>4. \A x \in written : \E c \in changed' : c.by = r /\ c.on = x
    <3>1. ASSUME NEW x \in written PROVE \E c \in changed' : c.by = r /\ c.on = x
      <4> PICK c : c = [by |-> r, on |-> x]
        OBVIOUS
      <4>1. c \in changed' /\ c.by = r /\ c.on = x
        BY <2>2
      <4> QED
        BY <4>1
    <3> QED
      BY <3>1
  <2>5. audited # {} => \E a \in audit' : a.by = r
    <3>1. ASSUME NEW x \in audited PROVE \E a \in audit' : a.by = r
      <4> PICK a : a = [by |-> r, on |-> x]
        OBVIOUS
      <4>1. a \in audit' /\ a.by = r
        BY <2>2
      <4> QED
        BY <4>1
    <3> QED
      BY <3>1
  <2>6. ASSUME NEW c \in changed' PROVE Kept(c)'
    <3>1. CASE c.by # r
      <4>1. c \in changed
        BY <2>2, <3>1
      <4>2. c.by \in Request \ {r}
        BY <1>0, <3>1, <4>1
      <4> QED
        BY <1>0, <2>2, <2>3, <4>1, <4>2
    <3>2. CASE c.by = r
      <4>1. written # {} \/ op[r].does = "issuePhoto"
        <5>1. CASE c \in changed
          <6>1. ended[r] = 0
            BY <1>2, CommitTimes DEF TimeInv
          <6> QED
            BY <3>2, <5>1, <6>1 DEF StoredInv
        <5>2. CASE c \notin changed
          BY <2>2, <5>2
        <5> QED
          BY <5>1, <5>2
      <4>2. audited # {} \/ op[r].does = "markRead"
        BY <2>1, <4>1 DEF Accounted
      <4> QED
        BY <2>2, <2>5, <3>2, <4>2
    <3> QED
      BY <3>1, <3>2
  <2>7. ASSUME NEW q, Missed(q) PROVE Missed(q)'
    <3>1. \A x \in there' \ there : \E c \in changed' : c.on = x
      BY <2>1, <2>4
    <3>2. changed \subseteq changed'
      BY <2>2
    <3> QED
      BY <2>2, <2>7, <3>1, <3>2, MissedStays
  <2>8. ASSUME NEW a \in audit' PROVE Excused(a.by)'
    <3> PICK q : q = a.by
      OBVIOUS
    <3>1. CASE a \in audit
      <4>1. Excused(q)
        BY <1>0, <3>1
      <4>2. Excused(q)'
        BY <2>2, <2>7, <4>1 DEF Excused
      <4> QED
        BY <4>2 DEF Excused, Missed
    <3>2. CASE a \notin audit
      <4>1. q = r /\ audited # {}
        BY <2>2, <3>2
      <4>2. CASE written # {}
        <5>1. \E c \in changed' : c.by = r
          BY <2>4, <4>2
        <5> QED
          BY <4>1, <5>1 DEF Excused
      <4>3. CASE pc[r] = "stored"
        <5>1. \E c \in changed' : c.by = r
          BY <2>2, <4>3 DEF StoredInv
        <5> QED
          BY <4>1, <5>1 DEF Excused
      <4>4. CASE Missed(r)
        <5>1. Missed(r)'
          BY <2>7, <4>4
        <5>2. Excused(r)'
          BY <5>1 DEF Excused
        <5> QED
          BY <4>1, <5>2 DEF Excused, Missed
      <4> QED
        BY <2>1, <2>2, <4>1, <4>2, <4>3, <4>4, HiddenMissed DEF Accounted, Excused
    <3> QED
      BY <3>1, <3>2
  <2> QED
    BY <2>6, <2>8 DEF AuditExplained, Excused
<1>3. ASSUME UNCHANGED <<there, changed, audit, ended, op>> PROVE AuditExplained'
  BY <1>3 DEF AuditExplained, Missed
<1> QED
  BY <1>1, <1>2, <1>3, StepEffect DEF Begin, Waited, vars, rows

-----------------------------------------------------------------------------
(* Roles.                                                                  *)

LEMMA GrantedStays ==
    ASSUME TypeOK, TimeInv, NEW r \in Request, Committed(r),
           NEW g \in Grant, g.by # NoRequest => ended[g.by] > 0
    PROVE  GrantedAt(g)' = GrantedAt(g)
<1>1. ended' = [ended EXCEPT ![r] = clock + 1] /\ ended[r] = 0
  BY CommitTimes DEF TimeInv
<1>2. g.by \in Request => g.by # r
  BY <1>1, NoneAssumption
<1>3. g.by = NoRequest \/ (g.by \in Request /\ ended'[g.by] = ended[g.by])
  BY <1>1, <1>2 DEF Grant
<1> QED
  BY <1>3 DEF GrantedAt

\* What a commit does to grants.
LEMMA NewGrantsAt ==
    ASSUME TypeOK, NEW r \in Request, Committed(r), NEW g \in grants' \ grants
    PROVE  /\ Replaces(r) /\ g.by = r /\ g.user = op[r].on /\ g.city = Context(op[r]).city
           /\ g.role \in op[r].roles /\ GrantedAt(g)' = clock + 1
<1>1. Replaces(r) /\ g \in NewGrants(r)
  BY DEF Committed
<1>2. g.by = r /\ g.user = op[r].on /\ g.city = Context(op[r]).city /\ g.role \in op[r].roles
  BY <1>1 DEF NewGrants
<1>3. r # NoRequest /\ ended'[r] = clock + 1
  BY CommitTimes, NoneAssumption DEF TypeOK
<1> QED
  BY <1>1, <1>2, <1>3 DEF GrantedAt

LEMMA PendingStep ==
    ASSUME TypeOK, TimeInv, StoredInv, GrantsInv, PendingInv, [Next]_vars
    PROVE  PendingInv'
<1> USE DEF PendingInv
<1>1. ASSUME NEW r \in Request, Begin(r) PROVE PendingInv'
  <2>1. /\ UNCHANGED <<grants, op, doomed, ended>>
        /\ \A q \in Request : pc'[q] = "write" /\ Replaces(q) => q # r /\ pc[q] = "write" /\ began'[q] = began[q]
    BY <1>1 DEF Begin, TypeOK, rows, Replaces, ReadsFirst
  <2> QED
    BY <2>1 DEF Replaces, Met, GrantedAt
<1>2. ASSUME NEW r \in Request, Waited(r) PROVE PendingInv'
  <2>1. UNCHANGED <<grants, op, began, ended>>
    BY <1>2 DEF Waited, rows
  <2>2. ASSUME NEW q \in Request, Replaces(q), pc'[q] = "write", NEW g \in grants, Met(q, g)
        PROVE  g \in doomed'[q] \/ began[q] < GrantedAt(g)
    <3>1. CASE q # r
      <4>1. pc[q] = "write" /\ doomed'[q] = doomed[q]
        BY <1>2, <2>2, <3>1 DEF Waited, TypeOK
      <4> QED
        BY <2>2, <4>1
    <3>2. CASE q = r
      <4>1. doomed'[q] = Doomed(q)
        BY <1>2, <2>2, <3>2 DEF Waited, TypeOK, Replaces
      <4> QED
        BY <2>2, <4>1 DEF Doomed, Met
    <3> QED
      BY <3>1, <3>2
  <2> QED
    BY <2>1, <2>2 DEF Replaces, Met, GrantedAt
<1>3. ASSUME NEW r \in Request, process(r) PROVE PendingInv'
  <2>1. /\ UNCHANGED <<grants, op, doomed, began, ended>>
        /\ \A q \in Request : pc'[q] = "write" => pc[q] = "write"
    BY <1>3, Stores DEF TypeOK
  <2> QED
    BY <2>1 DEF Replaces, Met, GrantedAt
<1>4. ASSUME NEW r \in Request, Committed(r) PROVE PendingInv'
  <2>1. /\ UNCHANGED <<op, doomed, began>>
        /\ \A q \in Request : pc'[q] = "write" => pc[q] = "write"
    BY <1>4, CommitTimes DEF TypeOK
  <2>2. ASSUME NEW q \in Request, Replaces(q), pc[q] = "write", NEW g \in grants', Met(q, g)
        PROVE  g \in doomed[q] \/ began[q] < GrantedAt(g)'
    <3>1. CASE g \in grants
      <4>1. GrantedAt(g)' = GrantedAt(g)
        BY <1>4, <3>1, GrantedStays DEF GrantsInv, TypeOK
      <4> QED
        BY <2>2, <3>1, <4>1
    <3>2. CASE g \notin grants
      <4>1. GrantedAt(g)' = clock + 1
        BY <1>4, <3>2, NewGrantsAt
      <4> QED
        BY <4>1 DEF TimeInv, TypeOK
    <3> QED
      BY <3>1, <3>2
  <2> QED
    BY <2>1, <2>2 DEF Replaces, Met
<1>5. CASE UNCHANGED vars
  BY <1>5 DEF vars, rows, Replaces, Met, GrantedAt
<1> QED
  BY <1>1, <1>2, <1>3, <1>4, <1>5, StepEffect

\* The two halves of ReplacementsExplained.
Outlived(q, g) == Met(q, g) /\ g.by # q => began[q] < GrantedAt(g)

Granted(q, role) == [user |-> op[q].on, role |-> role, city |-> Context(op[q]).city, by |-> q]

Followed(q) ==
    \E p \in Request : /\ Replaced(p) /\ ended[q] < ended[p]
                       /\ op[p].on = op[q].on /\ Context(op[p]).city = Context(op[q]).city

LEMMA ReplacementsStep ==
    ASSUME TypeOK, TimeInv, StoredInv, DoomedInv, GrantsInv, PendingInv, ReplacementsExplained, [Next]_vars
    PROVE  ReplacementsExplained'
<1>0. ASSUME NEW q \in Request, Replaced(q)
      PROVE  /\ \A g \in grants : Outlived(q, g)
             /\ \A role \in op[q].roles : Granted(q, role) \in grants \/ Followed(q)
  BY <1>0 DEF ReplacementsExplained, Outlived, Met, Granted, Followed
<1>1. CASE UNCHANGED <<grants, ended, op, began>>
  BY <1>1 DEF ReplacementsExplained, Replaced, GrantedAt
<1>2. ASSUME NEW r \in Request, Begin(r) PROVE ReplacementsExplained'
  <2>1. UNCHANGED <<grants, ended, op>> /\ \A q \in Request : ended[q] > 0 => began'[q] = began[q]
    BY <1>2 DEF Begin, TypeOK, TimeInv, rows
  <2> QED
    BY <2>1 DEF ReplacementsExplained, Replaced, GrantedAt
<1>3. ASSUME NEW r \in Request, Committed(r) PROVE ReplacementsExplained'
  <2>1. /\ UNCHANGED <<op, began>> /\ ended' = [ended EXCEPT ![r] = clock + 1] /\ ended[r] = 0
        /\ \A q \in Request : q # r => ended'[q] = ended[q]
        /\ ended'[r] = clock + 1
    BY <1>3, CommitTimes DEF TimeInv, TypeOK
  <2>2. \A q \in Request : q # r => (Replaced(q)' <=> Replaced(q))
    BY <2>1 DEF Replaced
  <2>3. Replaced(r)' <=> Replaces(r)
    BY <2>1 DEF Replaced, Replaces, TypeOK
  <2>4. Replaces(r) => pc[r] = "write"
    BY <1>3 DEF Committed, Replaces
  <2>5. ASSUME NEW q \in Request, Replaced(q)', NEW g \in grants', Met(q, g), g.by # q
        PROVE  began[q] < GrantedAt(g)'
    <3>1. CASE g \notin grants
      <4>1. GrantedAt(g)' = clock + 1
        BY <1>3, <3>1, NewGrantsAt
      <4> QED
        BY <4>1 DEF TimeInv, TypeOK
    <3>2. CASE g \in grants
      <4>1. GrantedAt(g)' = GrantedAt(g)
        BY <1>3, <3>2, GrantedStays DEF GrantsInv, TypeOK
      <4>2. CASE q # r
        BY <1>0, <2>2, <2>5, <3>2, <4>1, <4>2 DEF Outlived
      <4>3. CASE q = r
        <5>1. Replaces(r) /\ pc[r] = "write"
          BY <2>3, <2>4, <2>5, <4>3
        <5>2. g \notin doomed[r]
          <6>1. g \notin NewGrants(r)
            BY <2>5, <4>3 DEF NewGrants
          <6> QED
            BY <1>3, <2>5, <5>1, <6>1 DEF Committed
        <5> QED
          BY <2>5, <3>2, <4>1, <4>3, <5>1, <5>2 DEF PendingInv
      <4> QED
        BY <4>2, <4>3
    <3> QED
      BY <3>1, <3>2
  <2>6. ASSUME NEW q \in Request, Replaced(q)', NEW role \in op[q].roles
        PROVE  Granted(q, role) \in grants' \/ Followed(q)'
    <3>1. CASE q = r
      <4>1. Granted(r, role) \in NewGrants(r)
        BY <2>6, <3>1 DEF Granted, NewGrants
      <4> QED
        BY <1>3, <2>3, <2>6, <3>1, <4>1 DEF Committed
    <3>2. CASE q # r
      <4>1. Replaced(q)
        BY <2>2, <2>6, <3>2
      <4>2. CASE Followed(q)
        <5>1. PICK p \in Request : /\ Replaced(p) /\ ended[q] < ended[p]
                                   /\ op[p].on = op[q].on /\ Context(op[p]).city = Context(op[q]).city
          BY <4>2 DEF Followed
        <5>2. p # r
          BY <2>1, <5>1 DEF Replaced
        <5>3. Replaced(p)' /\ ended'[q] < ended'[p]
          BY <2>1, <2>2, <3>2, <5>1, <5>2
        <5> QED
          BY <2>1, <5>1, <5>3 DEF Followed
      <4>3. CASE Granted(q, role) \in grants /\ Granted(q, role) \notin grants'
        <5> PICK g : g = Granted(q, role)
          OBVIOUS
        <5>1. Replaces(r) /\ g \in doomed[r]
          BY <1>3, <4>3 DEF Committed
        <5>2. op[q].on = op[r].on /\ Context(op[q]).city = Context(op[r]).city
          BY <5>1 DEF DoomedInv, Granted
        <5>3. ended'[q] < ended'[r]
          BY <2>1, <3>2 DEF TimeInv, TypeOK
        <5> QED
          BY <2>1, <2>3, <5>1, <5>2, <5>3 DEF Followed
      <4> QED
        BY <1>0, <4>1, <4>2, <4>3
    <3> QED
      BY <3>1, <3>2
  <2>7. ASSUME NEW q \in Request, Replaced(q)'
        PROVE  /\ \A g \in grants' : g.user = op'[q].on /\ g.city = Context(op'[q]).city /\ g.by # q => began'[q] < GrantedAt(g)'
               /\ \A role \in op'[q].roles :
                    \/ [user |-> op'[q].on, role |-> role, city |-> Context(op'[q]).city, by |-> q] \in grants'
                    \/ Followed(q)'
    BY <2>1, <2>5, <2>6, <2>7 DEF Met, Granted
  <2> QED
    BY <2>7 DEF ReplacementsExplained, Followed
<1> QED
  BY <1>1, <1>2, <1>3, StepEffect, Stores DEF Waited, vars, rows

-----------------------------------------------------------------------------
(* Timelines.                                                              *)


LEMMA LatestStep ==
    ASSUME TypeOK, TimeInv, StoredInv, EventsInv, LatestInv, [Next]_vars
    PROVE  LatestInv'
<1>1. CASE UNCHANGED <<status, officer, events>>
  BY <1>1 DEF LatestInv, Entries
<1>2. ASSUME NEW r \in Request, Committed(r) PROVE LatestInv'
  <2>0. \A e \in events : e.done \in Nat /\ e.done <= clock
    BY DEF EventsInv, TimeInv, TypeOK, Event
  <2>1. CASE Told(r, {op[r].on}, "created", Nobody) /\ UNCHANGED <<status, officer>>
    <3>1. \A i : /\ Entries(i, "status_changed")' = Entries(i, "status_changed")
                 /\ Entries(i, "assigned")' = Entries(i, "assigned")
      BY <2>1 DEF Told, Logged, Entries
    <3> QED
      BY <2>1, <3>1 DEF LatestInv
  <2>2. ASSUME NEW type \in {"status_changed", "assigned"}, NEW to, NEW ids \in SUBSET Issue,
               Told(r, ids, type, to), NEW i \in Issue
        PROVE  /\ i \in ids => \A initially : Tells(Entries(i, type)', to, initially)
               /\ \A other : i \notin ids \/ other # type => Entries(i, other)' = Entries(i, other)
    <3> PICK new : new = [on |-> i, type |-> type, value |-> to, at |-> began[r], done |-> clock + 1, by |-> r]
      OBVIOUS
    <3>1. /\ i \in ids => Entries(i, type)' = Entries(i, type) \cup {new}
          /\ \A other : i \notin ids \/ other # type => Entries(i, other)' = Entries(i, other)
      BY <2>2 DEF Told, Logged, Entries
    <3>2. new.value = to /\ new.done = clock + 1
      OBVIOUS
    <3>3. ASSUME NEW f \in Entries(i, type) \cup {new} PROVE f.done <= new.done
      BY <2>0, <3>2 DEF Entries, TypeOK
    <3>4. ASSUME NEW initially, i \in ids PROVE Tells(Entries(i, type)', to, initially)
      <4> PICK entries : entries = Entries(i, type) \cup {new}
        OBVIOUS
      <4>1. Tells(entries, to, initially)
        BY <3>2, <3>3 DEF Tells
      <4> QED
        BY <3>1, <3>4, <4>1
    <3> QED
      BY <3>1, <3>4
  <2>3. ASSUME NEW ids \in SUBSET Issue, Told(r, ids, "status_changed", op[r].status), officer' = officer,
               status' = [i \in Issue |-> IF i \in ids THEN op[r].status ELSE status[i]]
        PROVE  LatestInv'
    <3>1. ASSUME NEW i \in Issue
          PROVE  Tells(Entries(i, "status_changed")', status'[i], "open") /\ Tells(Entries(i, "assigned")', officer'[i], Nobody)
      BY <2>2, <2>3 DEF LatestInv
    <3> QED
      BY <3>1 DEF LatestInv, Tells
  <2>4. ASSUME NEW ids \in SUBSET Issue, Told(r, ids, "assigned", op[r].officer), status' = status,
               officer' = [i \in Issue |-> IF i \in ids THEN op[r].officer ELSE officer[i]]
        PROVE  LatestInv'
    <3>1. ASSUME NEW i \in Issue
          PROVE  Tells(Entries(i, "status_changed")', status'[i], "open") /\ Tells(Entries(i, "assigned")', officer'[i], Nobody)
      BY <2>2, <2>4 DEF LatestInv
    <3> QED
      BY <3>1 DEF LatestInv, Tells
  <2> QED
    BY <1>1, <1>2, <2>1, <2>3, <2>4 DEF Committed, TimelineKept
<1> QED
  BY <1>1, <1>2, Pauses DEF Paused

\* Of the entries of a type there is one that began last.
LEMMA ShownLast ==
    ASSUME TypeOK, TimeInv, EventsInv, NEW i, NEW type, Entries(i, type) # {}
    PROVE  Shown(i, type) # {}
<1> DEFINE Begun(n) == \E e \in Entries(i, type) : e.at = n
           Back == {m \in Nat : Begun(clock - m)}
           Less == OpToRel(<, Nat)
<1>1. \A e \in Entries(i, type) : e.at \in Nat /\ e.at <= clock
  BY DEF Entries, EventsInv, TimeInv, TypeOK, Event
<1>2. PICK first \in Entries(i, type) : TRUE
  OBVIOUS
<1>3. clock - first.at \in Back /\ Back \subseteq Nat
  BY <1>1 DEF TypeOK
<1>4. PICK least \in Back : \A m \in Back : <<m, least>> \notin Less
  <2>1. IsWellFoundedOn(Less, Nat)
    BY NatLessThanWellFounded
  <2> HIDE DEF Back, Less
  <2> QED
    BY <1>3, <2>1, WFMin
<1>5. PICK last \in Entries(i, type) : last.at = clock - least
  OBVIOUS
<1>6. ASSUME NEW e \in Entries(i, type) PROVE e.at <= last.at
  <2>1. clock - e.at \in Back
    BY <1>1 DEF TypeOK
  <2>2. ~(clock - e.at < least)
    BY <1>4, <2>1 DEF OpToRel
  <2> QED
    BY <1>1, <1>5, <2>2 DEF TypeOK
<1>7. last \in Shown(i, type)
  BY <1>6 DEF Shown, Entries
<1> QED
  BY <1>7

LEMMA LatestTells == ASSUME TypeOK, TimeInv, EventsInv, LatestInv PROVE TimelineReplays
<1>1. ASSUME NEW i \in Issue, NEW type, NEW value, NEW initially, Tells(Entries(i, type), value, initially)
      PROVE  \/ Shown(i, type) = {} /\ value = initially
             \/ \E last \in Shown(i, type) :
                    \/ last.value = value
                    \/ \E e \in events : /\ e.on = i /\ e.type = type /\ e.value = value
                                         /\ e.at < last.at /\ last.done < e.done
  <2>1. CASE Entries(i, type) = {}
    BY <1>1, <2>1 DEF Tells, Shown, Entries
  <2>2. CASE Entries(i, type) # {}
    <3>1. PICK e \in Entries(i, type) : e.value = value /\ \A f \in Entries(i, type) : f.done <= e.done
      BY <1>1, <2>2 DEF Tells
    <3>2. PICK last \in Shown(i, type) : TRUE
      BY <2>2, ShownLast
    <3>3. last \in Entries(i, type) /\ e.at <= last.at /\ last.done <= e.done
      BY <3>1 DEF Shown, Entries
    <3>4. /\ e.at \in Nat /\ last.at \in Nat /\ e.done \in Nat /\ last.done \in Nat
          /\ e.by \in Request /\ last.by \in Request
      BY <3>3 DEF Entries, TypeOK, Event
    <3>5. CASE e.at = last.at
      <4>1. e \in Shown(i, type)
        BY <3>2, <3>5 DEF Shown, Entries
      <4> QED
        BY <3>1, <4>1
    <3>6. CASE e.at # last.at
      <4>1. e.done # last.done
        BY <3>3, <3>4, <3>6 DEF Entries, EventsInv, TimeInv
      <4>2. e.at < last.at /\ last.done < e.done
        BY <3>3, <3>4, <3>6, <4>1
      <4> QED
        BY <3>1, <4>2 DEF Entries
    <3> QED
      BY <3>5, <3>6
  <2> QED
    BY <2>1, <2>2
<1> QED
  BY <1>1 DEF TimelineReplays, LatestInv

-----------------------------------------------------------------------------

LEMMA InitInvariant == Init => IInv
<1> SUFFICES ASSUME Init PROVE IInv
  OBVIOUS
<1>1. /\ changed = {} /\ audit = {} /\ events = {} /\ grants = SeedGrants /\ clock = 0
      /\ \A r \in Request : began[r] = 0 /\ ended[r] = 0 /\ doomed[r] = {} /\ pc[r] = "idle"
      /\ \A i \in Issue : status[i] = "open" /\ officer[i] = Nobody
      /\ \A u \in Account : defaultCity[u] = Home[u]
  BY DEF Init
<1>2. TimeInv /\ StoredInv /\ MovedInv /\ DoomedInv /\ EventsInv /\ PendingInv
  BY <1>1 DEF TimeInv, StoredInv, MovedInv, DoomedInv, EventsInv, PendingInv
<1>3. GrantsInv
  BY <1>1 DEF GrantsInv, SeedGrants
<1>4. LatestInv
  BY <1>1 DEF LatestInv, Entries, Tells
<1>5. TenantIsolation /\ AuditExplained /\ ReplacementsExplained
  BY <1>1 DEF TenantIsolation, AuditExplained, ReplacementsExplained, Replaced
<1> QED
  BY <1>2, <1>3, <1>4, <1>5, InitTyped DEF IInv

LEMMA NextInvariant == IInv /\ [Next]_vars => IInv'
BY TypeStep, TimeStep, StoredStep, DoomedStep, GrantsStep, EventsStep, LatestStep, PendingStep, MovedStep,
   IsolationStep, AuditStep, ReplacementsStep DEF IInv

LEMMA IInvHolds == Spec => []IInv
BY InitInvariant, NextInvariant, PTL DEF Spec

\* The rows, histories and places of requests have their types.
THEOREM TypeCorrect == Spec => []TypeOK
<1>1. IInv => TypeOK
  BY DEF IInv
<1> QED
  BY <1>1, IInvHolds, PTL

\* No request writes a row of a city out of its reach, which only X-City-Id
\* widens, and only to every city with X-Is-Super-Admin, or another user's
\* bookmark; writes an issue's timeline from elsewhere; or takes away a role of
\* another city.
THEOREM WritesStayInTheirCity == Spec => []TenantIsolation
<1>1. IInv => TenantIsolation
  BY DEF IInv
<1> QED
  BY <1>1, IInvHolds, PTL

\* Every change has its audit row and every audit row its change, or a reason
\* of those AuditExplained lists.
THEOREM AuditIsExplained == Spec => []AuditExplained
<1>1. IInv => AuditExplained
  BY DEF IInv
<1> QED
  BY <1>1, IInvHolds, PTL

\* An issue has the status and officer that its timeline ends in, unless two
\* transactions overlapped and committed against the order they began in.
THEOREM TimelinesReplay == Spec => []TimelineReplays
<1>1. IInv => TimelineReplays
  BY LatestTells DEF IInv
<1> QED
  BY <1>1, IInvHolds, PTL

\* A role outlives a replacement of the user's roles only if it was granted
\* while the replacement was under way, and a replacement stands until a later.
THEOREM ReplacementsAreExplained == Spec => []ReplacementsExplained
<1>1. IInv => ReplacementsExplained
  BY DEF IInv
<1> QED
  BY <1>1, IInvHolds, PTL

-----------------------------------------------------------------------------
(* What a reader is shown.                                                 *)

\* What a page of an issue tells is of one moment, the clock of its row.
PageTells(entries) ==
    \A i \in shown.issue :
        /\ Tells({e \in entries : e.type = "status_changed" /\ e.done <= shown.at}, i.status, "open")
        /\ Tells({e \in entries : e.type = "assigned" /\ e.done <= shown.at}, i.officer, Nobody)

PageInv ==
    /\ shown = [rows |-> shown.rows, issue |-> shown.issue, timeline |-> shown.timeline, at |-> shown.at]
    /\ step \in {"asked", "neighborhoods"} => shown.issue = {}
    /\ step \in {"photos", "events"} => shown.at \in Nat /\ shown.at <= clock /\ PageTells(Timeline)
    /\ step = "done" => PageTells(shown.timeline)

\* The read that is under way is the one asked for.
QueryInv ==
    /\ query \in Query
    /\ step \in {"photos", "events"} => query.asks = "getIssue"
    /\ step = "neighborhoods" => query.asks \in {"getBySlug", "neighborhoods"}

ReadInv == PageInv /\ QueryInv /\ AnswersIsolated

\* What is asked names rows of its kind.
LEMMA QueryOn ==
    ASSUME NEW q \in Query
    PROVE  /\ q.asks = "getIssue" => q.on \in Issue
           /\ q.asks = "getTopic" => q.on \in Plain
           /\ q.asks = "self" => q.by \in Account
BY DEF Query, IssueQuery, AdminIssueQuery, TopicQuery, SearchQuery, InboxQuery, CityQuery,
       LocaleQuery, AuditQuery, Ask

\* An answer in one statement.
Answers(answer) ==
    /\ shown' = [shown EXCEPT !.rows = answer] /\ step' = "done"
    /\ UNCHANGED <<vars, query>>

LEMMA ShowsRows ==
    ASSUME PageInv, step \in {"asked", "neighborhoods"}, NEW answer, Answers(answer)
    PROVE  PageInv' /\ shown'.rows = answer
<1> PICK a, b, c, d : shown = [rows |-> a, issue |-> b, timeline |-> c, at |-> d]
  BY DEF PageInv
<1>1. shown' = [rows |-> answer, issue |-> b, timeline |-> c, at |-> d] /\ b = {} /\ step' = "done"
  BY DEF PageInv, Answers
<1> QED
  BY <1>1 DEF PageInv, PageTells

\* What AnswersIsolated says of one row.
Isolated(x) ==
    IF query.asks = "listAudit" THEN \E a \in AuditOf(Reader.city, Nobody) : a.on = x
    ELSE IF query.asks \in CatalogAsked THEN Home[x] = Global
    ELSE IF x \in Saved THEN Owner[x] = Reader.user
    ELSE IF query.asks \in CityAsked THEN Home[x] = query.city
    ELSE /\ Home[x] \in CitiesOf(Reader) \/ Moved(x)
         /\ x \in Notice => Owner[x] = Reader.user
         /\ query.asks = "self" => x = query.by

LEMMA IsolatedRows ==
    /\ AnswersIsolated <=> \A x \in shown.rows : Isolated(x)
    /\ AnswersIsolated' <=> \A x \in shown'.rows : Isolated(x)'
BY DEF AnswersIsolated, Isolated

LEMMA IsolatedStays ==
    ASSUME query' = query, op' = op, audit \subseteq audit', changed \subseteq changed', NEW x, Isolated(x)
    PROVE  Isolated(x)'
<1>1. Moved(x) => Moved(x)'
  BY DEF Moved
<1>2. Reader' = Reader
  BY DEF Reader
<1>3. \A city : AuditOf(city, Nobody) \subseteq AuditOf(city, Nobody)'
  BY DEF AuditOf
<1> QED
  BY <1>1, <1>2, <1>3 DEF Isolated

\* A read that answers with rows it may answer with.
LEMMA IsolatedAnswer ==
    ASSUME ReadInv, NEW answer, Answers(answer), step \in {"asked", "neighborhoods"},
           \A x \in answer : Isolated(x)
    PROVE  ReadInv'
<1>1. PageInv' /\ shown'.rows = answer /\ query' = query /\ step' = "done" /\ UNCHANGED vars
  BY ShowsRows DEF ReadInv, Answers
<1>2. \A x \in answer : Isolated(x)'
  BY <1>1, IsolatedStays DEF vars
<1>3. AnswersIsolated'
  BY <1>1, <1>2, IsolatedRows
<1> QED
  BY <1>1, <1>3 DEF ReadInv, QueryInv

\* Rows of no owner, of the city asked for or of one that the reader sees.
OfCityOnly(answer) ==
    \A x \in answer :
        /\ x \in Issue \cup Plain
        /\ IF query.asks \in CityAsked THEN Home[x] = query.city ELSE Home[x] \in CitiesOf(Reader)

LEMMA ReadableHome ==
    ASSUME NEW x \in Issue \cup Plain, x \in Readable
    PROVE  Home[x] \in CitiesOf(Reader)
BY OwnedAssumption DEF Readable, CityOf

LEMMA IsolatedByCity ==
    ASSUME ReadInv, NEW answer, Answers(answer), step \in {"asked", "neighborhoods"},
           query.asks \notin CatalogAsked \cup {"listAudit", "self"}, OfCityOnly(answer)
    PROVE  ReadInv'
<1>1. ASSUME NEW x \in answer PROVE Isolated(x)
  <2>1. x \notin Saved \cup Notice
    BY OwnedAssumption DEF OfCityOnly
  <2> QED
    BY <2>1 DEF Isolated, OfCityOnly
<1> QED
  BY <1>1, IsolatedAnswer

\* The lists and searches.
LEMMA ListStep ==
    ASSUME ReadInv, TypeOK,
           \/ listIssues \/ adminList \/ adminMap \/ adminExport \/ dashboard
           \/ listTopics \/ getTopic \/ tsvectorSearch \/ ilikeSearch \/ selectNeighborhoods
    PROVE  ReadInv'
<1>0. OfCity \subseteq Issue /\ \A x \in OfCity : Home[x] = query.city
  BY DEF OfCity
<1>1. CASE listIssues
  <2>1. PICK page \in SUBSET (Filtered \cap Readable) : Answers(page)
    BY <1>1 DEF listIssues, ShowsPage, Shows, Goes, Answers
  <2>2. query.asks = "listIssues" /\ step = "asked" /\ OfCityOnly(page)
    BY <1>0, <1>1, <2>1, ReadableHome DEF listIssues, Asked, OfCityOnly, Filtered, CityAsked
  <2> QED
    BY <2>1, <2>2, IsolatedByCity DEF CatalogAsked
<1>2. CASE adminList
  <2>1. PICK page \in SUBSET Filtered : Answers(page)
    BY <1>2 DEF adminList, ShowsPage, Shows, Goes, Answers
  <2>2. query.asks = "adminList" /\ step = "asked" /\ OfCityOnly(page)
    BY <1>0, <1>2 DEF adminList, Asked, OfCityOnly, Filtered, CityAsked
  <2> QED
    BY <2>1, <2>2, IsolatedByCity DEF CatalogAsked
<1>3. CASE adminMap \/ dashboard
  <2>1. Answers(OfCity) /\ query.asks \in {"adminMap", "dashboard"} /\ step = "asked"
    BY <1>3 DEF adminMap, dashboard, Asked, Shows, Goes, Answers
  <2>2. OfCityOnly(OfCity)
    BY <1>0, <2>1 DEF OfCityOnly, CityAsked
  <2> QED
    BY <2>1, <2>2, IsolatedByCity DEF CatalogAsked
<1>4. CASE adminExport
  <2>1. Answers(Exported) /\ query.asks = "adminExport" /\ step = "asked"
    BY <1>4 DEF adminExport, Asked, Shows, Goes, Answers
  <2>2. OfCityOnly(Exported)
    BY <1>0, <2>1 DEF OfCityOnly, CityAsked, Exported
  <2> QED
    BY <2>1, <2>2, IsolatedByCity DEF CatalogAsked
<1>5. CASE listTopics
  <2> PICK answer : answer = {x \in Stored("topics") \cap Readable : Home[x] = query.city /\ x \notin Archived}
    OBVIOUS
  <2>1. Answers(answer) /\ query.asks = "listTopics" /\ step = "asked"
    BY <1>5 DEF listTopics, Asked, Shows, Goes, Answers
  <2>2. OfCityOnly(answer)
    BY <2>1, ReadableHome DEF OfCityOnly, CityAsked, Stored
  <2> QED
    BY <2>1, <2>2, IsolatedByCity DEF CatalogAsked
<1>6. CASE getTopic
  <2>1. Answers({query.on}) /\ query.asks = "getTopic" /\ step = "asked"
    BY <1>6 DEF getTopic, Asked, Shows, Goes, Answers
  <2>2. OfCityOnly({query.on})
    BY <1>6, <2>1, ReadableHome DEF OfCityOnly, CityAsked, Stored, getTopic
  <2> QED
    BY <2>1, <2>2, IsolatedByCity DEF CatalogAsked
<1>7. CASE tsvectorSearch \/ ilikeSearch
  <2>1. PICK page \in SUBSET Hits : Answers(page)
    BY <1>7 DEF tsvectorSearch, ilikeSearch, ShowsPage, Shows, Goes, Answers
  <2>2. query.asks = "search" /\ step = "asked"
    BY <1>7 DEF tsvectorSearch, ilikeSearch, Asked
  <2>3. Searched \subseteq Issue \cup Plain
    BY DEF Searched, Stored
  <2>4. OfCityOnly(page)
    BY <2>2, <2>3, ReadableHome DEF OfCityOnly, Hits, CityAsked
  <2> QED
    BY <2>1, <2>2, <2>4, IsolatedByCity DEF CatalogAsked
<1>8. CASE selectNeighborhoods
  <2> PICK answer : answer = {x \in Stored("neighborhoods") : Home[x] = query.city}
    OBVIOUS
  <2>1. Answers(answer) /\ query.asks \in {"getBySlug", "neighborhoods"} /\ step = "neighborhoods"
    BY <1>8 DEF selectNeighborhoods, Shows, Goes, Answers, ReadInv, QueryInv
  <2>2. OfCityOnly(answer)
    BY <2>1 DEF OfCityOnly, CityAsked, Stored
  <2> QED
    BY <2>1, <2>2, IsolatedByCity DEF CatalogAsked
<1> QED
  BY <1>1, <1>2, <1>3, <1>4, <1>5, <1>6, <1>7, <1>8

\* The lists that have no reader, the audit log, and what is one's own.
LEMMA OtherListStep ==
    ASSUME ReadInv, TypeOK, MovedInv,
           listCities \/ listLocales \/ getLocale \/ listAudit \/ listSaved \/ listNotifications \/ getSelf
    PROVE  ReadInv'
<1>1. CASE listCities \/ listLocales \/ getLocale
  <2>1. PICK answer : /\ Answers(answer) /\ step = "asked" /\ query.asks \in CatalogAsked
                     /\ answer \subseteq Stored("cities") \cup Stored("translations")
    BY <1>1 DEF listCities, listLocales, getLocale, ShowsPage, Asked, Shows, Goes, Answers, CatalogAsked
  <2>2. \A x \in answer : Home[x] = Global
    BY <2>1, CatalogAssumption DEF Stored
  <2>3. query.asks # "listAudit"
    BY <2>1 DEF CatalogAsked
  <2>4. \A x \in answer : Isolated(x)
    BY <2>1, <2>2, <2>3 DEF Isolated
  <2> QED
    BY <2>1, <2>4, IsolatedAnswer
<1>2. CASE listAudit
  <2> PICK entries : entries = AuditOf(Reader.city, query.actor)
    OBVIOUS
  <2>1. PICK answer \in SUBSET {a.on : a \in entries} : Answers(answer)
    BY <1>2 DEF listAudit, ShowsPage, Shows, Goes, Answers
  <2>2. step = "asked" /\ query.asks = "listAudit"
    BY <1>2 DEF listAudit, Asked
  <2>3. entries \subseteq AuditOf(Reader.city, Nobody)
    BY DEF AuditOf
  <2>4. \A x \in answer : Isolated(x)
    BY <2>1, <2>2, <2>3 DEF Isolated
  <2> QED
    BY <2>1, <2>2, <2>4, IsolatedAnswer
<1>3. CASE listSaved
  <2>1. PICK answer : /\ Answers(answer) /\ step = "asked" /\ query.asks = "listSaved"
                     /\ \A x \in answer : x \in Saved /\ Owner[x] = Reader.user
    <3> PICK answer : answer = {x \in Saved \cap there : Owner[x] = Reader.user}
      OBVIOUS
    <3>1. Answers(answer) /\ step = "asked" /\ query.asks = "listSaved"
      BY <1>3 DEF listSaved, Asked, Shows, Goes, Answers
    <3> QED
      BY <3>1
  <2>2. \A x \in answer : Isolated(x)
    BY <2>1 DEF Isolated, CatalogAsked
  <2> QED
    BY <2>1, <2>2, IsolatedAnswer
<1>4. CASE listNotifications
  <2>1. PICK answer : /\ Answers(answer) /\ step = "asked" /\ query.asks = "listNotifications"
                     /\ \A x \in answer : x \in Notice /\ Owner[x] = Reader.user /\ CityOf(x) \in CitiesOf(Reader)
    BY <1>4 DEF listNotifications, Inbox, Readable, ShowsPage, Asked, Shows, Goes, Answers
  <2>2. ASSUME NEW x \in answer PROVE Isolated(x)
    <3>1. x \notin Saved /\ CityOf(x) = Home[x]
      BY <2>1, OwnedAssumption DEF CityOf
    <3> QED
      BY <2>1, <3>1 DEF Isolated, CatalogAsked, CityAsked
  <2> QED
    BY <2>1, <2>2, IsolatedAnswer
<1>5. CASE getSelf
  <2>1. Answers({query.by}) /\ step = "asked" /\ query.asks = "self" /\ CityOf(query.by) \in CitiesOf(Reader)
    BY <1>5 DEF getSelf, Asked, Shows, Goes, Answers, Readable
  <2>2. query.by \notin Saved \cup Notice /\ query.by \in Account
    BY <2>1, QueryOn, OwnedAssumption DEF ReadInv, QueryInv
  <2>3. Home[query.by] \in CitiesOf(Reader) \/ Moved(query.by)
    BY <2>1, <2>2 DEF CityOf, MovedInv
  <2>4. Isolated(query.by)
    BY <2>1, <2>2, <2>3 DEF Isolated, CatalogAsked, CityAsked
  <2> QED
    BY <2>1, <2>4, IsolatedAnswer
<1> QED
  BY <1>1, <1>2, <1>3, <1>4, <1>5

\* The page of an issue, a statement after the other.
LEMMA PageStep ==
    ASSUME IInv, ReadInv, selectIssue \/ selectPhotos \/ selectEvents \/ selectCity \/ ThrowRead
    PROVE  ReadInv'
<1> PICK a, b, c, d : shown = [rows |-> a, issue |-> b, timeline |-> c, at |-> d]
  BY DEF ReadInv, PageInv
<1>0. UNCHANGED <<vars, query>>
  BY DEF selectIssue, selectPhotos, selectEvents, selectCity, ThrowRead, Goes
<1>01. ASSUME shown'.rows = shown.rows PROVE AnswersIsolated'
  BY <1>0, <1>01, IsolatedStays, IsolatedRows DEF ReadInv, vars
<1>1. CASE selectIssue
  <2> PICK i : i = query.on
    OBVIOUS
  <2>1. query.asks = "getIssue" /\ i \in Issue /\ i \in Readable /\ step' = "photos"
    BY <1>1, QueryOn DEF selectIssue, Asked, ReadInv, QueryInv, Goes
  <2>2. shown' = [rows |-> {i}, issue |-> {toIssue(i)}, timeline |-> c, at |-> clock]
    BY <1>1 DEF selectIssue
  <2>3. \A e \in events : e.done \in Nat /\ e.done <= clock
    BY DEF IInv, EventsInv, TimeInv, TypeOK, Event
  <2>4. ASSUME NEW type
        PROVE  {e \in Timeline : e.type = type /\ e.done <= clock} = Entries(i, type)
    BY <2>3 DEF Timeline, Entries
  <2>5. /\ Tells(Entries(i, "status_changed"), status[i], "open")
        /\ Tells(Entries(i, "assigned"), officer[i], Nobody)
    BY <2>1 DEF IInv, LatestInv
  <2>6. /\ toIssue(i).status = status[i] /\ toIssue(i).officer = officer[i]
    BY DEF toIssue
  <2>7. Timeline' = Timeline /\ clock' = clock
    BY <1>0 DEF Timeline, vars, rows
  <2>8. PageTells(Timeline)'
    BY <2>2, <2>4, <2>5, <2>6, <2>7 DEF PageTells
  <2>9. PageInv'
    BY <2>1, <2>2, <2>7, <2>8 DEF PageInv, IInv, TypeOK
  <2>10. Home[i] \in CitiesOf(Reader) /\ i \notin Saved \cup Notice
    BY <2>1, ReadableHome, OwnedAssumption
  <2>11. Isolated(i)
    BY <2>1, <2>10 DEF Isolated, CatalogAsked, CityAsked
  <2>12. AnswersIsolated'
    <3>1. Isolated(i)'
      BY <1>0, <2>11, IsolatedStays DEF vars
    <3> QED
      BY <2>2, <3>1, IsolatedRows
  <2> QED
    BY <1>0, <2>1, <2>9, <2>12 DEF ReadInv, QueryInv
<1>2. CASE selectPhotos
  <2>1. step = "photos" /\ step' = "events" /\ shown' = shown
    BY <1>2 DEF selectPhotos, Goes
  <2>2. Timeline' = Timeline /\ clock' = clock
    BY <1>0 DEF Timeline, vars, rows
  <2>3. PageInv'
    BY <2>1, <2>2 DEF ReadInv, PageInv, PageTells
  <2>4. AnswersIsolated'
    BY <1>01, <2>1
  <2> QED
    BY <1>0, <2>1, <2>3, <2>4 DEF ReadInv, QueryInv
<1>3. CASE selectEvents
  <2>1. step = "events" /\ step' = "done" /\ shown' = [rows |-> a, issue |-> b, timeline |-> Timeline, at |-> d]
    BY <1>3 DEF selectEvents, Goes
  <2>3. PageTells(Timeline)
    BY <2>1 DEF ReadInv, PageInv
  <2> PICK t : t = Timeline
    OBVIOUS
  <2>4. PageTells(shown.timeline)'
    BY <2>1, <2>3 DEF PageTells
  <2>5. PageInv'
    BY <2>1, <2>4 DEF PageInv
  <2>6. AnswersIsolated'
    BY <1>01, <2>1
  <2> QED
    BY <1>0, <2>1, <2>5, <2>6 DEF ReadInv, QueryInv
<1>4. CASE selectCity
  <2>1. step = "asked" /\ step' = "neighborhoods" /\ shown' = shown /\ query.asks \in {"getBySlug", "neighborhoods"}
    BY <1>4 DEF selectCity, Goes
  <2>3. PageInv' /\ AnswersIsolated'
    BY <1>0, <1>01, <2>1 DEF ReadInv, PageInv
  <2> QED
    BY <1>0, <2>1, <2>3 DEF ReadInv, QueryInv
<1>5. CASE ThrowRead
  <2>1. step' = "done" /\ shown' = [rows |-> {}, issue |-> {}, timeline |-> {}, at |-> 0]
    BY <1>5 DEF ThrowRead, Goes, Nothing
  <2>2. PageInv' /\ AnswersIsolated'
    BY <2>1 DEF PageInv, PageTells, AnswersIsolated
  <2> QED
    BY <1>0, <2>1, <2>2 DEF ReadInv, QueryInv
<1> QED
  BY <1>1, <1>2, <1>3, <1>4, <1>5

\* Requests that commit between the statements of a read.
LEMMA Meanwhile ==
    ASSUME IInv, ReadInv, Next, UNCHANGED readVars
    PROVE  ReadInv'
<1>0. UNCHANGED <<query, step, shown>>
  BY DEF readVars
<1>1. op' = op /\ audit \subseteq audit' /\ clock' \in Nat /\ clock <= clock'
  <2>1. ASSUME NEW r \in Request, Begin(r) PROVE op' = op /\ audit' = audit /\ clock' = clock + 1
    BY <2>1 DEF Begin
  <2>2. ASSUME NEW r \in Request, Waited(r) \/ process(r)
        PROVE  op' = op /\ audit' = audit /\ clock' = clock
    BY <2>2, Stores DEF Waited, IInv
  <2>3. ASSUME NEW r \in Request, Committed(r)
        PROVE  op' = op /\ audit \subseteq audit' /\ clock' = clock + 1
    BY <2>3, CommitTimes DEF IInv
  <2> QED
    BY <2>1, <2>2, <2>3, StepEffect DEF IInv, TypeOK, vars
<1>2. events \subseteq events' /\ \A e \in events' \ events : e.done = clock + 1
  BY Pauses, NewEntries DEF IInv, Paused
<1>3. AnswersIsolated'
  <2>1. changed \subseteq changed'
    BY WrittenStays DEF IInv
  <2> QED
    BY <1>0, <1>1, <2>1, IsolatedStays, IsolatedRows DEF ReadInv
<1>4. CASE step \in {"photos", "events"}
  <2>1. shown.at \in Nat /\ shown.at <= clock /\ PageTells(Timeline)
    BY <1>4 DEF ReadInv, PageInv
  <2>2. \A e \in events' \ events : ~(e.done <= shown.at)
    BY <1>2, <2>1 DEF IInv, TypeOK
  <2>3. ASSUME NEW type
        PROVE  {e \in Timeline' : e.type = type /\ e.done <= shown.at} = {e \in Timeline : e.type = type /\ e.done <= shown.at}
    BY <1>0, <1>2, <2>2 DEF Timeline
  <2>4. PageTells(Timeline)'
    BY <1>0, <2>1, <2>3 DEF PageTells
  <2>5. shown.at <= clock'
    BY <1>1, <2>1 DEF IInv, TypeOK
  <2>6. PageInv'
    BY <1>0, <1>4, <2>1, <2>4, <2>5 DEF ReadInv, PageInv
  <2> QED
    BY <1>0, <1>3, <2>6 DEF ReadInv, QueryInv
<1>5. CASE step \notin {"photos", "events"}
  <2>1. PageInv'
    BY <1>0, <1>5 DEF ReadInv, PageInv, PageTells
  <2> QED
    BY <1>0, <1>3, <2>1 DEF ReadInv, QueryInv
<1> QED
  BY <1>4, <1>5

LEMMA ReadNextStep == IInv /\ ReadInv /\ [ReadNext]_<<vars, readVars>> => IInv' /\ ReadInv'
<1> SUFFICES ASSUME IInv, ReadInv, [ReadNext]_<<vars, readVars>> PROVE IInv' /\ ReadInv'
  OBVIOUS
<1>1. CASE Read
  <2>1. UNCHANGED vars
    BY <1>1 DEF Read, listIssues, selectIssue, selectPhotos, selectEvents, adminList, adminMap,
           adminExport, dashboard, listTopics, getTopic, tsvectorSearch, ilikeSearch, listCities,
           selectCity, selectNeighborhoods, listLocales, getLocale, listAudit, listSaved,
           listNotifications, getSelf, ThrowRead, ShowsPage, Shows, Goes
  <2> QED
    BY <1>1, <2>1, NextInvariant, ListStep, OtherListStep, PageStep DEF Read, IInv
<1>2. CASE Next /\ UNCHANGED readVars
  BY <1>2, NextInvariant, Meanwhile
<1>3. CASE UNCHANGED <<vars, readVars>>
  <2>1. /\ Timeline' = Timeline /\ clock' = clock /\ UNCHANGED <<audit, op, changed>>
        /\ UNCHANGED <<query, step, shown>>
    BY <1>3 DEF vars, rows, readVars, Timeline
  <2>2. AnswersIsolated'
    BY <2>1, IsolatedStays, IsolatedRows DEF ReadInv
  <2>4. ReadInv'
    BY <2>1, <2>2 DEF ReadInv, PageInv, PageTells, QueryInv
  <2>3. UNCHANGED vars
    BY <1>3
  <2> QED
    BY <2>4, <2>3, NextInvariant
<1> QED
  BY <1>1, <1>2, <1>3 DEF ReadNext

LEMMA ReadInvHolds == ReadSpec => [](IInv /\ ReadInv)
<1>1. ReadInit => IInv /\ ReadInv
  <2> SUFFICES ASSUME ReadInit PROVE IInv /\ ReadInv
    OBVIOUS
  <2>1. /\ step = "asked" /\ query \in Query
        /\ shown = [rows |-> {}, issue |-> {}, timeline |-> {}, at |-> 0]
    BY WatchedAssumption DEF ReadInit, Nothing
  <2> QED
    BY <2>1, InitInvariant DEF ReadInit, ReadInv, PageInv, QueryInv, AnswersIsolated
<1> QED
  BY <1>1, ReadNextStep, PTL DEF ReadSpec

\* The status and officer on an issue's page are those its timeline had when
\* the row was read: what the timeline tells besides was committed between
\* the statements of the page.
THEOREM PagesAreExplained == ReadSpec => []IssueAnswersExplained
<1>1. IInv /\ ReadInv => IssueAnswersExplained
  BY DEF ReadInv, PageInv, PageTells, Tells, IssueAnswersExplained
<1> QED
  BY <1>1, ReadInvHolds, PTL

\* A reader is shown rows of the city of the context read in, or of the city an
\* officer asked for, bookmarks and notifications of that context's user, and
\* no profile but the reader's own.
THEOREM AnswersStayIsolated == ReadSpec => []AnswersIsolated
<1>1. IInv /\ ReadInv => AnswersIsolated
  BY DEF ReadInv
<1> QED
  BY <1>1, ReadInvHolds, PTL

=============================================================================
