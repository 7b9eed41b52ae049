---------------------------- MODULE Participation ----------------------------
(***************************************************************************)
(* PollsService, IdeasService, CommentsService and what the admin's        *)
(* endpoints do to polls, as their callers call them with an id that may   *)
(* or may not be there.                                                    *)
(*                                                                         *)
(* A request is one transaction of runInTenantTx at READ COMMITTED: it     *)
(* reads a row, decides, writes, appends an audit row and commits.  The    *)
(* read is one step, what follows it another: a statement that writes      *)
(* waits for the rows that uncommitted requests have written and judges    *)
(* the committed ones, so nothing it depends on changes between it and     *)
(* the commit; other requests commit between the read and the write.       *)
(* Who may do what is left out: a caller who may not is a request that     *)
(* throws.  All rows are of one city; what the policies hide of others is  *)
(* in Administration.                                                      *)
(*                                                                         *)
(* An audit row carries the request that wrote it, so rows of equal        *)
(* content are told apart.                                                 *)
(***************************************************************************)
EXTENDS Naturals, FiniteSets

CONSTANTS
    Request, User, Poll, Idea, Comment,
    Option,    \* options of every poll
    Uses,      \* which operation each request is: the cases considered
    NoRequest

\* What a request asks for: a method, its target, and its user's choice.
PollBody ==
         [does : {"createPoll", "updatePoll", "deletePoll", "publish", "patchPoll", "closePoll"}, on : Poll]
    \cup [does : {"votePoll"}, on : Poll, by : User, option : Option]

Moderated == {"published", "hidden", "rejected"}

IdeaBody ==
         [does : {"createIdea", "updateIdea", "deleteIdea"}, on : Idea]
    \cup [does : {"moderate"}, on : Idea, status : Moderated]
    \cup [does : {"voteIdea", "unvote"}, on : Idea, by : User]

CommentBody ==
         [does : {"createComment"}, on : Comment, under : Idea]
    \cup [does : {"comment"}, on : Comment, under : Poll \cup Idea]
    \cup [does : {"updateComment", "deleteComment"}, on : Comment]
    \cup [does : {"react"}, on : Comment, by : User]

Operation == PollBody \cup IdeaBody \cup CommentBody

ASSUME UsesAssumption == Uses \subseteq [Request -> Operation]
ASSUME DisjointAssumption == Poll \cap Idea = {} /\ Poll \cap Comment = {} /\ Idea \cap Comment = {}
ASSUME NoRequestAssumption == NoRequest \notin Request

VARIABLES
    row,       \* row[x]: where the row of a poll, idea or comment stands
    text,      \* text[x]: the request that wrote its title and body last
    moderated, \* moderated[i]: the status column of an idea
    ballots,   \* poll_votes
    upvotes,   \* idea_votes
    reactions, \* comment_reactions, of one kind
    audit,     \* the audit rows: the request, and what it says it did
    pc,        \* pc[r]: where request r stands
    op,        \* op[r]: its operation
    read       \* read[r]: the state in which it read the row it looked at

contents == <<row, text, moderated, ballots, upvotes, reactions>>
vars == <<contents, audit, pc, op, read>>

Content == Poll \cup Idea \cup Comment

Ballots == [poll : Poll, user : User, option : Option]

Action ==
    {"poll.create", "poll.update", "poll.publish", "poll.close", "poll.delete", "poll.vote",
     "idea.create", "idea.update", "idea.delete", "idea.moderate", "idea.vote", "idea.comment",
     "comment.create", "comment.update", "comment.delete", "comment.react.add", "comment.react.remove"}

Place == {"read", "reaction", "write", "add", "remove", "done"}

\* Where a row can stand: not there, or by its deleted_at and those statuses
\* that something sets.  Nothing cancels a poll or hides a comment.
PollRow == {"none", "draft", "open", "closed"}
IdeaRow == {"none", "live", "deleted"}
CommentRow == {"none", "visible", "deleted"}
Standing == PollRow \cup IdeaRow \cup CommentRow

RowsTyped ==
    /\ row \in [Content -> Standing]
    /\ \A p \in Poll : row[p] \in PollRow
    /\ \A i \in Idea : row[i] \in IdeaRow
    /\ \A c \in Comment : row[c] \in CommentRow

TypeOK ==
    /\ RowsTyped
    /\ text \in [Content -> Request \cup {NoRequest}]
    /\ moderated \in [Idea -> {"draft"} \cup Moderated]
    /\ ballots \subseteq Ballots
    /\ upvotes \subseteq Idea \X User
    /\ reactions \subseteq Comment \X User
    /\ audit \subseteq [by : Request, action : Action]
    /\ pc \in [Request -> Place]
    /\ op \in [Request -> Operation]
    /\ read \in [Request -> Standing]

-----------------------------------------------------------------------------

\* Methods that write before they read, if they read at all.
Blind == {"createPoll", "patchPoll", "closePoll", "createIdea", "comment", "moderate", "unvote"}

Init ==
    /\ row = [x \in Content |-> "none"]
    /\ text = [x \in Content |-> NoRequest]
    /\ moderated = [i \in Idea |-> "draft"]
    /\ ballots = {} /\ upvotes = {} /\ reactions = {}
    /\ audit = {}
    /\ op \in Uses
    /\ pc = [r \in Request |-> IF op[r].does \in Blind THEN "write" ELSE "read"]
    /\ read = [r \in Request |-> "none"]

\* The row a request looks at first: that of its target, or, for a comment
\* that is yet to be made, of the idea it is made under.
Looked(o) == IF o.does = "createComment" THEN o.under ELSE o.on

Select(r) ==
    /\ pc[r] = "read"
    /\ read' = [read EXCEPT ![r] = row[Looked(op[r])]]
    /\ pc' = [pc EXCEPT ![r] = IF op[r].does = "react" THEN "reaction" ELSE "write"]
    /\ UNCHANGED <<contents, audit, op>>

\* react reads the comment, then the reaction.
SelectReaction(r) ==
    /\ pc[r] = "reaction"
    /\ pc' = [pc EXCEPT ![r] = IF <<op[r].on, op[r].by>> \in reactions THEN "remove" ELSE "add"]
    /\ UNCHANGED <<contents, audit, op, read>>

Finish(r) == pc' = [pc EXCEPT ![r] = "done"] /\ UNCHANGED <<op, read>>

\* The audit row that commits with the change.
Audited(r, action) == audit' = audit \cup {[by |-> r, action |-> action]} /\ Finish(r)

At(r, method) == pc[r] = "write" /\ op[r].does = method

\* A missing row, a wrong status, a caller who may not, a violated
\* constraint, a lost connection: the transaction is rolled back.
Throw(r) ==
    /\ pc[r] \in {"write", "remove", "add"}
    /\ Finish(r)
    /\ UNCHANGED <<contents, audit>>

\* SET title, body.
Rewritten(r) == text' = [text EXCEPT ![op[r].on] = r]

Becomes(x, state) == row' = [row EXCEPT ![x] = state]

\* An INSERT under a new id.
Created(r, state) ==
    /\ text[op[r].on] = NoRequest
    /\ Becomes(op[r].on, state)
    /\ Rewritten(r)

-----------------------------------------------------------------------------
(* Polls.                                                                  *)

createPoll(r) ==
    /\ At(r, "createPoll")
    /\ Created(r, "draft")
    /\ Audited(r, "poll.create")
    /\ UNCHANGED <<moderated, ballots, upvotes, reactions>>

\* Variant: an update that saves the poll it read, status and all.
UpdateWholePoll(r) ==
    /\ At(r, "updatePoll")
    /\ read[r] = "draft"
    /\ row[op[r].on] # "none"
    /\ Rewritten(r)
    /\ Becomes(op[r].on, read[r])
    /\ Audited(r, "poll.update")
    /\ UNCHANGED <<moderated, ballots, upvotes, reactions>>

\* The status is judged as it was read, the UPDATE needs the row to be there.
updatePoll(r) ==
    /\ At(r, "updatePoll")
    /\ read[r] = "draft"
    /\ row[op[r].on] # "none"
    /\ Rewritten(r)
    /\ Audited(r, "poll.update")
    /\ UNCHANGED <<row, moderated, ballots, upvotes, reactions>>

\* Variant: a poll deleted without its votes.
DeletePollOnly(r) ==
    /\ At(r, "deletePoll")
    /\ read[r] # "none"
    /\ Becomes(op[r].on, "none")
    /\ Audited(r, "poll.delete")
    /\ UNCHANGED <<text, moderated, ballots, upvotes, reactions>>

\* The options and the votes go with the poll.  The DELETE may find that
\* another request has deleted it.
deletePoll(r) ==
    /\ At(r, "deletePoll")
    /\ read[r] # "none"
    /\ Becomes(op[r].on, "none")
    /\ ballots' = {b \in ballots : b.poll # op[r].on}
    /\ Audited(r, "poll.delete")
    /\ UNCHANGED <<text, moderated, upvotes, reactions>>

\* A poll that was read open is answered as it is; one that was read closed
\* throws.  The UPDATE writes over whatever the status is by now.
publish(r) ==
    /\ At(r, "publish")
    /\ row[op[r].on] # "none"
    /\ \/ /\ read[r] = "open"
          /\ Finish(r)
          /\ UNCHANGED <<row, audit>>
       \/ /\ read[r] = "draft"
          /\ Becomes(op[r].on, "open")
          /\ Audited(r, "poll.publish")
    /\ UNCHANGED <<text, moderated, ballots, upvotes, reactions>>

\* Variant: a vote that does not look at the status of the poll.
VoteOnAnyPoll(r) ==
    LET o == op[r] IN
    /\ At(r, "votePoll")
    /\ row[o.on] # "none"
    /\ ballots' = {b \in ballots : b.poll # o.on \/ b.user # o.by}
                  \cup {[poll |-> o.on, user |-> o.by, option |-> o.option]}
    /\ Audited(r, "poll.vote")
    /\ UNCHANGED <<row, text, moderated, upvotes, reactions>>

\* INSERT ... ON CONFLICT (poll_id, user_id) DO UPDATE.  A poll deleted in
\* the meantime violates the foreign key; one closed in the meantime does not.
votePoll(r) ==
    LET o == op[r] IN
    /\ At(r, "votePoll")
    /\ read[r] = "open"
    /\ row[o.on] # "none"
    /\ ballots' = {b \in ballots : b.poll # o.on \/ b.user # o.by}
                  \cup {[poll |-> o.on, user |-> o.by, option |-> o.option]}
    /\ Audited(r, "poll.vote")
    /\ UNCHANGED <<row, text, moderated, upvotes, reactions>>

\* AdminPollsController's UPDATEs go by the id alone, and are audited if they
\* match no row.  A patch may leave the title as it is.
patchPoll(r) ==
    /\ At(r, "patchPoll")
    /\ \/ row[op[r].on] # "none" /\ Rewritten(r)
       \/ UNCHANGED text
    /\ Audited(r, "poll.update")
    /\ UNCHANGED <<row, moderated, ballots, upvotes, reactions>>

\* Whatever the status is.
closePoll(r) ==
    /\ At(r, "closePoll")
    /\ \/ row[op[r].on] # "none" /\ Becomes(op[r].on, "closed")
       \/ row[op[r].on] = "none" /\ UNCHANGED row
    /\ Audited(r, "poll.close")
    /\ UNCHANGED <<text, moderated, ballots, upvotes, reactions>>

-----------------------------------------------------------------------------
(* Ideas.                                                                  *)

createIdea(r) ==
    /\ At(r, "createIdea")
    /\ Created(r, "live")
    /\ Audited(r, "idea.create")
    /\ UNCHANGED <<moderated, ballots, upvotes, reactions>>

\* WHERE id = ..., deleted or not by now.
updateIdea(r) ==
    /\ At(r, "updateIdea")
    /\ read[r] = "live"
    /\ Rewritten(r)
    /\ Audited(r, "idea.update")
    /\ UNCHANGED <<row, moderated, ballots, upvotes, reactions>>

deleteIdea(r) ==
    /\ At(r, "deleteIdea")
    /\ read[r] = "live"
    /\ Becomes(op[r].on, "deleted")
    /\ Audited(r, "idea.delete")
    /\ UNCHANGED <<text, moderated, ballots, upvotes, reactions>>

\* Reads nothing first: an UPDATE that matches no row is audited too.
moderate(r) ==
    LET o == op[r] IN
    /\ At(r, "moderate")
    /\ moderated' = IF row[o.on] = "none" THEN moderated ELSE [moderated EXCEPT ![o.on] = o.status]
    /\ Audited(r, "idea.moderate")
    /\ UNCHANGED <<row, text, ballots, upvotes, reactions>>

\* Variant: an upsert instead of the caught unique violation, audited again.
VoteIdeaAgain(r) ==
    LET o == op[r] IN
    /\ At(r, "voteIdea")
    /\ read[r] = "live"
    /\ upvotes' = upvotes \cup {<<o.on, o.by>>}
    /\ Audited(r, "idea.vote")
    /\ UNCHANGED <<row, text, moderated, ballots, reactions>>

\* A second vote fails on the primary key.  The error is caught, but the
\* transaction it failed in can only roll back.
voteIdea(r) ==
    LET o == op[r] IN
    /\ At(r, "voteIdea")
    /\ read[r] = "live"
    /\ \/ /\ <<o.on, o.by>> \in upvotes
          /\ Finish(r)
          /\ UNCHANGED <<upvotes, audit>>
       \/ /\ <<o.on, o.by>> \notin upvotes
          /\ upvotes' = upvotes \cup {<<o.on, o.by>>}
          /\ Audited(r, "idea.vote")
    /\ UNCHANGED <<row, text, moderated, ballots, reactions>>

\* execute() returns a list of results, so the count read from it is always
\* 0 and the DELETE is rolled back with the NotFoundException.
unvote(r) == At(r, "unvote") /\ Throw(r)

-----------------------------------------------------------------------------
(* Comments and reactions.                                                 *)

\* POST /comments: what it is under is not looked up.
comment(r) ==
    /\ At(r, "comment")
    /\ Created(r, "visible")
    /\ Audited(r, "comment.create")
    /\ UNCHANGED <<moderated, ballots, upvotes, reactions>>

\* POST /ideas/:id/comments.  The idea may be deleted by now.
createComment(r) ==
    /\ At(r, "createComment")
    /\ read[r] = "live"
    /\ Created(r, "visible")
    /\ Audited(r, "idea.comment")
    /\ UNCHANGED <<moderated, ballots, upvotes, reactions>>

\* The row is looked at for its author only: whoever may change a comment may
\* change one that is deleted.
requireAuthorOrModerator(r) == read[r] # "none"

updateComment(r) ==
    /\ At(r, "updateComment")
    /\ requireAuthorOrModerator(r)
    /\ Rewritten(r)
    /\ Audited(r, "comment.update")
    /\ UNCHANGED <<row, moderated, ballots, upvotes, reactions>>

deleteComment(r) ==
    /\ At(r, "deleteComment")
    /\ requireAuthorOrModerator(r)
    /\ Becomes(op[r].on, "deleted")
    /\ Audited(r, "comment.delete")
    /\ UNCHANGED <<text, moderated, ballots, upvotes, reactions>>

\* A toggle by what was read: the DELETE may find nothing, the INSERT may
\* violate the primary key and then throws.
react(r) ==
    LET reaction == <<op[r].on, op[r].by>> IN
    /\ op[r].does = "react" /\ read[r] = "visible"
    /\ \/ /\ pc[r] = "remove"
          /\ reactions' = reactions \ {reaction}
          /\ Audited(r, "comment.react.remove")
       \/ /\ pc[r] = "add" /\ reaction \notin reactions
          /\ reactions' = reactions \cup {reaction}
          /\ Audited(r, "comment.react.add")
    /\ UNCHANGED <<row, text, moderated, ballots, upvotes>>

-----------------------------------------------------------------------------

PollsController(r) ==
    createPoll(r) \/ updatePoll(r) \/ deletePoll(r) \/ publish(r) \/ votePoll(r)
AdminPollsController(r) == patchPoll(r) \/ closePoll(r)
IdeasController(r) ==
    \/ createIdea(r) \/ updateIdea(r) \/ deleteIdea(r) \/ moderate(r)
    \/ voteIdea(r) \/ unvote(r) \/ createComment(r)
CommentsController(r) ==
    comment(r) \/ updateComment(r) \/ deleteComment(r) \/ react(r)

Next ==
    \E r \in Request :
        \/ Select(r) \/ SelectReaction(r) \/ Throw(r)
        \/ PollsController(r) \/ AdminPollsController(r) \/ IdeasController(r) \/ CommentsController(r)

Spec == Init /\ [][Next]_vars

-----------------------------------------------------------------------------
(* Properties.                                                             *)

\* The requests whose audit row says they did this to x.
Log(action, x) == {r \in Request : [by |-> r, action |-> action] \in audit /\ op[r].on = x}

\* One request created x, or none did; its text is that of a request that
\* created or updated it.
TextReplays(x, creators, updaters) ==
    /\ Cardinality(creators) = (IF text[x] = NoRequest THEN 0 ELSE 1)
    /\ text[x] \in creators \cup updaters \cup {NoRequest}

PollReplays(p) ==
    /\ TextReplays(p, Log("poll.create", p), Log("poll.update", p))
    /\ row[p] = "none" <=> text[p] = NoRequest \/ Log("poll.delete", p) # {}
    /\ row[p] = "draft" => Log("poll.publish", p) = {}
    /\ row[p] = "open" => Log("poll.publish", p) # {}
    /\ row[p] = "closed" => Log("poll.close", p) # {}
    /\ \A b \in ballots : b.poll = p =>
        /\ Log("poll.publish", p) # {}
        /\ \E r \in Log("poll.vote", p) : op[r].by = b.user /\ op[r].option = b.option

IdeaReplays(i) ==
    /\ TextReplays(i, Log("idea.create", i), Log("idea.update", i))
    /\ row[i] = "deleted" <=> Log("idea.delete", i) # {}
    /\ moderated[i] = "draft" \/ \E r \in Log("idea.moderate", i) : op[r].status = moderated[i]
    /\ \A u \in User : Cardinality({r \in Log("idea.vote", i) : op[r].by = u})
                           = (IF <<i, u>> \in upvotes THEN 1 ELSE 0)

Toggled(c, u, action) == Cardinality({r \in Log(action, c) : op[r].by = u})

CommentReplays(c) ==
    /\ TextReplays(c, Log("comment.create", c) \cup Log("idea.comment", c), Log("comment.update", c))
    /\ row[c] = "deleted" <=> Log("comment.delete", c) # {}
    /\ \A u \in User :
        Toggled(c, u, "comment.react.add")
            <= Toggled(c, u, "comment.react.remove") + (IF <<c, u>> \in reactions THEN 1 ELSE 0)

\* The audit log tells the state of every row, whatever requests raced: what
\* was created, published, deleted or voted for has its audit row, once where
\* it can happen once, and what was rolled back has none.  Of reactions it
\* tells no more than were added: two removals of one reaction are both logged.
AuditReplays ==
    /\ \A p \in Poll : PollReplays(p)
    /\ \A i \in Idea : IdeaReplays(i)
    /\ \A c \in Comment : CommentReplays(c)

\* Results count one ballot per user, of polls that are or were open and are
\* still there, though a vote is written some time after the poll was read.
VotesCounted ==
    /\ \A b \in ballots : row[b.poll] \in {"open", "closed"}
    /\ \A b, c \in ballots : b.poll = c.poll /\ b.user = c.user => b = c

\* The requests that have read p at a status on which they will vote on it or
\* open it.
Late(p) ==
    {r \in Request :
        /\ pc[r] = "write" /\ op[r].on = p
        /\ \/ op[r].does = "votePoll" /\ read[r] = "open"
           \/ op[r].does = "publish" /\ read[r] = "draft"}

\* No request takes back, by a write based on an older read, what another has
\* done: an open or a closed poll does not become a draft, what was deleted
\* stays deleted.  The exception are votes on a poll and its publication that
\* were under way when it was closed: they are counted, and open it again.
\* Once they are through, it stays closed and its result stays what it is,
\* until it is deleted.
OneWay ==
    [][/\ \A p \in Poll : row[p] \in {"open", "closed"} => row'[p] # "draft"
       /\ \A x \in Content : row[x] = "deleted" => row'[x] = "deleted"
       /\ \A p \in Poll : row[p] = "none" /\ text[p] # NoRequest => row'[p] = "none"
       /\ \A p \in Poll : row[p] = "closed" /\ Late(p) = {} =>
            \/ row'[p] = "none"
            \/ row'[p] = "closed" /\ \A b \in Ballots : b.poll = p => (b \in ballots' <=> b \in ballots)]_vars

=============================================================================
