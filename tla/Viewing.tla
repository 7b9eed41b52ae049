------------------------------- MODULE Viewing -------------------------------
(***************************************************************************)
(* What PollsService, IdeasService and CommentsService answer to a reader  *)
(* while requests of Participation change the rows.                        *)
(*                                                                         *)
(* The statements of an answer see what was committed when each of them    *)
(* began (READ COMMITTED), so the parts of an answer come from different   *)
(* states: a poll, its options and its counts are three.  A limit and an   *)
(* offset cut any page from the rows that match.                           *)
(***************************************************************************)
EXTENDS Participation

CONSTANT Watching   \* the requests of Uses, and what is asked meanwhile

VARIABLES
    query,  \* what the reader asks
    step,   \* the statement that is next, or what became of the answer
    shown   \* the answer, as far as it is read

viewVars == <<vars, query, step, shown>>

PollStatus == {"draft", "open", "closed", "cancelled"}

PollQuery ==
         [asks : {"getPoll"}, of : Poll]
    \cup [asks : {"listPolls"}, status : PollStatus \cup {"any"}]
IdeaQuery ==
         [asks : {"getIdea"}, of : Idea]
    \cup [asks : {"listIdeas"}, status : {"draft"} \cup Moderated]
CommentQuery ==
         [asks : {"getComment"}, of : Comment]
    \cup [asks : {"listComments"}, under : Poll \cup Idea]

NoQuery == [asks |-> "nothing"]
Query == PollQuery \cup IdeaQuery \cup CommentQuery \cup {NoQuery}

ASSUME WatchingAssumption == Watching \subseteq Uses \X Query

ViewInit ==
    /\ Init
    /\ query \in Query
    /\ <<op, query>> \in Watching
    /\ step = "rows"
    /\ shown = [rows |-> {}, options |-> {}, tally |-> <<>>]

Asks(method, at) == query.asks = method /\ step = at
Shows(part, value, next) == shown' = [shown EXCEPT ![part] = value] /\ step' = next
Answered(at) == step' = at /\ UNCHANGED shown

\* executeTakeFirstOrThrow: no row, no answer.
ShowsOne(found, next) == IF found = {} THEN Answered("thrown") ELSE Shows("rows", found, next)

-----------------------------------------------------------------------------
(* Polls.                                                                  *)

toPoll(p) == [id |-> p, status |-> row[p]]

PollsThere == {p \in Poll : row[p] # "none"}

\* A poll is shown whatever its status.
listPolls ==
    /\ Asks("listPolls", "rows")
    /\ \E page \in SUBSET {p \in PollsThere : query.status \in {"any", row[p]}} :
        Shows("rows", {toPoll(p) : p \in page}, "answered")

selectPoll ==
    /\ Asks("getPoll", "rows")
    /\ ShowsOne({toPoll(p) : p \in PollsThere \cap {query.of}}, "options")

\* The options are inserted with their poll and deleted with it.
selectOptions ==
    /\ Asks("getPoll", "options")
    /\ Shows("options", IF query.of \in PollsThere THEN Option ELSE {}, "counts")

\* GROUP BY option_id: an option without votes has no count.
countVotes ==
    LET cast == {b \in ballots : b.poll = query.of}
    IN  /\ Asks("getPoll", "counts")
        /\ Shows("tally",
                 [o \in {b.option : b \in cast} |-> Cardinality({b \in cast : b.option = o})],
                 "answered")

-----------------------------------------------------------------------------
(* Ideas.                                                                  *)

toIdea(i) == [id |-> i, status |-> moderated[i]]

IdeasLive == {i \in Idea : row[i] = "live"}

selectIdea ==
    /\ Asks("getIdea", "rows")
    /\ ShowsOne({toIdea(i) : i \in IdeasLive \cap {query.of}}, "hydrate")

\* Without a status, the published ones.
listIdeas ==
    /\ Asks("listIdeas", "rows")
    /\ \E page \in SUBSET {i \in IdeasLive : moderated[i] = query.status} :
        Shows("rows", {toIdea(i) : i \in page}, IF page = {} THEN "answered" ELSE "hydrate")

\* One query counts the votes of all ideas shown; no row is a count of 0.
hydrate ==
    /\ step = "hydrate"
    /\ Shows("tally",
             [i \in {s.id : s \in shown.rows} |-> Cardinality({v \in upvotes : v[1] = i})],
             "answered")

-----------------------------------------------------------------------------
(* Comments.                                                               *)

\* The audit row of an INSERT commits with it.
Creations(c) == Log("comment.create", c) \cup Log("idea.comment", c)

toComment(c) == [id |-> c, text |-> text[c]]

CommentsVisible == {c \in Comment : row[c] = "visible"}

\* Whether the idea or poll is there is not asked.
listComments ==
    /\ Asks("listComments", "rows")
    /\ \E page \in SUBSET {c \in CommentsVisible : \E r \in Creations(c) : op[r].under = query.under} :
        Shows("rows", {toComment(c) : c \in page}, "answered")

selectComment ==
    /\ Asks("getComment", "rows")
    /\ ShowsOne({toComment(c) : c \in CommentsVisible \cap {query.of}}, "reactions")

selectReactions ==
    /\ Asks("getComment", "reactions")
    /\ Shows("tally",
             [u \in {v[2] : v \in {w \in reactions : w[1] = query.of}} |-> 1],
             "answered")

-----------------------------------------------------------------------------

\* A statement that is refused or a connection that is lost.
ThrowView == step \notin {"answered", "thrown"} /\ query # NoQuery /\ Answered("thrown")

View ==
    /\ \/ listPolls \/ selectPoll \/ selectOptions \/ countVotes
       \/ listIdeas \/ selectIdea \/ hydrate
       \/ listComments \/ selectComment \/ selectReactions
       \/ ThrowView
    /\ UNCHANGED <<vars, query>>

ViewNext == View \/ (Next /\ UNCHANGED <<query, step, shown>>)

ViewSpec == ViewInit /\ [][ViewNext]_viewVars

-----------------------------------------------------------------------------
(* Properties.                                                             *)

\* Each count is of some of the users, and no user is in two of them: the
\* counts together are of no more than the users.
CountsOf(tally, users) ==
    \E counted \in [DOMAIN tally -> SUBSET users] :
        /\ \A x \in DOMAIN tally : Cardinality(counted[x]) = tally[x]
        /\ \A x, y \in DOMAIN tally : x # y => counted[x] \cap counted[y] = {}

\* The users who asked for this of x and whose request says it was done.
Actors(action, x) == {op[r].by : r \in Log(action, x)}

PollAnswerExplained(s) ==
    /\ \/ shown.options = Option
       \/ shown.options = {} /\ Log("poll.delete", s.id) # {}
    /\ DOMAIN shown.tally \subseteq shown.options
    /\ s.status = "open" \/ DOMAIN shown.tally # {} => Log("poll.publish", s.id) # {}
    /\ s.status = "closed" => Log("poll.close", s.id) # {}
    /\ CountsOf(shown.tally, Actors("poll.vote", s.id))

IdeaAnswerExplained(s) ==
    /\ s.status = "draft" \/ \E r \in Log("idea.moderate", s.id) : op[r].status = s.status
    /\ shown.tally[s.id] <= Cardinality({v \in upvotes : v[1] = s.id})

CommentAnswerExplained(s) ==
    /\ s.text \in Creations(s.id) \cup Log("comment.update", s.id)
    /\ DOMAIN shown.tally \subseteq Actors("comment.react.add", s.id)

\* An answer pieced together from several states is explained by the audit
\* log: a poll is shown without its options only if it was deleted, with
\* counts only if it was published, closed only if it was closed, counts are of
\* options shown and of no more votes than users cast; the votes an idea is shown with are there
\* to stay; reactions are shown of users who reacted.
AnswersExplained ==
    step = "answered" =>
        \A s \in shown.rows :
            /\ query.asks = "getPoll" => PollAnswerExplained(s)
            /\ query.asks \in {"getIdea", "listIdeas"} => IdeaAnswerExplained(s)
            /\ query.asks \in {"getComment", "listComments"} => CommentAnswerExplained(s)

=============================================================================
