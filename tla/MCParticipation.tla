--------------------------- MODULE MCParticipation ---------------------------
(***************************************************************************)
(* Participation for TLC: a request that creates a poll, an idea or a      *)
(* comment, and any three that use it, of two users; or any two, while a   *)
(* reader asks for it.  The requests that use it may come before it is     *)
(* there.                                                                  *)
(***************************************************************************)
EXTENDS Viewing, TLC

CONSTANTS poll, idea, post, alice, bob, yes, no

MCRequest == 1..4
MCPoll == {poll}
MCIdea == {idea}
MCComment == {post}
MCUser == {alice, bob}
MCOption == {yes, no}

Do(method, x) == [does |-> method, on |-> x]
Ballot(user, option) == [does |-> "votePoll", on |-> poll, by |-> user, option |-> option]
By(method, x, user) == [does |-> method, on |-> x, by |-> user]
Moderate(to) == [does |-> "moderate", on |-> idea, status |-> to]
Under == [does |-> "createComment", on |-> post, under |-> idea]
CommentUnder(x) == [does |-> "comment", on |-> post, under |-> x]

OnPolls == {Do("updatePoll", poll), Do("deletePoll", poll), Do("publish", poll),
            Do("patchPoll", poll), Do("closePoll", poll), Ballot(alice, yes), Ballot(alice, no), Ballot(bob, yes)}
OnIdeas == {Do("updateIdea", idea), Do("deleteIdea", idea), Moderate("published"), Moderate("rejected"),
            By("voteIdea", idea, alice), By("voteIdea", idea, bob), By("unvote", idea, alice), Under}
OnComments == {Do("updateComment", post), Do("deleteComment", post),
               By("react", post, alice), By("react", post, bob)}

CreateAnd(creation, operations) == {<<creation, a, b, c>> : a, b, c \in operations}

MCUses ==
         CreateAnd(Do("createPoll", poll), OnPolls)
    \cup CreateAnd(Do("createIdea", idea), OnIdeas)
    \cup CreateAnd(CommentUnder(poll), OnComments)

Asked(method, x) == [asks |-> method, of |-> x]
Listed(method, status) == [asks |-> method, status |-> status]
ListedUnder(x) == [asks |-> "listComments", under |-> x]

\* Each query with the requests that change what it shows.
MCWatching ==
         MCUses \X {NoQuery}
    \cup CreateAnd(Do("createPoll", poll), OnPolls) \X {Asked("getPoll", poll)}
    \cup {<<Do("createPoll", poll), Do("publish", poll), a, Do("updatePoll", poll)>> :
             a \in {Do("deletePoll", poll), Do("closePoll", poll)}}
            \X {Listed("listPolls", "any"), Listed("listPolls", "open")}
    \cup {<<Do("createIdea", idea), Moderate("published"), a, b>> : a, b \in OnIdeas}
            \X {Asked("getIdea", idea), Listed("listIdeas", "published"), ListedUnder(idea)}
    \cup CreateAnd(CommentUnder(poll), OnComments) \X {Asked("getComment", post), ListedUnder(poll)}

=============================================================================
