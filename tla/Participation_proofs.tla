------------------------ MODULE Participation_proofs ------------------------
(***************************************************************************)
(* Votes are counted on open polls only, no request takes back what        *)
(* another has done, the audit log tells the state of every row and        *)
(* explains every answer: for any requests, users, polls, ideas, comments, *)
(* options and readers.                                                    *)
(***************************************************************************)
EXTENDS Viewing, FiniteSetTheorems, TLAPS

OfPolls == {"createPoll", "updatePoll", "deletePoll", "publish", "votePoll", "patchPoll", "closePoll"}
OfIdeas == {"createIdea", "updateIdea", "deleteIdea", "moderate", "voteIdea", "unvote"}
OfComments == {"comment", "createComment", "updateComment", "deleteComment", "react"}

\* The target of an operation is of the kind its method works on.
LEMMA Targets ==
    ASSUME NEW o \in Operation
    PROVE  /\ o.on \in Content
           /\ o.does \in OfPolls => o.on \in Poll
           /\ o.does \in OfIdeas => o.on \in Idea
           /\ o.does \in OfComments => o.on \in Comment
           /\ o.does = "createComment" => o.under \in Idea
           /\ o.does = "votePoll" => o.by \in User /\ o.option \in Option
           /\ o.does \in {"voteIdea", "react"} => o.by \in User
           /\ o.does = "moderate" => o.status \in Moderated
BY DEF Operation, PollBody, IdeaBody, CommentBody, Moderated, Content, OfPolls, OfIdeas, OfComments

LEMMA PollTarget ==
    ASSUME TypeOK, NEW r \in Request, op[r].does \in OfPolls
    PROVE  /\ op[r] \in Operation
           /\ op[r].on \in Poll /\ op[r].on \notin Idea /\ op[r].on \notin Comment
           /\ op[r].on \in Content
           /\ op[r].does = "votePoll" => op[r].by \in User /\ op[r].option \in Option
BY Targets, DisjointAssumption DEF TypeOK

LEMMA IdeaTarget ==
    ASSUME TypeOK, NEW r \in Request, op[r].does \in OfIdeas
    PROVE  /\ op[r] \in Operation
           /\ op[r].on \in Idea /\ op[r].on \notin Poll /\ op[r].on \notin Comment
           /\ op[r].on \in Content
           /\ op[r].does = "voteIdea" => op[r].by \in User
           /\ op[r].does = "moderate" => op[r].status \in Moderated
BY Targets, DisjointAssumption DEF TypeOK

LEMMA CommentTarget ==
    ASSUME TypeOK, NEW r \in Request, op[r].does \in OfComments
    PROVE  /\ op[r] \in Operation
           /\ op[r].on \in Comment /\ op[r].on \notin Poll /\ op[r].on \notin Idea
           /\ op[r].on \in Content
           /\ op[r].does = "react" => op[r].by \in User
BY Targets, DisjointAssumption DEF TypeOK

\* What each request keeps for itself.
LocalsTyped ==
    /\ pc \in [Request -> Place]
    /\ op \in [Request -> Operation]
    /\ read \in [Request -> Standing]

\* A step that changes one row to a state of its kind, or none.
LEMMA RowsStayTyped ==
    ASSUME TypeOK, NEW x \in Content, NEW state \in Standing, Becomes(x, state),
           x \in Poll => state \in PollRow,
           x \in Idea => state \in IdeaRow,
           x \in Comment => state \in CommentRow
    PROVE  RowsTyped'
BY DEF TypeOK, RowsTyped, Becomes, Content

LEMMA TextStaysTyped ==
    ASSUME TypeOK, NEW r \in Request, Rewritten(r)
    PROVE  text' \in [Content -> Request \cup {NoRequest}]
BY DEF TypeOK, Rewritten

LEMMA LogStaysTyped ==
    ASSUME TypeOK, NEW r \in Request, NEW action \in Action, Audited(r, action)
    PROVE  audit' \subseteq [by : Request, action : Action] /\ LocalsTyped'
BY DEF TypeOK, Audited, Finish, Place, LocalsTyped

LEMMA FinishTyped ==
    ASSUME TypeOK, NEW r \in Request, Finish(r)
    PROVE  LocalsTyped'
BY DEF TypeOK, Finish, Place, LocalsTyped

LEMMA InitTyped == Init => TypeOK
BY UsesAssumption DEF Init, TypeOK, RowsTyped, Standing, PollRow, IdeaRow, CommentRow, Content, Blind, Place

LEMMA NextTyped == TypeOK /\ [Next]_vars => TypeOK'
<1> SUFFICES ASSUME TypeOK, [Next]_vars PROVE TypeOK'
  OBVIOUS
<1> USE DEF contents
<1>1. ASSUME NEW r \in Request, Select(r) PROVE TypeOK'
  <2>1. row[Looked(op[r])] \in Standing
    BY Targets DEF TypeOK, RowsTyped, Looked, Content
  <2>2. QED
    BY <1>1, <2>1 DEF Select, TypeOK, RowsTyped, Place
<1>2. ASSUME NEW r \in Request, SelectReaction(r) PROVE TypeOK'
  BY <1>2 DEF SelectReaction, TypeOK, RowsTyped, Place
<1>3. ASSUME NEW r \in Request, Throw(r) PROVE TypeOK'
  BY <1>3, FinishTyped DEF Throw, TypeOK, RowsTyped, LocalsTyped
<1>4. ASSUME NEW r \in Request, createPoll(r) PROVE TypeOK'
  <2>1. op[r].does \in OfPolls
    BY <1>4 DEF createPoll, At, OfPolls
  <2>2. op[r].on \in Poll /\ op[r].on \notin Idea /\ op[r].on \notin Comment /\ op[r].on \in Content
    BY <2>1, PollTarget
  <2>3. RowsTyped'
    BY <1>4, <2>2, RowsStayTyped DEF createPoll, Created, Standing, PollRow, IdeaRow, CommentRow
  <2>4. text' \in [Content -> Request \cup {NoRequest}]
    BY <1>4, TextStaysTyped DEF createPoll, Created
  <2>5. audit' \subseteq [by : Request, action : Action] /\ LocalsTyped'
    BY <1>4, LogStaysTyped DEF createPoll, Action
  <2>6. QED
    BY <1>4, <2>3, <2>4, <2>5 DEF createPoll, TypeOK, RowsTyped, LocalsTyped
<1>5. ASSUME NEW r \in Request, updatePoll(r) PROVE TypeOK'
  <2>1. op[r].does \in OfPolls
    BY <1>5 DEF updatePoll, At, OfPolls
  <2>2. op[r].on \in Poll /\ op[r].on \notin Idea /\ op[r].on \notin Comment /\ op[r].on \in Content
    BY <2>1, PollTarget
  <2>3. text' \in [Content -> Request \cup {NoRequest}]
    BY <1>5, TextStaysTyped DEF updatePoll
  <2>4. audit' \subseteq [by : Request, action : Action] /\ LocalsTyped'
    BY <1>5, LogStaysTyped DEF updatePoll, Action
  <2>5. QED
    BY <1>5, <2>3, <2>4 DEF updatePoll, TypeOK, RowsTyped, LocalsTyped
<1>6. ASSUME NEW r \in Request, deletePoll(r) PROVE TypeOK'
  <2>1. op[r].does \in OfPolls
    BY <1>6 DEF deletePoll, At, OfPolls
  <2>2. op[r].on \in Poll /\ op[r].on \notin Idea /\ op[r].on \notin Comment /\ op[r].on \in Content
    BY <2>1, PollTarget
  <2>3. RowsTyped'
    BY <1>6, <2>2, RowsStayTyped DEF deletePoll, Standing, PollRow, IdeaRow, CommentRow
  <2>4. ballots' \subseteq Ballots
    BY <1>6, <2>1, <2>2, PollTarget DEF deletePoll, At, TypeOK, Ballots
  <2>5. audit' \subseteq [by : Request, action : Action] /\ LocalsTyped'
    BY <1>6, LogStaysTyped DEF deletePoll, Action
  <2>6. QED
    BY <1>6, <2>3, <2>4, <2>5 DEF deletePoll, TypeOK, RowsTyped, LocalsTyped
<1>7. ASSUME NEW r \in Request, publish(r) PROVE TypeOK'
  <2>1. op[r].does \in OfPolls
    BY <1>7 DEF publish, At, OfPolls
  <2>2. op[r].on \in Poll /\ op[r].on \notin Idea /\ op[r].on \notin Comment /\ op[r].on \in Content
    BY <2>1, PollTarget
  <2>3. RowsTyped'
    BY <1>7, <2>2, RowsStayTyped DEF publish, Standing, PollRow, IdeaRow, CommentRow, TypeOK, RowsTyped
  <2>4. audit' \subseteq [by : Request, action : Action] /\ LocalsTyped'
    BY <1>7, LogStaysTyped, FinishTyped DEF publish, Action, TypeOK
  <2>5. QED
    BY <1>7, <2>3, <2>4 DEF publish, TypeOK, RowsTyped, LocalsTyped
<1>8. ASSUME NEW r \in Request, votePoll(r) PROVE TypeOK'
  <2>1. op[r].does \in OfPolls
    BY <1>8 DEF votePoll, At, OfPolls
  <2>2. op[r].on \in Poll /\ op[r].on \notin Idea /\ op[r].on \notin Comment /\ op[r].on \in Content
    BY <2>1, PollTarget
  <2>3. ballots' \subseteq Ballots
    BY <1>8, <2>1, <2>2, PollTarget DEF votePoll, At, TypeOK, Ballots
  <2>4. audit' \subseteq [by : Request, action : Action] /\ LocalsTyped'
    BY <1>8, LogStaysTyped DEF votePoll, Action
  <2>5. QED
    BY <1>8, <2>3, <2>4 DEF votePoll, TypeOK, RowsTyped, LocalsTyped
<1>9. ASSUME NEW r \in Request, createIdea(r) PROVE TypeOK'
  <2>1. op[r].does \in OfIdeas
    BY <1>9 DEF createIdea, At, OfIdeas
  <2>2. op[r].on \in Idea /\ op[r].on \notin Poll /\ op[r].on \notin Comment /\ op[r].on \in Content
    BY <2>1, IdeaTarget
  <2>3. RowsTyped'
    BY <1>9, <2>2, RowsStayTyped DEF createIdea, Created, Standing, PollRow, IdeaRow, CommentRow
  <2>4. text' \in [Content -> Request \cup {NoRequest}]
    BY <1>9, TextStaysTyped DEF createIdea, Created
  <2>5. audit' \subseteq [by : Request, action : Action] /\ LocalsTyped'
    BY <1>9, LogStaysTyped DEF createIdea, Action
  <2>6. QED
    BY <1>9, <2>3, <2>4, <2>5 DEF createIdea, TypeOK, RowsTyped, LocalsTyped
<1>10. ASSUME NEW r \in Request, updateIdea(r) PROVE TypeOK'
  <2>1. op[r].does \in OfIdeas
    BY <1>10 DEF updateIdea, At, OfIdeas
  <2>2. op[r].on \in Idea /\ op[r].on \notin Poll /\ op[r].on \notin Comment /\ op[r].on \in Content
    BY <2>1, IdeaTarget
  <2>3. text' \in [Content -> Request \cup {NoRequest}]
    BY <1>10, TextStaysTyped DEF updateIdea
  <2>4. audit' \subseteq [by : Request, action : Action] /\ LocalsTyped'
    BY <1>10, LogStaysTyped DEF updateIdea, Action
  <2>5. QED
    BY <1>10, <2>3, <2>4 DEF updateIdea, TypeOK, RowsTyped, LocalsTyped
<1>11. ASSUME NEW r \in Request, deleteIdea(r) PROVE TypeOK'
  <2>1. op[r].does \in OfIdeas
    BY <1>11 DEF deleteIdea, At, OfIdeas
  <2>2. op[r].on \in Idea /\ op[r].on \notin Poll /\ op[r].on \notin Comment /\ op[r].on \in Content
    BY <2>1, IdeaTarget
  <2>3. RowsTyped'
    BY <1>11, <2>2, RowsStayTyped DEF deleteIdea, Standing, PollRow, IdeaRow, CommentRow
  <2>4. audit' \subseteq [by : Request, action : Action] /\ LocalsTyped'
    BY <1>11, LogStaysTyped DEF deleteIdea, Action
  <2>5. QED
    BY <1>11, <2>3, <2>4 DEF deleteIdea, TypeOK, RowsTyped, LocalsTyped
<1>12. ASSUME NEW r \in Request, moderate(r) PROVE TypeOK'
  <2>1. op[r].does \in OfIdeas
    BY <1>12 DEF moderate, At, OfIdeas
  <2>2. op[r].on \in Idea /\ op[r].on \notin Poll /\ op[r].on \notin Comment /\ op[r].on \in Content
    BY <2>1, IdeaTarget
  <2>3. moderated' \in [Idea -> {"draft"} \cup Moderated]
    BY <1>12, <2>1, <2>2, IdeaTarget DEF moderate, At, TypeOK
  <2>4. audit' \subseteq [by : Request, action : Action] /\ LocalsTyped'
    BY <1>12, LogStaysTyped DEF moderate, Action
  <2>5. QED
    BY <1>12, <2>3, <2>4 DEF moderate, TypeOK, RowsTyped, LocalsTyped
<1>13. ASSUME NEW r \in Request, voteIdea(r) PROVE TypeOK'
  <2>1. op[r].does \in OfIdeas
    BY <1>13 DEF voteIdea, At, OfIdeas
  <2>2. op[r].on \in Idea /\ op[r].on \notin Poll /\ op[r].on \notin Comment /\ op[r].on \in Content
    BY <2>1, IdeaTarget
  <2>3. upvotes' \subseteq Idea \X User
    BY <1>13, <2>1, <2>2, IdeaTarget DEF voteIdea, At, TypeOK
  <2>4. audit' \subseteq [by : Request, action : Action] /\ LocalsTyped'
    BY <1>13, LogStaysTyped, FinishTyped DEF voteIdea, Action, TypeOK
  <2>5. QED
    BY <1>13, <2>3, <2>4 DEF voteIdea, TypeOK, RowsTyped, LocalsTyped
<1>14. ASSUME NEW r \in Request, unvote(r) PROVE TypeOK'
  BY <1>3, <1>14 DEF unvote
<1>15. ASSUME NEW r \in Request, comment(r) PROVE TypeOK'
  <2>1. op[r].does \in OfComments
    BY <1>15 DEF comment, At, OfComments
  <2>2. op[r].on \in Comment /\ op[r].on \notin Poll /\ op[r].on \notin Idea /\ op[r].on \in Content
    BY <2>1, CommentTarget
  <2>3. RowsTyped'
    BY <1>15, <2>2, RowsStayTyped DEF comment, Created, Standing, PollRow, IdeaRow, CommentRow
  <2>4. text' \in [Content -> Request \cup {NoRequest}]
    BY <1>15, TextStaysTyped DEF comment, Created
  <2>5. audit' \subseteq [by : Request, action : Action] /\ LocalsTyped'
    BY <1>15, LogStaysTyped DEF comment, Action
  <2>6. QED
    BY <1>15, <2>3, <2>4, <2>5 DEF comment, TypeOK, RowsTyped, LocalsTyped
<1>16. ASSUME NEW r \in Request, createComment(r) PROVE TypeOK'
  <2>1. op[r].does \in OfComments
    BY <1>16 DEF createComment, At, OfComments
  <2>2. op[r].on \in Comment /\ op[r].on \notin Poll /\ op[r].on \notin Idea /\ op[r].on \in Content
    BY <2>1, CommentTarget
  <2>3. RowsTyped'
    BY <1>16, <2>2, RowsStayTyped DEF createComment, Created, Standing, PollRow, IdeaRow, CommentRow
  <2>4. text' \in [Content -> Request \cup {NoRequest}]
    BY <1>16, TextStaysTyped DEF createComment, Created
  <2>5. audit' \subseteq [by : Request, action : Action] /\ LocalsTyped'
    BY <1>16, LogStaysTyped DEF createComment, Action
  <2>6. QED
    BY <1>16, <2>3, <2>4, <2>5 DEF createComment, TypeOK, RowsTyped, LocalsTyped
<1>17. ASSUME NEW r \in Request, updateComment(r) PROVE TypeOK'
  <2>1. op[r].does \in OfComments
    BY <1>17 DEF updateComment, At, OfComments
  <2>2. op[r].on \in Comment /\ op[r].on \notin Poll /\ op[r].on \notin Idea /\ op[r].on \in Content
    BY <2>1, CommentTarget
  <2>3. text' \in [Content -> Request \cup {NoRequest}]
    BY <1>17, TextStaysTyped DEF updateComment
  <2>4. audit' \subseteq [by : Request, action : Action] /\ LocalsTyped'
    BY <1>17, LogStaysTyped DEF updateComment, Action
  <2>5. QED
    BY <1>17, <2>3, <2>4 DEF updateComment, TypeOK, RowsTyped, LocalsTyped
<1>18. ASSUME NEW r \in Request, deleteComment(r) PROVE TypeOK'
  <2>1. op[r].does \in OfComments
    BY <1>18 DEF deleteComment, At, OfComments
  <2>2. op[r].on \in Comment /\ op[r].on \notin Poll /\ op[r].on \notin Idea /\ op[r].on \in Content
    BY <2>1, CommentTarget
  <2>3. RowsTyped'
    BY <1>18, <2>2, RowsStayTyped DEF deleteComment, Standing, PollRow, IdeaRow, CommentRow
  <2>4. audit' \subseteq [by : Request, action : Action] /\ LocalsTyped'
    BY <1>18, LogStaysTyped DEF deleteComment, Action
  <2>5. QED
    BY <1>18, <2>3, <2>4 DEF deleteComment, TypeOK, RowsTyped, LocalsTyped
<1>19. ASSUME NEW r \in Request, react(r) PROVE TypeOK'
  <2>1. op[r].does \in OfComments
    BY <1>19 DEF react, OfComments
  <2>2. op[r].on \in Comment /\ op[r].on \notin Poll /\ op[r].on \notin Idea /\ op[r].on \in Content
    BY <2>1, CommentTarget
  <2>3. reactions' \subseteq Comment \X User
    BY <1>19, <2>1, <2>2, CommentTarget DEF react, At, TypeOK
  <2>4. audit' \subseteq [by : Request, action : Action] /\ LocalsTyped'
    BY <1>19, LogStaysTyped DEF react, Action
  <2>5. QED
    BY <1>19, <2>3, <2>4 DEF react, TypeOK, RowsTyped, LocalsTyped
<1>20. ASSUME NEW r \in Request, patchPoll(r) PROVE TypeOK'
  <2>1. text' \in [Content -> Request \cup {NoRequest}]
    BY <1>20, TextStaysTyped DEF patchPoll, TypeOK
  <2>2. audit' \subseteq [by : Request, action : Action] /\ LocalsTyped'
    BY <1>20, LogStaysTyped DEF patchPoll, Action
  <2>3. QED
    BY <1>20, <2>1, <2>2 DEF patchPoll, TypeOK, RowsTyped, LocalsTyped
<1>21. ASSUME NEW r \in Request, closePoll(r) PROVE TypeOK'
  <2>1. op[r].does \in OfPolls
    BY <1>21 DEF closePoll, At, OfPolls
  <2>2. op[r].on \in Poll /\ op[r].on \notin Idea /\ op[r].on \notin Comment /\ op[r].on \in Content
    BY <2>1, PollTarget
  <2>3. RowsTyped'
    BY <1>21, <2>2, RowsStayTyped DEF closePoll, Standing, PollRow, IdeaRow, CommentRow, TypeOK, RowsTyped
  <2>4. audit' \subseteq [by : Request, action : Action] /\ LocalsTyped'
    BY <1>21, LogStaysTyped DEF closePoll, Action
  <2>5. QED
    BY <1>21, <2>3, <2>4 DEF closePoll, TypeOK, RowsTyped, LocalsTyped
<1>22. CASE UNCHANGED vars
  BY <1>22 DEF vars, TypeOK, RowsTyped
<1> QED
  BY <1>1, <1>2, <1>3, <1>4, <1>5, <1>6, <1>7, <1>8, <1>9, <1>10, <1>11, <1>12, <1>13, <1>14,
     <1>15, <1>16, <1>17, <1>18, <1>19, <1>20, <1>21, <1>22 DEF Next, PollsController, AdminPollsController, IdeasController, CommentsController

\* TypeOK is an invariant.
THEOREM TypeCorrect == Spec => []TypeOK
BY InitTyped, NextTyped, PTL DEF Spec

-----------------------------------------------------------------------------
(* What a step does to rows, texts and ballots.                            *)

\* Whoever read a row as being there read one that was created.
SeenInv == \A r \in Request : read[r] # "none" => text[Looked(op[r])] # NoRequest

Effect ==
    \/ row' = row /\ text' = text
    \/ \E r \in Request : row' = row /\ Rewritten(r)
    \/ \E r \in Request, state \in Standing \ {"deleted"} :
        Created(r, state) /\ (op[r].on \in Poll => state = "draft")
    \/ \E x \in Content \ Poll : text[x] # NoRequest /\ Becomes(x, "deleted") /\ text' = text
    \/ \E p \in Poll : Becomes(p, "none") /\ text' = text /\ ballots' = {b \in ballots : b.poll # p}
    \/ \E r \in Request : publish(r) /\ op[r].on \in Poll /\ row[op[r].on] # "none" /\ read[r] = "draft"
                         /\ Becomes(op[r].on, "open") /\ text' = text
    \/ \E p \in Poll : row[p] # "none" /\ Becomes(p, "closed") /\ text' = text

BallotEffect ==
    \/ ballots' = ballots
    \/ \E p \in Poll : Becomes(p, "none") /\ ballots' = {b \in ballots : b.poll # p}
    \/ \E r \in Request : votePoll(r)

LEMMA StepEffect == TypeOK /\ SeenInv /\ [Next]_vars => Effect /\ BallotEffect
<1> SUFFICES ASSUME TypeOK, SeenInv, [Next]_vars PROVE Effect /\ BallotEffect
  OBVIOUS
<1> USE DEF contents
<1>1. ASSUME NEW r \in Request, Select(r) PROVE Effect /\ BallotEffect
  BY <1>1 DEF Select, Effect, BallotEffect
<1>2. ASSUME NEW r \in Request, SelectReaction(r) PROVE Effect /\ BallotEffect
  BY <1>2 DEF SelectReaction, Effect, BallotEffect
<1>3. ASSUME NEW r \in Request, Throw(r) PROVE Effect /\ BallotEffect
  BY <1>3 DEF Throw, Effect, BallotEffect
<1>4. ASSUME NEW r \in Request, createPoll(r) PROVE Effect /\ BallotEffect
  <2>1. op[r].on \in Poll /\ op[r].on \in Content
    BY <1>4, PollTarget DEF createPoll, At, OfPolls
  <2>2. Created(r, "draft") /\ "draft" \in Standing \ {"deleted"}
    BY <1>4 DEF createPoll, Standing, PollRow, IdeaRow, CommentRow
  <2>3. QED
    BY <1>4, <2>1, <2>2 DEF createPoll, Effect, BallotEffect
<1>5. ASSUME NEW r \in Request, updatePoll(r) PROVE Effect /\ BallotEffect
  BY <1>5 DEF updatePoll, Effect, BallotEffect
<1>6. ASSUME NEW r \in Request, deletePoll(r) PROVE Effect /\ BallotEffect
  <2>1. op[r].on \in Poll /\ op[r].on \in Content
    BY <1>6, PollTarget DEF deletePoll, At, OfPolls
  <2>2. QED
    BY <1>6, <2>1 DEF deletePoll, Effect, BallotEffect
<1>7. ASSUME NEW r \in Request, publish(r) PROVE Effect /\ BallotEffect
  <2>1. op[r].on \in Poll /\ op[r].on \in Content
    BY <1>7, PollTarget DEF publish, At, OfPolls
  <2>2. BallotEffect /\ text' = text /\ row[op[r].on] # "none"
    BY <1>7 DEF publish, BallotEffect
  <2>3. row' = row \/ (read[r] = "draft" /\ Becomes(op[r].on, "open"))
    BY <1>7 DEF publish
  <2>4. QED
    BY <1>7, <2>1, <2>2, <2>3 DEF Effect
<1>8. ASSUME NEW r \in Request, votePoll(r) PROVE Effect /\ BallotEffect
  BY <1>8 DEF votePoll, Effect, BallotEffect
<1>9. ASSUME NEW r \in Request, createIdea(r) PROVE Effect /\ BallotEffect
  <2>1. op[r].on \in Idea /\ op[r].on \in Content /\ op[r].on \notin Poll
    BY <1>9, IdeaTarget DEF createIdea, At, OfIdeas
  <2>2. Created(r, "live") /\ "live" \in Standing \ {"deleted"}
    BY <1>9 DEF createIdea, Standing, PollRow, IdeaRow, CommentRow
  <2>3. QED
    BY <1>9, <2>1, <2>2 DEF createIdea, Effect, BallotEffect
<1>10. ASSUME NEW r \in Request, updateIdea(r) PROVE Effect /\ BallotEffect
  BY <1>10 DEF updateIdea, Effect, BallotEffect
<1>11. ASSUME NEW r \in Request, deleteIdea(r) PROVE Effect /\ BallotEffect
  <2>1. op[r].on \in Idea /\ op[r].on \in Content /\ op[r].on \notin Poll
    BY <1>11, IdeaTarget DEF deleteIdea, At, OfIdeas
  <2>2. text[op[r].on] # NoRequest
    BY <1>11 DEF deleteIdea, At, SeenInv, Looked
  <2>3. QED
    BY <1>11, <2>1, <2>2 DEF deleteIdea, Effect, BallotEffect
<1>12. ASSUME NEW r \in Request, moderate(r) PROVE Effect /\ BallotEffect
  BY <1>12 DEF moderate, Effect, BallotEffect
<1>13. ASSUME NEW r \in Request, voteIdea(r) PROVE Effect /\ BallotEffect
  BY <1>13 DEF voteIdea, Effect, BallotEffect
<1>14. ASSUME NEW r \in Request, unvote(r) PROVE Effect /\ BallotEffect
  BY <1>3, <1>14 DEF unvote
<1>15. ASSUME NEW r \in Request, comment(r) PROVE Effect /\ BallotEffect
  <2>1. op[r].on \in Comment /\ op[r].on \in Content /\ op[r].on \notin Poll
    BY <1>15, CommentTarget DEF comment, At, OfComments
  <2>2. Created(r, "visible") /\ "visible" \in Standing \ {"deleted"}
    BY <1>15 DEF comment, Standing, PollRow, IdeaRow, CommentRow
  <2>3. QED
    BY <1>15, <2>1, <2>2 DEF comment, Effect, BallotEffect
<1>16. ASSUME NEW r \in Request, createComment(r) PROVE Effect /\ BallotEffect
  <2>1. op[r].on \in Comment /\ op[r].on \in Content /\ op[r].on \notin Poll
    BY <1>16, CommentTarget DEF createComment, At, OfComments
  <2>2. Created(r, "visible") /\ "visible" \in Standing \ {"deleted"}
    BY <1>16 DEF createComment, Standing, PollRow, IdeaRow, CommentRow
  <2>3. QED
    BY <1>16, <2>1, <2>2 DEF createComment, Effect, BallotEffect
<1>17. ASSUME NEW r \in Request, updateComment(r) PROVE Effect /\ BallotEffect
  BY <1>17 DEF updateComment, Effect, BallotEffect
<1>18. ASSUME NEW r \in Request, deleteComment(r) PROVE Effect /\ BallotEffect
  <2>1. op[r].on \in Comment /\ op[r].on \in Content /\ op[r].on \notin Poll
    BY <1>18, CommentTarget DEF deleteComment, At, OfComments
  <2>2. text[op[r].on] # NoRequest
    BY <1>18 DEF deleteComment, requireAuthorOrModerator, At, SeenInv, Looked
  <2>3. QED
    BY <1>18, <2>1, <2>2 DEF deleteComment, Effect, BallotEffect
<1>19. ASSUME NEW r \in Request, react(r) PROVE Effect /\ BallotEffect
  BY <1>19 DEF react, Effect, BallotEffect
<1>20. ASSUME NEW r \in Request, patchPoll(r) PROVE Effect /\ BallotEffect
  BY <1>20 DEF patchPoll, Effect, BallotEffect
<1>21. ASSUME NEW r \in Request, closePoll(r) PROVE Effect /\ BallotEffect
  <2>1. op[r].on \in Poll
    BY <1>21, PollTarget DEF closePoll, At, OfPolls
  <2>2. QED
    BY <1>21, <2>1 DEF closePoll, Effect, BallotEffect
<1>22. CASE UNCHANGED vars
  BY <1>22 DEF vars, Effect, BallotEffect
<1> QED
  BY <1>1, <1>2, <1>3, <1>4, <1>5, <1>6, <1>7, <1>8, <1>9, <1>10, <1>11, <1>12, <1>13, <1>14,
     <1>15, <1>16, <1>17, <1>18, <1>19, <1>20, <1>21, <1>22 DEF Next, PollsController, AdminPollsController, IdeasController, CommentsController

-----------------------------------------------------------------------------
(* The inductive invariant.                                                *)

\* What has no text was never created, and so is not there.
CreatedInv == \A x \in Content : text[x] = NoRequest => row[x] = "none"

\* Whoever read a poll open finds it open, closed or gone when it writes.
OpenInv ==
    \A r \in Request :
        op[r].does = "votePoll" /\ read[r] = "open" => row[op[r].on] \in {"open", "closed", "none"}

IInv == TypeOK /\ CreatedInv /\ SeenInv /\ OpenInv /\ VotesCounted

LEMMA InitInvariant == Init => IInv
BY InitTyped DEF Init, IInv, CreatedInv, SeenInv, OpenInv, VotesCounted

\* A row that was created stays created; an open or a closed poll does not
\* become a draft; one that is gone stays gone; a deleted row stays deleted.
LEMMA Monotone ==
    ASSUME TypeOK, CreatedInv, Effect, NEW x \in Content
    PROVE  /\ text[x] # NoRequest => text'[x] # NoRequest
           /\ text'[x] = NoRequest => row'[x] = "none"
           /\ x \in Poll /\ row[x] \in {"open", "closed"} => row'[x] \in {"open", "closed", "none"}
           /\ x \in Poll /\ row[x] = "none" /\ text[x] # NoRequest => row'[x] = "none"
           /\ row[x] = "deleted" => row'[x] = "deleted"
           /\ x \in Poll /\ row[x] \in {"open", "closed"} /\ row'[x] = "none" => \A b \in ballots' : b.poll # x
<1> DEFINE Goal ==
           /\ text[x] # NoRequest => text'[x] # NoRequest
           /\ text'[x] = NoRequest => row'[x] = "none"
           /\ x \in Poll /\ row[x] \in {"open", "closed"} => row'[x] \in {"open", "closed", "none"}
           /\ x \in Poll /\ row[x] = "none" /\ text[x] # NoRequest => row'[x] = "none"
           /\ row[x] = "deleted" => row'[x] = "deleted"
           /\ x \in Poll /\ row[x] \in {"open", "closed"} /\ row'[x] = "none" => \A b \in ballots' : b.poll # x
<1> USE NoRequestAssumption DEF TypeOK, RowsTyped, PollRow, IdeaRow, CommentRow, Standing, CreatedInv
<1>1. CASE row' = row /\ text' = text
  BY <1>1
<1>2. ASSUME NEW r \in Request, row' = row, Rewritten(r) PROVE Goal
  BY <1>2 DEF Rewritten
<1>3. ASSUME NEW r \in Request, NEW state \in Standing \ {"deleted"}, Created(r, state),
             op[r].on \in Poll => state = "draft"
      PROVE  Goal
  BY <1>3 DEF Created, Becomes, Rewritten
<1>4. ASSUME NEW y \in Content \ Poll, text[y] # NoRequest, Becomes(y, "deleted"), text' = text PROVE Goal
  BY <1>4, DisjointAssumption DEF Becomes, Content
<1>5. ASSUME NEW p \in Poll, Becomes(p, "none"), text' = text, ballots' = {b \in ballots : b.poll # p} PROVE Goal
  BY <1>5 DEF Becomes
<1>6. ASSUME NEW p \in Poll, row[p] # "none", NEW state \in {"open", "closed"}, Becomes(p, state), text' = text
      PROVE  Goal
  BY <1>6 DEF Becomes
<1> QED
  BY <1>1, <1>2, <1>3, <1>4, <1>5, <1>6 DEF Effect

\* Only Select changes what a request has read.
LEMMA Reads ==
    ASSUME TypeOK, [Next]_vars, NEW r \in Request
    PROVE  /\ op' = op
           /\ \/ read'[r] = read[r]
              \/ read'[r] = row[Looked(op[r])] /\ row' = row /\ text' = text
<1> USE DEF TypeOK, contents
<1> DEFINE Kept == op' = op /\ read'[r] = read[r]
<1>1. ASSUME NEW q \in Request, Select(q)
      PROVE  /\ op' = op
             /\ \/ Kept
                \/ read'[r] = row[Looked(op[r])] /\ row' = row /\ text' = text
  BY <1>1 DEF Select
<1>2. ASSUME NEW q \in Request, SelectReaction(q) \/ Throw(q) \/ unvote(q) PROVE Kept
  BY <1>2 DEF SelectReaction, Throw, unvote, Finish
<1>3. ASSUME NEW q \in Request,
             \/ createPoll(q) \/ updatePoll(q) \/ deletePoll(q) \/ publish(q) \/ votePoll(q)
             \/ patchPoll(q) \/ closePoll(q)
             \/ createIdea(q) \/ updateIdea(q) \/ deleteIdea(q) \/ moderate(q) \/ voteIdea(q)
             \/ comment(q) \/ createComment(q) \/ updateComment(q) \/ deleteComment(q) \/ react(q)
      PROVE  Kept
  BY <1>3
  DEF Audited, Finish, createPoll, updatePoll, deletePoll, publish, votePoll, patchPoll, closePoll, createIdea, updateIdea,
      deleteIdea, moderate, voteIdea, comment, createComment, updateComment, deleteComment, react
<1>4. CASE UNCHANGED vars
  BY <1>4 DEF vars
<1> QED
  BY <1>1, <1>2, <1>3, <1>4 DEF Next, PollsController, AdminPollsController, IdeasController, CommentsController

LEMMA NextInvariant == IInv /\ [Next]_vars => IInv'
<1> SUFFICES ASSUME IInv, [Next]_vars PROVE IInv'
  OBVIOUS
<1>1. TypeOK /\ TypeOK' /\ CreatedInv /\ SeenInv /\ OpenInv /\ VotesCounted
  BY NextTyped DEF IInv
<1>2. Effect /\ BallotEffect
  BY <1>1, StepEffect
<1>3. CreatedInv'
  BY <1>1, <1>2, Monotone DEF CreatedInv
<1>4. SeenInv'
  <2>1. ASSUME NEW r \in Request, read'[r] # "none" PROVE text'[Looked(op[r])] # NoRequest
    <3>1. Looked(op[r]) \in Content
      BY <1>1, Targets DEF TypeOK, Looked, Content
    <3>2. text[Looked(op[r])] # NoRequest
      BY <1>1, <2>1, <3>1, Reads DEF SeenInv, CreatedInv
    <3>3. QED
      BY <1>1, <1>2, <3>1, <3>2, Monotone
  <2>2. ASSUME NEW r \in Request PROVE op' = op
    BY <1>1, Reads
  <2>3. QED
    BY <2>1, <2>2 DEF SeenInv, Looked
<1>5. OpenInv'
  <2>1. ASSUME NEW r \in Request, op[r].does = "votePoll", read'[r] = "open"
        PROVE  row'[op[r].on] \in {"open", "closed", "none"}
    <3>1. op[r].on \in Poll /\ op[r].on \in Content
      BY <1>1, <2>1, Targets DEF TypeOK, OfPolls
    <3>2. CASE read[r] = "open"
      <4>1. text[op[r].on] # NoRequest /\ row[op[r].on] \in {"open", "closed", "none"}
        BY <1>1, <2>1, <3>2 DEF SeenInv, OpenInv, Looked
      <4>2. QED
        BY <1>1, <1>2, <3>1, <4>1, Monotone
    <3>3. CASE read'[r] = row[Looked(op[r])] /\ row' = row
      BY <2>1, <3>3 DEF Looked
    <3>4. QED
      BY <1>1, <2>1, <3>2, <3>3, Reads
  <2>2. ASSUME NEW r \in Request PROVE op' = op
    BY <1>1, Reads
  <2>3. QED
    BY <2>1, <2>2 DEF OpenInv
<1>6. VotesCounted'
  <2>1. ASSUME ballots' \subseteq ballots PROVE VotesCounted'
    <3>1. ASSUME NEW b \in ballots' PROVE row'[b.poll] \in {"open", "closed"}
      <4>1. b \in ballots /\ b.poll \in Poll /\ b.poll \in Content /\ row[b.poll] \in {"open", "closed"}
        BY <1>1, <2>1 DEF TypeOK, Ballots, VotesCounted, Content
      <4>2. QED
        BY <1>1, <1>2, <4>1, Monotone
    <3>2. QED
      BY <1>1, <2>1, <3>1 DEF VotesCounted
  <2>2. ASSUME NEW r \in Request, votePoll(r) PROVE VotesCounted'
    <3>1. row[op[r].on] \in {"open", "closed"} /\ row' = row
      BY <1>1, <2>2 DEF votePoll, At, OpenInv
    <3>2. QED
      BY <1>1, <2>2, <3>1 DEF votePoll, VotesCounted
  <2>3. QED
    BY <1>2, <2>1, <2>2 DEF BallotEffect
<1>7. QED
  BY <1>1, <1>3, <1>4, <1>5, <1>6 DEF IInv

\* Results count one ballot per user, of polls that are or were open and are
\* there, though polls are closed and deleted while votes are under way.
THEOREM VotesOnPublishedPolls == Spec => []VotesCounted
<1>1. IInv => VotesCounted
  BY DEF IInv
<1>2. QED
  BY <1>1, InitInvariant, NextInvariant, PTL DEF Spec

\* A poll that nobody has read before it was closed stays closed, with the
\* votes it has.
LEMMA ClosedStays ==
    ASSUME TypeOK, CreatedInv, Effect, BallotEffect, NEW p \in Poll, row[p] = "closed", Late(p) = {}, row'[p] # "none"
    PROVE  /\ row'[p] = "closed"
           /\ \A b \in Ballots : b.poll = p => (b \in ballots' <=> b \in ballots)
<1> USE DEF TypeOK, RowsTyped
<1>1. row'[p] = "closed"
  <2>0. p \in Content /\ text[p] # NoRequest
    BY DEF CreatedInv, Content
  <2>1. CASE row' = row
    BY <2>1
  <2>2. ASSUME NEW r \in Request, NEW state \in Standing, Created(r, state) PROVE row'[p] = "closed"
    BY <2>0, <2>2 DEF Created, Becomes
  <2>3. ASSUME NEW y \in Content \ Poll, Becomes(y, "deleted") PROVE row'[p] = "closed"
    BY <2>0, <2>3 DEF Becomes
  <2>4. ASSUME NEW q \in Poll, NEW state \in {"none", "closed"}, Becomes(q, state) PROVE row'[p] = "closed"
    BY <2>0, <2>4 DEF Becomes
  <2>5. ASSUME NEW r \in Request, publish(r), read[r] = "draft", Becomes(op[r].on, "open") PROVE row'[p] = "closed"
    <3>1. op[r].on # p
      BY <2>5 DEF publish, At, Late
    <3> QED
      BY <2>0, <2>5, <3>1 DEF Becomes
  <2> QED
    BY <2>1, <2>2, <2>3, <2>4, <2>5 DEF Effect
<1>2. ASSUME NEW b \in Ballots, b.poll = p PROVE b \in ballots' <=> b \in ballots
  <2>1. ASSUME NEW q \in Poll, Becomes(q, "none"), ballots' = {c \in ballots : c.poll # q}
        PROVE  b \in ballots' <=> b \in ballots
    <3>1. q # p
      BY <2>1 DEF Becomes, Content
    <3> QED
      BY <1>2, <2>1, <3>1
  <2>2. ASSUME NEW r \in Request, votePoll(r) PROVE b \in ballots' <=> b \in ballots
    <3>1. op[r].on # p
      BY <2>2 DEF votePoll, At, Late
    <3>2. PICK new : /\ new.poll = op[r].on
                     /\ ballots' = {c \in ballots : c.poll # op[r].on \/ c.user # op[r].by} \cup {new}
      <4> PICK new : new = [poll |-> op[r].on, user |-> op[r].by, option |-> op[r].option]
        OBVIOUS
      <4> QED
        BY <2>2 DEF votePoll
    <3> QED
      BY <1>2, <3>1, <3>2
  <2> QED
    BY <2>1, <2>2 DEF BallotEffect
<1> QED
  BY <1>1, <1>2

\* No request takes back what another has done, but for the votes on a poll and
\* its publication that were under way when it was closed.
THEOREM NothingTakenBack == Spec => OneWay
<1> DEFINE Forward ==
        /\ \A p \in Poll : row[p] \in {"open", "closed"} => row'[p] # "draft"
        /\ \A x \in Content : row[x] = "deleted" => row'[x] = "deleted"
        /\ \A p \in Poll : row[p] = "none" /\ text[p] # NoRequest => row'[p] = "none"
        /\ \A p \in Poll : row[p] = "closed" /\ Late(p) = {} =>
            \/ row'[p] = "none"
            \/ row'[p] = "closed" /\ \A b \in Ballots : b.poll = p => (b \in ballots' <=> b \in ballots)
<1>1. IInv /\ [Next]_vars => Forward
  <2>1. ASSUME IInv, [Next]_vars, NEW x \in Content
        PROVE  /\ x \in Poll /\ row[x] \in {"open", "closed"} => row'[x] \in {"open", "closed", "none"}
               /\ x \in Poll /\ row[x] = "none" /\ text[x] # NoRequest => row'[x] = "none"
               /\ row[x] = "deleted" => row'[x] = "deleted"
    BY <2>1, StepEffect, Monotone DEF IInv
  <2>2. ASSUME IInv, [Next]_vars, NEW p \in Poll, row[p] = "closed", Late(p) = {}, row'[p] # "none"
        PROVE  row'[p] = "closed" /\ \A b \in Ballots : b.poll = p => (b \in ballots' <=> b \in ballots)
    BY <2>2, StepEffect, ClosedStays DEF IInv
  <2>3. QED
    BY <2>1, <2>2 DEF Content
<1>2. IInv /\ [Next]_vars => [Forward]_vars
  BY <1>1
<1>3. OneWay <=> [][Forward]_vars
  BY DEF OneWay
<1>4. QED
  BY <1>2, <1>3, InitInvariant, NextInvariant, PTL DEF Spec

-----------------------------------------------------------------------------
(* The audit log tells the state of every row.                             *)

\* The requests of user u whose audit row says they did this to x.
Doers(action, x, u) == {r \in Log(action, x) : op[r].by = u}

\* Created once or not at all; the text is that of its creator or of an updater.
WrittenBy(x, creators, updaters) ==
    /\ text[x] = NoRequest => creators = {}
    /\ text[x] # NoRequest => \E r \in Request : creators = {r}
    /\ text[x] \in creators \cup updaters \cup {NoRequest}

PollInv(p) ==
    /\ WrittenBy(p, Log("poll.create", p), Log("poll.update", p))
    /\ text[p] = NoRequest => Log("poll.delete", p) = {} /\ Log("poll.publish", p) = {}
    /\ row[p] = "none" <=> text[p] = NoRequest \/ Log("poll.delete", p) # {}
    /\ row[p] = "draft" => Log("poll.publish", p) = {}
    /\ row[p] = "open" => Log("poll.publish", p) # {}
    /\ row[p] = "closed" => Log("poll.close", p) # {}
    /\ \A b \in ballots : b.poll = p =>
        /\ Log("poll.publish", p) # {}
        /\ \E r \in Log("poll.vote", p) : op[r].by = b.user /\ op[r].option = b.option

\* A user's vote is in the log once, or not at all.
VotedOnce(i, u) ==
    /\ <<i, u>> \in upvotes => \E r \in Request : Doers("idea.vote", i, u) = {r}
    /\ <<i, u>> \notin upvotes => Doers("idea.vote", i, u) = {}

IdeaInv(i) ==
    /\ WrittenBy(i, Log("idea.create", i), Log("idea.update", i))
    /\ text[i] = NoRequest => Log("idea.delete", i) = {}
    /\ row[i] = "deleted" <=> Log("idea.delete", i) # {}
    /\ moderated[i] = "draft" \/ \E r \in Log("idea.moderate", i) : op[r].status = moderated[i]
    /\ \A u \in User : VotedOnce(i, u)

\* A reaction that is there was added once more than it was removed, at most:
\* two removals of one may both be in the log.
TogglesBalance(c, u) ==
    LET adds == Doers("comment.react.add", c, u)
        removes == Doers("comment.react.remove", c, u)
    IN  /\ IsFiniteSet(adds) /\ IsFiniteSet(removes)
        /\ Cardinality(adds) <= Cardinality(removes) + (IF <<c, u>> \in reactions THEN 1 ELSE 0)

CommentInv(c) ==
    /\ WrittenBy(c, Log("comment.create", c) \cup Log("idea.comment", c), Log("comment.update", c))
    /\ text[c] = NoRequest => Log("comment.delete", c) = {}
    /\ row[c] = "deleted" <=> Log("comment.delete", c) # {}
    /\ \A u \in User : TogglesBalance(c, u)

\* A request is in the log only when it has committed.
FreshInv == \A r \in Request : pc[r] # "done" => \A e \in audit : e.by # r

\* A poll that was read open has been published.
OpenReadInv ==
    \A r \in Request : op[r].does = "votePoll" /\ read[r] = "open" => Log("poll.publish", op[r].on) # {}

ReplayInv ==
    /\ FreshInv
    /\ \A p \in Poll : PollInv(p)
    /\ \A i \in Idea : IdeaInv(i)
    /\ \A c \in Comment : CommentInv(c)

LEMMA InitReplay == Init => ReplayInv
<1> SUFFICES ASSUME Init PROVE ReplayInv
  OBVIOUS
<1>1. audit = {} /\ ballots = {} /\ upvotes = {} /\ reactions = {}
  BY DEF Init
<1>2. \A action, x : Log(action, x) = {}
  BY <1>1 DEF Log
<1>3. \A action, x, u : Doers(action, x, u) = {}
  BY <1>2 DEF Doers
<1>4. \A p \in Poll : PollInv(p)
  BY <1>1, <1>2 DEF Init, PollInv, WrittenBy, Content
<1>5. \A i \in Idea : IdeaInv(i)
  BY <1>1, <1>2, <1>3 DEF Init, IdeaInv, WrittenBy, VotedOnce, Content
<1>6. \A c \in Comment, u \in User : TogglesBalance(c, u)
  BY <1>3, FS_EmptySet DEF TogglesBalance
<1>7. \A c \in Comment : CommentInv(c)
  BY <1>2, <1>6 DEF Init, CommentInv, WrittenBy, Content
<1> QED
  BY <1>1, <1>4, <1>5, <1>7 DEF ReplayInv, FreshInv

\* What an audit row adds to the log of its target, and to no other.
LEMMA LogGrows ==
    ASSUME NEW r \in Request, NEW action, Audited(r, action)
    PROVE  /\ op' = op
           /\ \A a, x : Log(a, x)' = IF a = action /\ x = op[r].on THEN Log(a, x) \cup {r} ELSE Log(a, x)
           /\ \A a, x, u : Doers(a, x, u)' = IF a = action /\ x = op[r].on /\ u = op[r].by
                                             THEN Doers(a, x, u) \cup {r} ELSE Doers(a, x, u)
<1>1. op' = op /\ audit' = audit \cup {[by |-> r, action |-> action]}
  BY DEF Audited, Finish
<1>2. ASSUME NEW a, NEW x
      PROVE  Log(a, x)' = IF a = action /\ x = op[r].on THEN Log(a, x) \cup {r} ELSE Log(a, x)
  <2>1. ASSUME NEW q \in Request
        PROVE  [by |-> q, action |-> a] \in audit' <=>
                   [by |-> q, action |-> a] \in audit \/ (q = r /\ a = action)
    BY <1>1
  <2> QED
    BY <1>1, <2>1 DEF Log
<1>3. ASSUME NEW a, NEW x, NEW u
      PROVE  Doers(a, x, u)' = IF a = action /\ x = op[r].on /\ u = op[r].by
                               THEN Doers(a, x, u) \cup {r} ELSE Doers(a, x, u)
  BY <1>1, <1>2 DEF Doers
<1> QED
  BY <1>1, <1>2, <1>3

\* A row, and all that hangs on it, whose log has not grown.
LEMMA PollKept ==
    ASSUME NEW p \in Poll, PollInv(p), op' = op, row'[p] = row[p], text'[p] = text[p],
           \A a : Log(a, p)' = Log(a, p),
           \A b \in ballots' : b.poll = p => b \in ballots
    PROVE  PollInv(p)'
BY DEF PollInv, WrittenBy

LEMMA IdeaKept ==
    ASSUME NEW i \in Idea, IdeaInv(i), op' = op, row'[i] = row[i], text'[i] = text[i],
           \A a : Log(a, i)' = Log(a, i),
           \A a, u : Doers(a, i, u)' = Doers(a, i, u),
           moderated'[i] = moderated[i],
           \A u \in User : <<i, u>> \in upvotes' <=> <<i, u>> \in upvotes
    PROVE  IdeaInv(i)'
BY DEF IdeaInv, WrittenBy, VotedOnce

LEMMA CommentKept ==
    ASSUME NEW c \in Comment, CommentInv(c), op' = op, row'[c] = row[c], text'[c] = text[c],
           \A a : Log(a, c)' = Log(a, c),
           \A a, u : Doers(a, c, u)' = Doers(a, c, u),
           \A u \in User : <<c, u>> \in reactions' <=> <<c, u>> \in reactions
    PROVE  CommentInv(c)'
<1>1. \A u \in User : TogglesBalance(c, u)'
  BY DEF CommentInv, TogglesBalance
<1> QED
  BY <1>1 DEF CommentInv, WrittenBy

\* The step changes what hangs on x, if anything.
Only(x) ==
    /\ \A y \in Content \ {x} : row'[y] = row[y] /\ text'[y] = text[y]
    /\ \A i \in Idea \ {x} : moderated'[i] = moderated[i]
    /\ \A b \in ballots' : b.poll # x => b \in ballots
    /\ \A i \in Idea \ {x}, u \in User : <<i, u>> \in upvotes' <=> <<i, u>> \in upvotes
    /\ \A c \in Comment \ {x}, u \in User : <<c, u>> \in reactions' <=> <<c, u>> \in reactions

\* A step that is audited is judged at its target.
LEMMA Elsewhere ==
    ASSUME TypeOK, ReplayInv, NEW r \in Request, NEW action, pc[r] # "done", Audited(r, action),
           NEW x, x = op[r].on, Only(x),
           x \in Poll => PollInv(x)',
           x \in Idea => IdeaInv(x)',
           x \in Comment => CommentInv(x)'
    PROVE  ReplayInv'
<1>1. /\ op' = op
      /\ \A a, y : y # x => Log(a, y)' = Log(a, y)
      /\ \A a, y, u : y # x => Doers(a, y, u)' = Doers(a, y, u)
  BY LogGrows
<1>2. ASSUME NEW p \in Poll PROVE PollInv(p)'
  <2>1. CASE p = x
    BY <1>1, <2>1
  <2>2. CASE p # x
    BY <1>1, <2>2, PollKept DEF ReplayInv, Only, Content
  <2> QED
    BY <2>1, <2>2
<1>3. ASSUME NEW i \in Idea PROVE IdeaInv(i)'
  <2>1. CASE i = x
    BY <1>1, <2>1
  <2>2. CASE i # x
    BY <1>1, <2>2, IdeaKept DEF ReplayInv, Only, Content
  <2> QED
    BY <2>1, <2>2
<1>4. ASSUME NEW c \in Comment PROVE CommentInv(c)'
  <2>1. CASE c = x
    BY <1>1, <2>1
  <2>2. CASE c # x
    BY <1>1, <2>2, CommentKept DEF ReplayInv, Only, Content
  <2> QED
    BY <2>1, <2>2
<1>5. FreshInv'
  BY DEF ReplayInv, FreshInv, Audited, Finish, TypeOK
<1> QED
  BY <1>2, <1>3, <1>4, <1>5 DEF ReplayInv

\* A step that is not audited changes nothing.
LEMMA NothingWritten ==
    ASSUME ReplayInv, UNCHANGED <<contents, audit, op>>, \A r \in Request : pc[r] = "done" => pc'[r] = "done"
    PROVE  ReplayInv'
<1>1. \A a, x : Log(a, x)' = Log(a, x)
  BY DEF Log
<1>2. \A a, x, u : Doers(a, x, u)' = Doers(a, x, u)
  BY <1>1 DEF Doers
<1>3. \A p \in Poll : PollInv(p)'
  BY <1>1, <1>2, PollKept DEF ReplayInv, contents
<1>4. \A i \in Idea : IdeaInv(i)'
  BY <1>1, <1>2, IdeaKept DEF ReplayInv, contents
<1>5. \A c \in Comment : CommentInv(c)'
  BY <1>1, <1>2, CommentKept DEF ReplayInv, contents
<1> QED
  BY <1>3, <1>4, <1>5 DEF ReplayInv, FreshInv

\* One more request in the log of a toggle.
LEMMA ReactionStep ==
    ASSUME TypeOK, ReplayInv, NEW r \in Request, react(r), NEW c, c = op[r].on, NEW u \in User
    PROVE  TogglesBalance(c, u)'
<1> PICK adds, removes : adds = Doers("comment.react.add", c, u) /\ removes = Doers("comment.react.remove", c, u)
  OBVIOUS
<1> DEFINE there == IF <<c, u>> \in reactions THEN 1 ELSE 0
<1>1. c \in Comment /\ op[r].by \in User /\ pc[r] # "done"
  BY CommentTarget DEF react, OfComments
<1>2. r \notin adds /\ r \notin removes
  BY <1>1 DEF Doers, Log, ReplayInv, FreshInv
<1>3. /\ IsFiniteSet(adds) /\ IsFiniteSet(removes)
      /\ Cardinality(adds) <= Cardinality(removes) + there
  BY <1>1 DEF ReplayInv, CommentInv, TogglesBalance
<1>4. /\ Cardinality(adds) \in Nat /\ Cardinality(removes) \in Nat
      /\ IsFiniteSet(adds \cup {r}) /\ Cardinality(adds \cup {r}) = Cardinality(adds) + 1
      /\ IsFiniteSet(removes \cup {r}) /\ Cardinality(removes \cup {r}) = Cardinality(removes) + 1
  BY <1>2, <1>3, FS_AddElement, FS_CardinalityType
<1>5. CASE u # op[r].by
  <2>1. /\ Doers("comment.react.add", c, u)' = adds /\ Doers("comment.react.remove", c, u)' = removes
    BY <1>5, LogGrows DEF react
  <2>2. <<c, u>> \in reactions' <=> <<c, u>> \in reactions
    BY <1>5 DEF react
  <2> QED
    BY <1>3, <2>1, <2>2 DEF TogglesBalance
<1>6. CASE u = op[r].by /\ pc[r] = "remove"
  <2>1. Audited(r, "comment.react.remove") /\ reactions' = reactions \ {<<c, u>>}
    BY <1>6 DEF react
  <2>2. /\ Doers("comment.react.add", c, u)' = adds
        /\ Doers("comment.react.remove", c, u)' = removes \cup {r}
        /\ op' = op
    BY <1>6, <2>1, LogGrows
  <2>3. Cardinality(adds) <= Cardinality(removes) + 1
    BY <1>3, <1>4
  <2> QED
    BY <1>3, <1>4, <2>1, <2>2, <2>3 DEF TogglesBalance
<1>7. CASE u = op[r].by /\ pc[r] = "add"
  <2>1. Audited(r, "comment.react.add") /\ <<c, u>> \notin reactions /\ reactions' = reactions \cup {<<c, u>>}
    BY <1>7 DEF react
  <2>2. /\ Doers("comment.react.add", c, u)' = adds \cup {r}
        /\ Doers("comment.react.remove", c, u)' = removes
        /\ op' = op
    BY <1>7, <2>1, LogGrows
  <2>3. Cardinality(adds) <= Cardinality(removes)
    BY <1>3, <1>4, <2>1
  <2> QED
    BY <1>3, <1>4, <2>1, <2>2, <2>3 DEF TogglesBalance
<1> QED
  BY <1>5, <1>6, <1>7 DEF react

LEMMA ReplayStep ==
    ASSUME TypeOK, TypeOK', SeenInv, CreatedInv, OpenReadInv, ReplayInv, [Next]_vars
    PROVE  ReplayInv'
<1> USE NoRequestAssumption
<1>1. ASSUME NEW r \in Request, Select(r) \/ SelectReaction(r) \/ Throw(r) PROVE ReplayInv'
  <2>1. UNCHANGED <<contents, audit, op>> /\ \A q \in Request : pc[q] = "done" => pc'[q] = "done"
    BY <1>1 DEF Select, SelectReaction, Throw, Finish, TypeOK
  <2> QED
    BY <2>1, NothingWritten
<1>2. ASSUME NEW r \in Request, createPoll(r) PROVE ReplayInv'
  <2> PICK p : p = op[r].on
    OBVIOUS
  <2>1. p \in Poll /\ p \notin Idea /\ p \notin Comment /\ p \in Content /\ pc[r] # "done"
    BY <1>2, PollTarget DEF createPoll, At, OfPolls
  <2>2. Audited(r, "poll.create")
    BY <1>2 DEF createPoll
  <2>3. /\ Log("poll.create", p)' = Log("poll.create", p) \cup {r} /\ op' = op
        /\ \A a : a # "poll.create" => Log(a, p)' = Log(a, p)
    BY <2>2, LogGrows
  <2>4. Only(p)
    BY <1>2, <2>1 DEF createPoll, Created, Becomes, Rewritten, Only, TypeOK, RowsTyped
  <2>5. text[p] = NoRequest => row[p] = "none"
    BY <2>1 DEF CreatedInv
  <2>6. PollInv(p)
    BY <2>1 DEF ReplayInv
  <2>7. PollInv(p)'
    BY <1>2, <2>1, <2>3, <2>5, <2>6 DEF createPoll, Created, Becomes, Rewritten, PollInv, WrittenBy, TypeOK, RowsTyped
  <2> QED
    BY <2>1, <2>2, <2>4, <2>7, Elsewhere
<1>3. ASSUME NEW r \in Request, updatePoll(r) PROVE ReplayInv'
  <2> PICK p : p = op[r].on
    OBVIOUS
  <2>1. p \in Poll /\ p \notin Idea /\ p \notin Comment /\ p \in Content /\ pc[r] # "done"
    BY <1>3, PollTarget DEF updatePoll, At, OfPolls
  <2>2. Audited(r, "poll.update")
    BY <1>3 DEF updatePoll
  <2>3. /\ Log("poll.update", p)' = Log("poll.update", p) \cup {r} /\ op' = op
        /\ \A a : a # "poll.update" => Log(a, p)' = Log(a, p)
    BY <2>2, LogGrows
  <2>4. Only(p)
    BY <1>3, <2>1 DEF updatePoll, Rewritten, Only, TypeOK, RowsTyped
  <2>5. text[p] = NoRequest => row[p] = "none"
    BY <2>1 DEF CreatedInv
  <2>6. PollInv(p)
    BY <2>1 DEF ReplayInv
  <2>7. PollInv(p)'
    BY <1>3, <2>1, <2>3, <2>5, <2>6 DEF updatePoll, Rewritten, PollInv, WrittenBy, TypeOK, RowsTyped
  <2> QED
    BY <2>1, <2>2, <2>4, <2>7, Elsewhere
<1>4. ASSUME NEW r \in Request, deletePoll(r) PROVE ReplayInv'
  <2> PICK p : p = op[r].on
    OBVIOUS
  <2>1. p \in Poll /\ p \notin Idea /\ p \notin Comment /\ p \in Content /\ pc[r] # "done"
    BY <1>4, PollTarget DEF deletePoll, At, OfPolls
  <2>2. Audited(r, "poll.delete")
    BY <1>4 DEF deletePoll
  <2>3. /\ Log("poll.delete", p)' = Log("poll.delete", p) \cup {r} /\ op' = op
        /\ \A a : a # "poll.delete" => Log(a, p)' = Log(a, p)
    BY <2>2, LogGrows
  <2>4. Only(p)
    BY <1>4, <2>1 DEF deletePoll, Becomes, Only, TypeOK, RowsTyped
  <2>5. text[p] = NoRequest => row[p] = "none"
    BY <2>1 DEF CreatedInv
  <2>6. text[p] # NoRequest
    BY <1>4, <2>5 DEF deletePoll, At, SeenInv, Looked
  <2>7. PollInv(p)
    BY <2>1 DEF ReplayInv
  <2>8. PollInv(p)'
    BY <1>4, <2>1, <2>3, <2>5, <2>6, <2>7 DEF deletePoll, Becomes, PollInv, WrittenBy, TypeOK, RowsTyped
  <2> QED
    BY <2>1, <2>2, <2>4, <2>8, Elsewhere
<1>5. ASSUME NEW r \in Request, publish(r) PROVE ReplayInv'
  <2> PICK p : p = op[r].on
    OBVIOUS
  <2>1. p \in Poll /\ p \notin Idea /\ p \notin Comment /\ p \in Content /\ pc[r] # "done"
    BY <1>5, PollTarget DEF publish, At, OfPolls
  <2>2. CASE Finish(r) /\ UNCHANGED <<row, audit>>
    <3>1. UNCHANGED <<contents, audit, op>> /\ \A q \in Request : pc[q] = "done" => pc'[q] = "done"
      BY <1>5, <2>2 DEF publish, contents, Finish, TypeOK
    <3> QED
      BY <3>1, NothingWritten
  <2>3. CASE Becomes(p, "open") /\ Audited(r, "poll.publish")
    <3>1. /\ Log("poll.publish", p)' = Log("poll.publish", p) \cup {r} /\ op' = op
          /\ \A a : a # "poll.publish" => Log(a, p)' = Log(a, p)
      BY <2>3, LogGrows
    <3>2. row[p] # "none" /\ text[p] # NoRequest /\ UNCHANGED <<text, moderated, ballots, upvotes, reactions>>
      BY <1>5, <2>1 DEF publish, CreatedInv
    <3>3. row'[p] = "open" /\ Only(p)
      BY <2>1, <2>3, <3>2 DEF Becomes, Only, TypeOK, RowsTyped
    <3>4. PollInv(p)
      BY <2>1 DEF ReplayInv
    <3>5. PollInv(p)'
      BY <3>1, <3>2, <3>3, <3>4 DEF PollInv, WrittenBy
    <3> QED
      BY <2>1, <2>3, <3>3, <3>5, Elsewhere
  <2> QED
    BY <1>5, <2>2, <2>3 DEF publish
<1>6. ASSUME NEW r \in Request, votePoll(r) PROVE ReplayInv'
  <2> PICK p : p = op[r].on
    OBVIOUS
  <2>1. p \in Poll /\ p \notin Idea /\ p \notin Comment /\ p \in Content /\ pc[r] # "done"
    BY <1>6, PollTarget DEF votePoll, At, OfPolls
  <2>2. Audited(r, "poll.vote")
    BY <1>6 DEF votePoll
  <2>3. /\ Log("poll.vote", p)' = Log("poll.vote", p) \cup {r} /\ op' = op
        /\ \A a : a # "poll.vote" => Log(a, p)' = Log(a, p)
    BY <2>2, LogGrows
  <2>4. Only(p)
    BY <1>6, <2>1 DEF votePoll, Only, TypeOK, RowsTyped
  <2>5. text[p] = NoRequest => row[p] = "none"
    BY <2>1 DEF CreatedInv
  <2>6. PollInv(p)
    BY <2>1 DEF ReplayInv
  <2>7. Log("poll.publish", p) # {}
    BY <1>6 DEF votePoll, At, OpenReadInv
  <2>8. /\ row'[p] = row[p] /\ text'[p] = text[p]
        /\ \A a : a # "poll.vote" => Log(a, p)' = Log(a, p)
        /\ WrittenBy(p, Log("poll.create", p), Log("poll.update", p))'
    BY <1>6, <2>3, <2>6 DEF votePoll, PollInv, WrittenBy
  <2>9. ASSUME NEW b \in ballots', b.poll = p
        PROVE  \E q \in Log("poll.vote", p)' : op[q].by = b.user /\ op[q].option = b.option
    BY <1>6, <2>3, <2>6, <2>9 DEF votePoll, PollInv
  <2>10. PollInv(p)'
    BY <2>3, <2>6, <2>7, <2>8, <2>9 DEF PollInv
  <2> QED
    BY <2>1, <2>2, <2>4, <2>10, Elsewhere
<1>7. ASSUME NEW r \in Request, createIdea(r) PROVE ReplayInv'
  <2> PICK i : i = op[r].on
    OBVIOUS
  <2>1. i \in Idea /\ i \notin Poll /\ i \notin Comment /\ i \in Content /\ pc[r] # "done"
    BY <1>7, IdeaTarget DEF createIdea, At, OfIdeas
  <2>2. Audited(r, "idea.create")
    BY <1>7 DEF createIdea
  <2>3. /\ Log("idea.create", i)' = Log("idea.create", i) \cup {r} /\ op' = op
        /\ \A a : a # "idea.create" => Log(a, i)' = Log(a, i)
        /\ \A a, u : a # "idea.create" => Doers(a, i, u)' = Doers(a, i, u)
    BY <2>2, LogGrows
  <2>4. Only(i)
    BY <1>7, <2>1 DEF createIdea, Created, Becomes, Rewritten, Only, TypeOK, RowsTyped
  <2>5. text[i] = NoRequest => row[i] = "none"
    BY <2>1 DEF CreatedInv
  <2>6. IdeaInv(i)
    BY <2>1 DEF ReplayInv
  <2>7. \A u \in User : VotedOnce(i, u)'
    BY <1>7, <2>3, <2>6 DEF createIdea, IdeaInv, VotedOnce
  <2>8. IdeaInv(i)'
    BY <1>7, <2>1, <2>3, <2>5, <2>6, <2>7 DEF createIdea, Created, Becomes, Rewritten, IdeaInv, WrittenBy, TypeOK, RowsTyped
  <2> QED
    BY <2>1, <2>2, <2>4, <2>8, Elsewhere
<1>8. ASSUME NEW r \in Request, updateIdea(r) PROVE ReplayInv'
  <2> PICK i : i = op[r].on
    OBVIOUS
  <2>1. i \in Idea /\ i \notin Poll /\ i \notin Comment /\ i \in Content /\ pc[r] # "done"
    BY <1>8, IdeaTarget DEF updateIdea, At, OfIdeas
  <2>2. Audited(r, "idea.update")
    BY <1>8 DEF updateIdea
  <2>3. /\ Log("idea.update", i)' = Log("idea.update", i) \cup {r} /\ op' = op
        /\ \A a : a # "idea.update" => Log(a, i)' = Log(a, i)
        /\ \A a, u : a # "idea.update" => Doers(a, i, u)' = Doers(a, i, u)
    BY <2>2, LogGrows
  <2>4. Only(i)
    BY <1>8, <2>1 DEF updateIdea, Rewritten, Only, TypeOK, RowsTyped
  <2>5. text[i] = NoRequest => row[i] = "none"
    BY <2>1 DEF CreatedInv
  <2>6. text[i] # NoRequest
    BY <1>8, <2>5 DEF updateIdea, At, SeenInv, Looked
  <2>7. IdeaInv(i)
    BY <2>1 DEF ReplayInv
  <2>8. \A u \in User : VotedOnce(i, u)'
    BY <1>8, <2>3, <2>7 DEF updateIdea, IdeaInv, VotedOnce
  <2>9. IdeaInv(i)'
    BY <1>8, <2>1, <2>3, <2>5, <2>6, <2>7, <2>8 DEF updateIdea, Rewritten, IdeaInv, WrittenBy, TypeOK, RowsTyped
  <2> QED
    BY <2>1, <2>2, <2>4, <2>9, Elsewhere
<1>9. ASSUME NEW r \in Request, deleteIdea(r) PROVE ReplayInv'
  <2> PICK i : i = op[r].on
    OBVIOUS
  <2>1. i \in Idea /\ i \notin Poll /\ i \notin Comment /\ i \in Content /\ pc[r] # "done"
    BY <1>9, IdeaTarget DEF deleteIdea, At, OfIdeas
  <2>2. Audited(r, "idea.delete")
    BY <1>9 DEF deleteIdea
  <2>3. /\ Log("idea.delete", i)' = Log("idea.delete", i) \cup {r} /\ op' = op
        /\ \A a : a # "idea.delete" => Log(a, i)' = Log(a, i)
        /\ \A a, u : a # "idea.delete" => Doers(a, i, u)' = Doers(a, i, u)
    BY <2>2, LogGrows
  <2>4. Only(i)
    BY <1>9, <2>1 DEF deleteIdea, Becomes, Only, TypeOK, RowsTyped
  <2>5. text[i] = NoRequest => row[i] = "none"
    BY <2>1 DEF CreatedInv
  <2>6. text[i] # NoRequest
    BY <1>9, <2>5 DEF deleteIdea, At, SeenInv, Looked
  <2>7. IdeaInv(i)
    BY <2>1 DEF ReplayInv
  <2>8. \A u \in User : VotedOnce(i, u)'
    BY <1>9, <2>3, <2>7 DEF deleteIdea, IdeaInv, VotedOnce
  <2>9. IdeaInv(i)'
    BY <1>9, <2>1, <2>3, <2>5, <2>6, <2>7, <2>8 DEF deleteIdea, Becomes, IdeaInv, WrittenBy, TypeOK, RowsTyped
  <2> QED
    BY <2>1, <2>2, <2>4, <2>9, Elsewhere
<1>10. ASSUME NEW r \in Request, moderate(r) PROVE ReplayInv'
  <2> PICK i : i = op[r].on
    OBVIOUS
  <2>1. i \in Idea /\ i \notin Poll /\ i \notin Comment /\ i \in Content /\ pc[r] # "done"
    BY <1>10, IdeaTarget DEF moderate, At, OfIdeas
  <2>2. Audited(r, "idea.moderate")
    BY <1>10 DEF moderate
  <2>3. /\ Log("idea.moderate", i)' = Log("idea.moderate", i) \cup {r} /\ op' = op
        /\ \A a : a # "idea.moderate" => Log(a, i)' = Log(a, i)
        /\ \A a, u : a # "idea.moderate" => Doers(a, i, u)' = Doers(a, i, u)
    BY <2>2, LogGrows
  <2>4. Only(i)
    BY <1>10, <2>1 DEF moderate, Only, TypeOK, RowsTyped
  <2>5. text[i] = NoRequest => row[i] = "none"
    BY <2>1 DEF CreatedInv
  <2>6. IdeaInv(i)
    BY <2>1 DEF ReplayInv
  <2>7. \A u \in User : VotedOnce(i, u)'
    BY <1>10, <2>3, <2>6 DEF moderate, IdeaInv, VotedOnce
  <2>8. IdeaInv(i)'
    BY <1>10, <2>1, <2>3, <2>5, <2>6, <2>7 DEF moderate, IdeaInv, WrittenBy, TypeOK, RowsTyped
  <2> QED
    BY <2>1, <2>2, <2>4, <2>8, Elsewhere
<1>11. ASSUME NEW r \in Request, voteIdea(r) PROVE ReplayInv'
  <2> PICK i : i = op[r].on
    OBVIOUS
  <2> PICK v : v = op[r].by
    OBVIOUS
  <2>1. i \in Idea /\ i \notin Poll /\ i \notin Comment /\ i \in Content /\ pc[r] # "done"
    BY <1>11, IdeaTarget DEF voteIdea, At, OfIdeas
  <2>2. CASE Finish(r) /\ UNCHANGED <<upvotes, audit>>
    <3>1. UNCHANGED <<contents, audit, op>> /\ \A q \in Request : pc[q] = "done" => pc'[q] = "done"
      BY <1>11, <2>2 DEF voteIdea, contents, Finish, TypeOK
    <3> QED
      BY <3>1, NothingWritten
  <2>3. CASE /\ <<i, v>> \notin upvotes /\ upvotes' = upvotes \cup {<<i, v>>}
             /\ Audited(r, "idea.vote")
    <3>1. /\ op' = op /\ \A a : a # "idea.vote" => Log(a, i)' = Log(a, i)
          /\ \A u : Doers("idea.vote", i, u)' = IF u = v THEN Doers("idea.vote", i, u) \cup {r}
                                                 ELSE Doers("idea.vote", i, u)
      <4>1. Audited(r, "idea.vote")
        BY <2>3
      <4>2. op' = op /\ \A a : a # "idea.vote" => Log(a, i)' = Log(a, i)
        BY <4>1, LogGrows
      <4>3. \A u : Doers("idea.vote", i, u)' = IF u = v THEN Doers("idea.vote", i, u) \cup {r}
                                                ELSE Doers("idea.vote", i, u)
        BY <4>1, LogGrows
      <4> QED
        BY <4>2, <4>3
    <3>2. UNCHANGED <<row, text, moderated, ballots, reactions>>
      BY <1>11 DEF voteIdea
    <3>3. Only(i)
      BY <2>1, <2>3, <3>2 DEF Only
    <3>4. IdeaInv(i)
      BY <2>1 DEF ReplayInv
    <3>5. ASSUME NEW u \in User PROVE VotedOnce(i, u)'
      <4>1. VotedOnce(i, u)
        BY <3>4 DEF IdeaInv
      <4>2. CASE u = v
        <5>1. Doers("idea.vote", i, u) = {}
          BY <2>3, <4>1, <4>2 DEF VotedOnce
        <5> QED
          BY <2>3, <3>1, <4>2, <5>1 DEF VotedOnce
      <4>3. CASE u # v
        <5>1. <<i, u>> \in upvotes' <=> <<i, u>> \in upvotes
          BY <2>3, <4>3
        <5> QED
          BY <3>1, <4>1, <4>3, <5>1 DEF VotedOnce
      <4> QED
        BY <4>2, <4>3
    <3>6. IdeaInv(i)'
      BY <3>1, <3>2, <3>4, <3>5 DEF IdeaInv, WrittenBy
    <3> QED
      BY <2>1, <2>3, <3>3, <3>6, Elsewhere
  <2> QED
    BY <1>11, <2>2, <2>3 DEF voteIdea
<1>12. ASSUME NEW r \in Request, comment(r) PROVE ReplayInv'
  <2> PICK c : c = op[r].on
    OBVIOUS
  <2>1. c \in Comment /\ c \notin Poll /\ c \notin Idea /\ c \in Content /\ pc[r] # "done"
    BY <1>12, CommentTarget DEF comment, At, OfComments
  <2>2. Audited(r, "comment.create")
    BY <1>12 DEF comment
  <2>3. /\ Log("comment.create", c)' = Log("comment.create", c) \cup {r} /\ op' = op
        /\ \A a : a # "comment.create" => Log(a, c)' = Log(a, c)
        /\ \A a, u : a # "comment.create" => Doers(a, c, u)' = Doers(a, c, u)
    BY <2>2, LogGrows
  <2>4. Only(c)
    BY <1>12, <2>1 DEF comment, Created, Becomes, Rewritten, Only, TypeOK, RowsTyped
  <2>5. text[c] = NoRequest => row[c] = "none"
    BY <2>1 DEF CreatedInv
  <2>6. CommentInv(c)
    BY <2>1 DEF ReplayInv
  <2>7. \A u \in User : TogglesBalance(c, u)'
    BY <1>12, <2>3, <2>6 DEF comment, CommentInv, TogglesBalance
  <2>8. CommentInv(c)'
    BY <1>12, <2>1, <2>3, <2>5, <2>6, <2>7 DEF comment, Created, Becomes, Rewritten, CommentInv, WrittenBy, TypeOK, RowsTyped
  <2> QED
    BY <2>1, <2>2, <2>4, <2>8, Elsewhere
<1>13. ASSUME NEW r \in Request, createComment(r) PROVE ReplayInv'
  <2> PICK c : c = op[r].on
    OBVIOUS
  <2>1. c \in Comment /\ c \notin Poll /\ c \notin Idea /\ c \in Content /\ pc[r] # "done"
    BY <1>13, CommentTarget DEF createComment, At, OfComments
  <2>2. Audited(r, "idea.comment")
    BY <1>13 DEF createComment
  <2>3. /\ Log("idea.comment", c)' = Log("idea.comment", c) \cup {r} /\ op' = op
        /\ \A a : a # "idea.comment" => Log(a, c)' = Log(a, c)
        /\ \A a, u : a # "idea.comment" => Doers(a, c, u)' = Doers(a, c, u)
    BY <2>2, LogGrows
  <2>4. Only(c)
    BY <1>13, <2>1 DEF createComment, Created, Becomes, Rewritten, Only, TypeOK, RowsTyped
  <2>5. text[c] = NoRequest => row[c] = "none"
    BY <2>1 DEF CreatedInv
  <2>6. CommentInv(c)
    BY <2>1 DEF ReplayInv
  <2>7. \A u \in User : TogglesBalance(c, u)'
    BY <1>13, <2>3, <2>6 DEF createComment, CommentInv, TogglesBalance
  <2>8. CommentInv(c)'
    BY <1>13, <2>1, <2>3, <2>5, <2>6, <2>7 DEF createComment, Created, Becomes, Rewritten, CommentInv, WrittenBy, TypeOK, RowsTyped
  <2> QED
    BY <2>1, <2>2, <2>4, <2>8, Elsewhere
<1>14. ASSUME NEW r \in Request, updateComment(r) PROVE ReplayInv'
  <2> PICK c : c = op[r].on
    OBVIOUS
  <2>1. c \in Comment /\ c \notin Poll /\ c \notin Idea /\ c \in Content /\ pc[r] # "done"
    BY <1>14, CommentTarget DEF updateComment, At, OfComments
  <2>2. Audited(r, "comment.update")
    BY <1>14 DEF updateComment
  <2>3. /\ Log("comment.update", c)' = Log("comment.update", c) \cup {r} /\ op' = op
        /\ \A a : a # "comment.update" => Log(a, c)' = Log(a, c)
        /\ \A a, u : a # "comment.update" => Doers(a, c, u)' = Doers(a, c, u)
    BY <2>2, LogGrows
  <2>4. Only(c)
    BY <1>14, <2>1 DEF updateComment, Rewritten, Only, TypeOK, RowsTyped
  <2>5. text[c] = NoRequest => row[c] = "none"
    BY <2>1 DEF CreatedInv
  <2>6. text[c] # NoRequest
    BY <1>14, <2>5 DEF updateComment, requireAuthorOrModerator, At, SeenInv, Looked
  <2>7. CommentInv(c)
    BY <2>1 DEF ReplayInv
  <2>8. \A u \in User : TogglesBalance(c, u)'
    BY <1>14, <2>3, <2>7 DEF updateComment, CommentInv, TogglesBalance
  <2>9. CommentInv(c)'
    BY <1>14, <2>1, <2>3, <2>5, <2>6, <2>7, <2>8 DEF updateComment, Rewritten, CommentInv, WrittenBy, TypeOK, RowsTyped
  <2> QED
    BY <2>1, <2>2, <2>4, <2>9, Elsewhere
<1>15. ASSUME NEW r \in Request, deleteComment(r) PROVE ReplayInv'
  <2> PICK c : c = op[r].on
    OBVIOUS
  <2>1. c \in Comment /\ c \notin Poll /\ c \notin Idea /\ c \in Content /\ pc[r] # "done"
    BY <1>15, CommentTarget DEF deleteComment, At, OfComments
  <2>2. Audited(r, "comment.delete")
    BY <1>15 DEF deleteComment
  <2>3. /\ Log("comment.delete", c)' = Log("comment.delete", c) \cup {r} /\ op' = op
        /\ \A a : a # "comment.delete" => Log(a, c)' = Log(a, c)
        /\ \A a, u : a # "comment.delete" => Doers(a, c, u)' = Doers(a, c, u)
    BY <2>2, LogGrows
  <2>4. Only(c)
    BY <1>15, <2>1 DEF deleteComment, Becomes, Only, TypeOK, RowsTyped
  <2>5. text[c] = NoRequest => row[c] = "none"
    BY <2>1 DEF CreatedInv
  <2>6. text[c] # NoRequest
    BY <1>15, <2>5 DEF deleteComment, requireAuthorOrModerator, At, SeenInv, Looked
  <2>7. CommentInv(c)
    BY <2>1 DEF ReplayInv
  <2>8. \A u \in User : TogglesBalance(c, u)'
    BY <1>15, <2>3, <2>7 DEF deleteComment, CommentInv, TogglesBalance
  <2>9. CommentInv(c)'
    BY <1>15, <2>1, <2>3, <2>5, <2>6, <2>7, <2>8 DEF deleteComment, Becomes, CommentInv, WrittenBy, TypeOK, RowsTyped
  <2> QED
    BY <2>1, <2>2, <2>4, <2>9, Elsewhere
<1>16. ASSUME NEW r \in Request, react(r) PROVE ReplayInv'
  <2> PICK c : c = op[r].on
    OBVIOUS
  <2>1. c \in Comment /\ c \notin Poll /\ c \notin Idea /\ c \in Content /\ pc[r] # "done"
    BY <1>16, CommentTarget DEF react, OfComments
  <2>2. PICK action \in {"comment.react.add", "comment.react.remove"} : Audited(r, action)
    BY <1>16 DEF react
  <2>3. op' = op /\ \A a : a # action => Log(a, c)' = Log(a, c)
    BY <2>2, LogGrows
  <2>4. Only(c)
    BY <1>16, <2>1 DEF react, Only
  <2>5. \A u \in User : TogglesBalance(c, u)'
    BY <1>16, ReactionStep
  <2>6. CommentInv(c)'
    BY <1>16, <2>1, <2>2, <2>3, <2>5 DEF react, ReplayInv, CommentInv, WrittenBy
  <2> QED
    BY <2>1, <2>2, <2>4, <2>6, Elsewhere
<1>17. ASSUME NEW r \in Request, unvote(r) PROVE ReplayInv'
  BY <1>1, <1>17 DEF unvote
<1>18. ASSUME NEW r \in Request, patchPoll(r) PROVE ReplayInv'
  <2> PICK p : p = op[r].on
    OBVIOUS
  <2>1. p \in Poll /\ p \notin Idea /\ p \notin Comment /\ p \in Content /\ pc[r] # "done"
    BY <1>18, PollTarget DEF patchPoll, At, OfPolls
  <2>2. Audited(r, "poll.update")
    BY <1>18 DEF patchPoll
  <2>3. /\ Log("poll.update", p)' = Log("poll.update", p) \cup {r} /\ op' = op
        /\ \A a : a # "poll.update" => Log(a, p)' = Log(a, p)
    BY <2>2, LogGrows
  <2>4. Only(p)
    BY <1>18, <2>1 DEF patchPoll, Rewritten, Only, TypeOK, RowsTyped
  <2>5. text[p] = NoRequest => row[p] = "none"
    BY <2>1 DEF CreatedInv
  <2>6. PollInv(p)
    BY <2>1 DEF ReplayInv
  <2>7. text'[p] = text[p] \/ (text'[p] = r /\ text[p] # NoRequest)
    BY <1>18, <2>1, <2>5 DEF patchPoll, Rewritten, TypeOK
  <2>8. WrittenBy(p, Log("poll.create", p), Log("poll.update", p))'
    BY <2>1, <2>3, <2>6, <2>7 DEF PollInv, WrittenBy
  <2>9. row' = row /\ ballots' = ballots /\ (text'[p] = NoRequest <=> text[p] = NoRequest)
    BY <1>18, <2>7 DEF patchPoll
  <2>10. PollInv(p)'
    BY <2>3, <2>6, <2>8, <2>9 DEF PollInv
  <2> QED
    BY <2>1, <2>2, <2>4, <2>10, Elsewhere
<1>19. ASSUME NEW r \in Request, closePoll(r) PROVE ReplayInv'
  <2> PICK p : p = op[r].on
    OBVIOUS
  <2>1. p \in Poll /\ p \notin Idea /\ p \notin Comment /\ p \in Content /\ pc[r] # "done"
    BY <1>19, PollTarget DEF closePoll, At, OfPolls
  <2>2. Audited(r, "poll.close")
    BY <1>19 DEF closePoll
  <2>3. /\ Log("poll.close", p)' = Log("poll.close", p) \cup {r} /\ op' = op
        /\ \A a : a # "poll.close" => Log(a, p)' = Log(a, p)
    BY <2>2, LogGrows
  <2>4. Only(p)
    BY <1>19, <2>1 DEF closePoll, Becomes, Only, TypeOK, RowsTyped
  <2>5. /\ row'[p] = row[p] \/ (row[p] # "none" /\ row'[p] = "closed")
        /\ text' = text /\ ballots' = ballots
    BY <1>19, <2>1 DEF closePoll, Becomes, TypeOK, RowsTyped
  <2>6. PollInv(p)
    BY <2>1 DEF ReplayInv
  <2>7. PollInv(p)'
    BY <2>3, <2>5, <2>6 DEF PollInv, WrittenBy
  <2> QED
    BY <2>1, <2>2, <2>4, <2>7, Elsewhere
<1>20. CASE UNCHANGED vars
  BY <1>20, NothingWritten DEF vars
<1> QED
  BY <1>1, <1>2, <1>3, <1>4, <1>5, <1>6, <1>7, <1>8, <1>9, <1>10, <1>11, <1>12, <1>13, <1>14,
     <1>15, <1>16, <1>17, <1>18, <1>19, <1>20 DEF Next, PollsController, AdminPollsController, IdeasController, CommentsController

\* What is in the log stays there.
LEMMA LogStays == [Next]_vars => audit \subseteq audit'
<1> SUFFICES ASSUME [Next]_vars PROVE audit \subseteq audit'
  OBVIOUS
<1>1. ASSUME NEW r \in Request, Select(r) \/ SelectReaction(r) \/ Throw(r) PROVE audit \subseteq audit'
  BY <1>1 DEF Select, SelectReaction, Throw
<1>2. ASSUME NEW r \in Request, PollsController(r) \/ AdminPollsController(r) PROVE audit \subseteq audit'
  BY <1>2 DEF PollsController, AdminPollsController, Audited, createPoll, updatePoll, deletePoll,
              publish, votePoll, patchPoll, closePoll
<1>3. ASSUME NEW r \in Request, IdeasController(r) PROVE audit \subseteq audit'
  BY <1>3 DEF IdeasController, Audited, createIdea, updateIdea, deleteIdea, moderate, voteIdea, unvote,
              createComment, Throw
<1>4. ASSUME NEW r \in Request, CommentsController(r) PROVE audit \subseteq audit'
  BY <1>4 DEF CommentsController, Audited, comment, updateComment, deleteComment, react
<1> QED
  BY <1>1, <1>2, <1>3, <1>4 DEF Next, vars

LEMMA OpenReadStep ==
    ASSUME TypeOK, ReplayInv, OpenReadInv, [Next]_vars
    PROVE  OpenReadInv'
<1>1. ASSUME NEW r \in Request, op[r].does = "votePoll", read'[r] = "open"
      PROVE  Log("poll.publish", op[r].on)' # {}
  <2>1. op[r].on \in Poll /\ op' = op /\ audit \subseteq audit'
    BY <1>1, PollTarget, Reads, LogStays DEF OfPolls
  <2>2. Log("poll.publish", op[r].on) # {}
    BY <1>1, <2>1, Reads DEF OpenReadInv, ReplayInv, PollInv, Looked
  <2> QED
    BY <2>1, <2>2 DEF Log
<1>2. ASSUME NEW r \in Request PROVE op' = op
  BY Reads
<1> QED
  BY <1>1, <1>2 DEF OpenReadInv, Log

LEMMA ReplayInvTells == ReplayInv => AuditReplays
<1> SUFFICES ASSUME ReplayInv PROVE AuditReplays
  OBVIOUS
<1>1. ASSUME NEW x, NEW creators, NEW updaters, WrittenBy(x, creators, updaters)
      PROVE  TextReplays(x, creators, updaters)
  BY <1>1, FS_EmptySet, FS_Singleton DEF WrittenBy, TextReplays
<1>2. ASSUME NEW p \in Poll PROVE PollReplays(p)
  BY <1>1 DEF ReplayInv, PollInv, PollReplays
<1>3. ASSUME NEW i \in Idea PROVE IdeaReplays(i)
  <2>1. ASSUME NEW u \in User
        PROVE  Cardinality(Doers("idea.vote", i, u)) = (IF <<i, u>> \in upvotes THEN 1 ELSE 0)
    <3>1. VotedOnce(i, u)
      BY DEF ReplayInv, IdeaInv
    <3> QED
      BY <3>1, FS_EmptySet, FS_Singleton DEF VotedOnce
  <2> QED
    BY <1>1, <2>1 DEF ReplayInv, IdeaInv, IdeaReplays, Doers
<1>4. ASSUME NEW c \in Comment PROVE CommentReplays(c)
  <2>1. ASSUME NEW u \in User
        PROVE  Toggled(c, u, "comment.react.add")
                   <= Toggled(c, u, "comment.react.remove") + (IF <<c, u>> \in reactions THEN 1 ELSE 0)
    BY DEF ReplayInv, CommentInv, TogglesBalance, Doers, Toggled
  <2> QED
    BY <1>1, <2>1 DEF ReplayInv, CommentInv, CommentReplays
<1> QED
  BY <1>2, <1>3, <1>4 DEF AuditReplays

\* Whatever requests raced, the audit log tells the state of every poll, idea,
\* comment and vote, and what was rolled back is not in it.
THEOREM AuditTells == Spec => []AuditReplays
<1>1. Init => IInv /\ ReplayInv /\ OpenReadInv
  BY InitInvariant, InitReplay DEF Init, OpenReadInv
<1>2. IInv /\ ReplayInv /\ OpenReadInv /\ [Next]_vars => (IInv /\ ReplayInv /\ OpenReadInv)'
  BY NextInvariant, ReplayStep, OpenReadStep DEF IInv
<1>3. IInv /\ ReplayInv /\ OpenReadInv => AuditReplays
  BY ReplayInvTells
<1> QED
  BY <1>1, <1>2, <1>3, PTL DEF Spec

-----------------------------------------------------------------------------
(* What a reader is answered.                                              *)

\* Votes are finitely many, and a reaction that is there was added by a request
\* of its user.
CountedInv ==
    /\ IsFiniteSet(ballots) /\ IsFiniteSet(upvotes)
    /\ \A c \in Comment, u \in User : <<c, u>> \in reactions => Doers("comment.react.add", c, u) # {}

StateInv == IInv /\ ReplayInv /\ OpenReadInv /\ CountedInv

\* What a step leaves in the log and among the votes.
Grows ==
    /\ op' = op
    /\ \A a, x : Log(a, x) \subseteq Log(a, x)'
    /\ \A a, x, u : Doers(a, x, u) \subseteq Doers(a, x, u)'
    /\ upvotes \subseteq upvotes'
    /\ IsFiniteSet(ballots') /\ IsFiniteSet(upvotes')

LEMMA GrowsByAudit ==
    ASSUME NEW r \in Request, NEW action, Audited(r, action), upvotes \subseteq upvotes',
           IsFiniteSet(ballots'), IsFiniteSet(upvotes')
    PROVE  Grows
BY LogGrows DEF Grows

LEMMA GrowsBySilence ==
    ASSUME UNCHANGED <<audit, op>>, CountedInv, UNCHANGED <<ballots, upvotes>>
    PROVE  Grows
BY DEF Grows, Log, Doers, CountedInv

LEMMA StepGrows ==
    ASSUME TypeOK, CountedInv, [Next]_vars
    PROVE  Grows
<1>1. ASSUME NEW r \in Request, Select(r) \/ SelectReaction(r) \/ Throw(r) \/ unvote(r) PROVE Grows
  BY <1>1, GrowsBySilence DEF Select, SelectReaction, Throw, unvote, Finish, contents
<1>2. ASSUME NEW r \in Request, createPoll(r) \/ updatePoll(r) \/ patchPoll(r) \/ closePoll(r) PROVE Grows
  BY <1>2, GrowsByAudit DEF createPoll, updatePoll, patchPoll, closePoll, CountedInv
<1>3. ASSUME NEW r \in Request, deletePoll(r) PROVE Grows
  <2>1. IsFiniteSet(ballots')
    BY <1>3, FS_Subset DEF deletePoll, CountedInv
  <2> QED
    BY <1>3, <2>1, GrowsByAudit DEF deletePoll, CountedInv
<1>4. ASSUME NEW r \in Request, publish(r) PROVE Grows
  BY <1>4, GrowsByAudit, GrowsBySilence DEF publish, Finish, CountedInv
<1>5. ASSUME NEW r \in Request, votePoll(r) PROVE Grows
  <2>1. PICK b, rest : /\ rest \subseteq ballots /\ ballots' = rest \cup {b}
    BY <1>5 DEF votePoll
  <2>2. IsFiniteSet(rest)
    BY <2>1, FS_Subset DEF CountedInv
  <2>3. IsFiniteSet(ballots')
    BY <2>1, <2>2, FS_AddElement
  <2> QED
    BY <1>5, <2>3, GrowsByAudit DEF votePoll, CountedInv
<1>6. ASSUME NEW r \in Request, createIdea(r) \/ updateIdea(r) \/ deleteIdea(r) \/ moderate(r) PROVE Grows
  BY <1>6, GrowsByAudit DEF createIdea, updateIdea, deleteIdea, moderate, CountedInv
<1>7. ASSUME NEW r \in Request, voteIdea(r) PROVE Grows
  <2>1. CASE Finish(r) /\ UNCHANGED <<upvotes, audit>>
    BY <1>7, <2>1, GrowsBySilence DEF voteIdea, Finish
  <2>2. CASE upvotes' = upvotes \cup {<<op[r].on, op[r].by>>} /\ Audited(r, "idea.vote")
    <3>1. IsFiniteSet(upvotes')
      BY <2>2, FS_AddElement DEF CountedInv
    <3> QED
      BY <1>7, <2>2, <3>1, GrowsByAudit DEF voteIdea, CountedInv
  <2> QED
    BY <1>7, <2>1, <2>2 DEF voteIdea
<1>8. ASSUME NEW r \in Request,
             comment(r) \/ createComment(r) \/ updateComment(r) \/ deleteComment(r) \/ react(r)
      PROVE  Grows
  BY <1>8, GrowsByAudit DEF comment, createComment, updateComment, deleteComment, react, CountedInv
<1>9. CASE UNCHANGED vars
  BY <1>9, GrowsBySilence DEF vars, contents
<1> QED
  BY <1>1, <1>2, <1>3, <1>4, <1>5, <1>6, <1>7, <1>8, <1>9
  DEF Next, PollsController, AdminPollsController, IdeasController, CommentsController

\* Only react adds a reaction.
LEMMA ReactionsOf ==
    ASSUME TypeOK, [Next]_vars
    PROVE  \/ reactions' = reactions
           \/ \E r \in Request : react(r)
<1>1. ASSUME NEW r \in Request, Select(r) \/ SelectReaction(r) \/ Throw(r) \/ unvote(r) PROVE reactions' = reactions
  BY <1>1 DEF Select, SelectReaction, Throw, unvote, contents
<1>2. ASSUME NEW r \in Request, PollsController(r) \/ AdminPollsController(r) PROVE reactions' = reactions
  BY <1>2 DEF PollsController, AdminPollsController, createPoll, updatePoll, deletePoll, publish, votePoll,
              patchPoll, closePoll
<1>3. ASSUME NEW r \in Request,
             createIdea(r) \/ updateIdea(r) \/ deleteIdea(r) \/ moderate(r) \/ voteIdea(r) \/ createComment(r)
      PROVE  reactions' = reactions
  BY <1>3 DEF createIdea, updateIdea, deleteIdea, moderate, voteIdea, createComment
<1>4. ASSUME NEW r \in Request, comment(r) \/ updateComment(r) \/ deleteComment(r) PROVE reactions' = reactions
  BY <1>4 DEF comment, updateComment, deleteComment
<1> QED
  BY <1>1, <1>2, <1>3, <1>4 DEF Next, IdeasController, CommentsController, vars, contents

LEMMA CountedStep ==
    ASSUME TypeOK, CountedInv, [Next]_vars
    PROVE  CountedInv'
<1>1. Grows
  BY StepGrows
<1>2. ASSUME NEW c \in Comment, NEW u \in User, <<c, u>> \in reactions'
      PROVE  Doers("comment.react.add", c, u)' # {}
  <2>1. CASE <<c, u>> \in reactions
    BY <1>1, <2>1 DEF CountedInv, Grows
  <2>2. CASE <<c, u>> \notin reactions
    <3>1. PICK r \in Request : react(r)
      BY <1>2, <2>2, ReactionsOf
    <3>2. c = op[r].on /\ u = op[r].by /\ Audited(r, "comment.react.add")
      BY <1>2, <2>2, <3>1 DEF react
    <3>3. r \in Doers("comment.react.add", c, u)'
      BY <3>2, LogGrows
    <3> QED
      BY <3>3
  <2> QED
    BY <2>1, <2>2
<1> QED
  BY <1>1, <1>2 DEF CountedInv, Grows

LEMMA StateStep == StateInv /\ [Next]_vars => StateInv' /\ Grows
BY NextInvariant, ReplayStep, OpenReadStep, CountedStep, StepGrows DEF StateInv, IInv

-----------------------------------------------------------------------------
(* The counts of a poll.                                                   *)

\* One ballot per user: the ballots for an option are as many as their users.
LEMMA BallotsOfUsers ==
    ASSUME TypeOK, VotesCounted, CountedInv, NEW p \in Poll, NEW o,
           NEW S, S = {b \in ballots : b.poll = p /\ b.option = o}
    PROVE  Cardinality({b.user : b \in S}) = Cardinality(S)
<1> DEFINE users == {b.user : b \in S}
           f == [b \in S |-> b.user]
<1>1. IsFiniteSet(S)
  BY FS_Subset DEF CountedInv
<1>2. f \in [S -> users] /\ \A u \in users : \E b \in S : f[b] = u
  OBVIOUS
<1>3. \A b, c \in S : f[b] = f[c] => b = c
  BY DEF VotesCounted
<1>4. f \in Bijection(S, users)
  <2> HIDE DEF f, users
  <2>1. DOMAIN f = S
    BY <1>2
  <2> QED
    BY <1>2, <1>3, <2>1 DEF Bijection, Injection, Surjection, IsInjective
<1>5. ExistsBijection(S, users)
  BY <1>4 DEF ExistsBijection
<1> QED
  <2> HIDE DEF users
  <2>1. Cardinality(users) = Cardinality(S)
    BY <1>1, <1>5, FS_Bijection
  <2> QED
    BY <2>1 DEF users

LEMMA BallotCounts ==
    ASSUME StateInv, NEW p \in Poll,
           NEW cast, cast = {b \in ballots : b.poll = p},
           NEW tally,
           tally = [o \in {b.option : b \in cast} |-> Cardinality({b \in cast : b.option = o})]
    PROVE  CountsOf(tally, Actors("poll.vote", p))
<1> PICK actors : actors = Actors("poll.vote", p)
  OBVIOUS
<1> DEFINE votes(o) == {b \in ballots : b.poll = p /\ b.option = o}
           counted == [o \in DOMAIN tally |-> {b.user : b \in votes(o)}]
<1>1. \A b \in cast : b.user \in actors
  BY DEF StateInv, ReplayInv, PollInv, Actors
<1>2. counted \in [DOMAIN tally -> SUBSET actors]
  BY <1>1
<1>3. ASSUME NEW o \in DOMAIN tally PROVE Cardinality(counted[o]) = tally[o]
  <2>1. votes(o) = {b \in cast : b.option = o}
    OBVIOUS
  <2>2. Cardinality({b.user : b \in votes(o)}) = Cardinality(votes(o))
    BY BallotsOfUsers DEF StateInv, IInv
  <2> QED
    BY <2>1, <2>2
<1>4. ASSUME NEW o \in DOMAIN tally, NEW q \in DOMAIN tally, o # q PROVE counted[o] \cap counted[q] = {}
  <2>1. ASSUME NEW u, u \in counted[o], u \in counted[q] PROVE FALSE
    <3>1. PICK b \in votes(o) : b.user = u
      BY <2>1
    <3>2. PICK c \in votes(q) : c.user = u
      BY <2>1
    <3>3. b = c
      BY <3>1, <3>2 DEF StateInv, IInv, VotesCounted
    <3> QED
      BY <1>4, <3>1, <3>2, <3>3
  <2> QED
    BY <2>1
<1> QED
  <2> HIDE DEF counted
  <2> QED
    BY <1>2, <1>3, <1>4 DEF CountsOf

\* More users who voted do no harm.
LEMMA CountsStay ==
    ASSUME NEW tally, NEW S, NEW T, S \subseteq T, CountsOf(tally, S)
    PROVE  CountsOf(tally, T)
<1>1. PICK counted \in [DOMAIN tally -> SUBSET S] :
        /\ \A x \in DOMAIN tally : Cardinality(counted[x]) = tally[x]
        /\ \A x, y \in DOMAIN tally : x # y => counted[x] \cap counted[y] = {}
  BY DEF CountsOf
<1>2. counted \in [DOMAIN tally -> SUBSET T]
  OBVIOUS
<1> QED
  BY <1>1, <1>2 DEF CountsOf

-----------------------------------------------------------------------------
(* What has been shown is explained, and stays so.                         *)

PollShown(p) ==
    /\ p \in Poll /\ text[p] # NoRequest
    /\ \A s \in shown.rows :
        /\ s.id = p
        /\ s.status = "open" => Log("poll.publish", p) # {}
        /\ s.status = "closed" => Log("poll.close", p) # {}
    /\ step \in {"counts", "answered"} =>
        \/ shown.options = Option
        \/ shown.options = {} /\ Log("poll.delete", p) # {}
    /\ step = "answered" =>
        /\ DOMAIN shown.tally \subseteq shown.options
        /\ DOMAIN shown.tally # {} => Log("poll.publish", p) # {}
        /\ CountsOf(shown.tally, Actors("poll.vote", p))

IdeasShown ==
    \A s \in shown.rows :
        /\ s.id \in Idea
        /\ s.status = "draft" \/ \E r \in Log("idea.moderate", s.id) : op[r].status = s.status
        /\ step = "answered" =>
            /\ shown.tally[s.id] \in Nat
            /\ shown.tally[s.id] <= Cardinality({v \in upvotes : v[1] = s.id})

CommentsShown ==
    \A s \in shown.rows :
        /\ s.id \in Comment
        /\ s.text \in Creations(s.id) \cup Log("comment.update", s.id)
        /\ query.asks = "getComment" => s.id = query.of
        /\ DOMAIN shown.tally \subseteq Actors("comment.react.add", s.id)

AsksComments == {"getComment", "listComments"}
AsksIdeas == {"getIdea", "listIdeas"}

ShownInv ==
    /\ query \in Query
    /\ shown = [rows |-> shown.rows, options |-> shown.options, tally |-> shown.tally]
    /\ step = "rows" => shown.rows = {}
    /\ step \in {"rows", "hydrate", "reactions"} => DOMAIN shown.tally = {}
    /\ step = "hydrate" => query.asks \in AsksIdeas
    /\ query.asks = "getPoll" /\ step \in {"options", "counts", "answered"} => PollShown(query.of)
    /\ query.asks \in AsksIdeas /\ step \in {"hydrate", "answered"} => IdeasShown
    /\ query.asks \in AsksComments /\ step \in {"reactions", "answered"} => CommentsShown

LEMMA ViewInitShown == ViewInit => ShownInv
<1> SUFFICES ASSUME ViewInit PROVE ShownInv
  OBVIOUS
<1>1. /\ query \in Query /\ step = "rows"
      /\ shown = [rows |-> {}, options |-> {}, tally |-> <<>>]
  BY DEF ViewInit
<1>2. DOMAIN shown.tally = {} /\ shown.rows = {}
  BY <1>1
<1> QED
  BY <1>1, <1>2 DEF ShownInv

\* Requests that commit while the answer is put together.
LEMMA ShownStays ==
    ASSUME StateInv, ShownInv, Grows, StateInv', UNCHANGED <<query, step, shown>>,
           \A x \in Content : text[x] # NoRequest => text'[x] # NoRequest
    PROVE  ShownInv'
<1>1. ASSUME NEW a, NEW x PROVE Actors(a, x) \subseteq Actors(a, x)'
  BY DEF Grows, Actors
<1>2. ASSUME NEW p, PollShown(p) PROVE PollShown(p)'
  <2>1. step = "answered" => CountsOf(shown.tally, Actors("poll.vote", p)')
    BY <1>1, <1>2, CountsStay DEF PollShown
  <2>2. \A a : Log(a, p) \subseteq Log(a, p)'
    BY DEF Grows
  <2>3. p \in Content
    BY <1>2 DEF PollShown, Content
  <2> QED
    BY <1>2, <2>1, <2>2, <2>3 DEF PollShown, CountsOf
<1>3. ASSUME IdeasShown PROVE IdeasShown'
  <2>1. ASSUME NEW s \in shown.rows, step = "answered"
        PROVE  shown.tally[s.id] <= Cardinality({v \in upvotes' : v[1] = s.id})
    <3>1. PICK t, V, W : /\ t = shown.tally[s.id]
                         /\ V = {v \in upvotes : v[1] = s.id} /\ W = {v \in upvotes' : v[1] = s.id}
      OBVIOUS
    <3>2. V \subseteq W
      BY <3>1 DEF Grows
    <3>3. IsFiniteSet(V) /\ IsFiniteSet(W) /\ Cardinality(V) <= Cardinality(W)
      BY <3>1, <3>2, FS_Subset DEF Grows
    <3>4. Cardinality(V) \in Nat /\ Cardinality(W) \in Nat
      BY <3>3, FS_CardinalityType
    <3>5. t \in Nat /\ t <= Cardinality(V)
      BY <1>3, <2>1, <3>1 DEF IdeasShown
    <3>6. t <= Cardinality(W)
      BY <3>3, <3>4, <3>5
    <3> QED
      BY <3>1, <3>6
  <2> QED
    BY <1>3, <2>1 DEF IdeasShown, Grows
<1>4. ASSUME CommentsShown PROVE CommentsShown'
  BY <1>1, <1>4 DEF CommentsShown, Creations, Grows
<1> QED
  BY <1>2, <1>3, <1>4 DEF ShownInv

\* What a statement adds to the answer.
LEMMA ShowsPart ==
    ASSUME shown = [rows |-> shown.rows, options |-> shown.options, tally |-> shown.tally],
           NEW part \in {"rows", "options", "tally"}, NEW value, NEW next, Shows(part, value, next)
    PROVE  /\ shown' = [rows |-> shown'.rows, options |-> shown'.options, tally |-> shown'.tally]
           /\ step' = next
           /\ shown'.rows = IF part = "rows" THEN value ELSE shown.rows
           /\ shown'.options = IF part = "options" THEN value ELSE shown.options
           /\ shown'.tally = IF part = "tally" THEN value ELSE shown.tally
<1> PICK a, b, c : shown = [rows |-> a, options |-> b, tally |-> c]
  OBVIOUS
<1>1. CASE part = "rows"
  <2>1. shown' = [rows |-> value, options |-> b, tally |-> c]
    BY <1>1 DEF Shows
  <2> QED
    BY <1>1, <2>1 DEF Shows
<1>2. CASE part = "options"
  <2>1. shown' = [rows |-> a, options |-> value, tally |-> c]
    BY <1>2 DEF Shows
  <2> QED
    BY <1>2, <2>1 DEF Shows
<1>3. CASE part = "tally"
  <2>1. shown' = [rows |-> a, options |-> b, tally |-> value]
    BY <1>3 DEF Shows
  <2> QED
    BY <1>3, <2>1 DEF Shows
<1> QED
  BY <1>1, <1>2, <1>3

\* An answer that is not given needs no explanation.
LEMMA ThrownShown == ShownInv /\ Answered("thrown") /\ UNCHANGED <<vars, query>> => ShownInv'
BY DEF ShownInv, Answered

\* The idea shown has the status it was created with, or was moderated to.
LEMMA IdeaExplained ==
    ASSUME StateInv, NEW i \in Idea
    PROVE  moderated[i] = "draft" \/ \E r \in Log("idea.moderate", i) : op[r].status = moderated[i]
BY DEF StateInv, ReplayInv, IdeaInv

\* The text of a comment that is there is that of its creator or of an update.
LEMMA CommentExplained ==
    ASSUME StateInv, NEW c \in CommentsVisible
    PROVE  text[c] \in Creations(c) \cup Log("comment.update", c)
<1>1. c \in Comment /\ c \in Content /\ text[c] # NoRequest
  BY DEF StateInv, IInv, CreatedInv, CommentsVisible, Content
<1> QED
  BY <1>1 DEF StateInv, ReplayInv, CommentInv, WrittenBy, Creations

LEMMA QueryOf ==
    ASSUME query \in Query
    PROVE  /\ query.asks = "getPoll" => query.of \in Poll
           /\ query.asks = "getIdea" => query.of \in Idea
           /\ query.asks = "getComment" => query.of \in Comment
BY DEF Query, PollQuery, IdeaQuery, CommentQuery, NoQuery

\* Every statement of an answer.
LEMMA ViewStep ==
    ASSUME StateInv, ShownInv, View
    PROVE  ShownInv'
<1> USE QueryOf
<1>0. /\ UNCHANGED <<vars, query>> /\ UNCHANGED <<contents, audit, op>>
      /\ UNCHANGED <<row, text, moderated, ballots, upvotes, reactions>>
  BY DEF View, vars, contents
<1>1. \A a, x : Log(a, x)' = Log(a, x) /\ Actors(a, x)' = Actors(a, x) /\ Creations(x)' = Creations(x)
  <2>1. \A a, x : Log(a, x)' = Log(a, x)
    BY <1>0 DEF Log
  <2> QED
    BY <1>0, <2>1 DEF Actors, Creations
<1>2. /\ query \in Query /\ query' = query
      /\ shown = [rows |-> shown.rows, options |-> shown.options, tally |-> shown.tally]
  BY <1>0 DEF ShownInv
<1>3. CASE listPolls
  <2>1. /\ shown' = [rows |-> shown'.rows, options |-> shown'.options, tally |-> shown'.tally]
        /\ step' = "answered" /\ query.asks = "listPolls"
    BY <1>2, <1>3, ShowsPart DEF listPolls, Asks
  <2> QED
    BY <1>0, <1>2, <2>1 DEF ShownInv, AsksIdeas, AsksComments
<1>4. CASE selectPoll
  <2>1. query.asks = "getPoll" /\ query.of \in Poll
    BY <1>2, <1>4 DEF selectPoll, Asks
  <2>2. CASE {toPoll(p) : p \in PollsThere \cap {query.of}} = {}
    BY <1>0, <1>4, <2>2, ThrownShown DEF selectPoll, ShowsOne
  <2>3. CASE {toPoll(p) : p \in PollsThere \cap {query.of}} # {}
    <3>1. query.of \in PollsThere
      BY <2>3
    <3>2. {toPoll(p) : p \in PollsThere \cap {query.of}} = {toPoll(query.of)}
      BY <3>1
    <3>3. Shows("rows", {toPoll(query.of)}, "options")
      BY <1>4, <2>3, <3>2 DEF selectPoll, ShowsOne
    <3>4. /\ shown' = [rows |-> shown'.rows, options |-> shown'.options, tally |-> shown'.tally]
          /\ step' = "options" /\ shown'.rows = {toPoll(query.of)}
      BY <1>2, <3>3, ShowsPart
    <3>5. text[query.of] # NoRequest
      BY <2>1, <3>1 DEF StateInv, IInv, CreatedInv, PollsThere, Content
    <3>6. /\ row[query.of] = "open" => Log("poll.publish", query.of)' # {}
          /\ row[query.of] = "closed" => Log("poll.close", query.of)' # {}
      <4>1. PollInv(query.of)
        BY <2>1 DEF StateInv, ReplayInv
      <4> QED
        BY <1>1, <1>2, <4>1 DEF PollInv
    <3>7. PollShown(query.of)'
      BY <1>0, <2>1, <3>4, <3>5, <3>6 DEF PollShown, toPoll
    <3> QED
      BY <1>2, <2>1, <3>4, <3>7 DEF ShownInv, AsksIdeas, AsksComments
  <2> QED
    BY <2>2, <2>3
<1>5. CASE selectOptions
  <2>1. query.asks = "getPoll" /\ query.of \in Poll /\ PollShown(query.of)
    BY <1>2, <1>5 DEF selectOptions, Asks, ShownInv
  <2>2. /\ shown' = [rows |-> shown'.rows, options |-> shown'.options, tally |-> shown'.tally]
        /\ step' = "counts" /\ shown'.rows = shown.rows
        /\ shown'.options = IF query.of \in PollsThere THEN Option ELSE {}
    BY <1>2, <1>5, ShowsPart DEF selectOptions
  <2>3. query.of \notin PollsThere => Log("poll.delete", query.of) # {}
    BY <2>1 DEF PollsThere, PollShown, StateInv, ReplayInv, PollInv
  <2>4. PollShown(query.of)'
    BY <1>0, <1>1, <1>2, <2>1, <2>2, <2>3 DEF PollShown
  <2> QED
    BY <1>2, <2>1, <2>2, <2>4 DEF ShownInv, AsksIdeas, AsksComments
<1>6. CASE countVotes
  <2> PICK p : p = query.of
    OBVIOUS
  <2> PICK cast : cast = {b \in ballots : b.poll = p}
    OBVIOUS
  <2> PICK tally : tally = [o \in {b.option : b \in cast} |-> Cardinality({b \in cast : b.option = o})]
    OBVIOUS
  <2>1. query.asks = "getPoll" /\ p \in Poll /\ PollShown(p) /\ step = "counts"
    BY <1>2, <1>6 DEF countVotes, Asks, ShownInv
  <2>2. Shows("tally", tally, "answered")
    BY <1>6 DEF countVotes
  <2>3. /\ shown' = [rows |-> shown'.rows, options |-> shown'.options, tally |-> shown'.tally]
        /\ step' = "answered" /\ shown'.rows = shown.rows /\ shown'.options = shown.options
        /\ shown'.tally = tally
    BY <1>2, <2>2, ShowsPart
  <2>4. DOMAIN tally = {b.option : b \in cast}
    OBVIOUS
  <2>5. CountsOf(tally, Actors("poll.vote", p))
    BY <2>1, BallotCounts
  <2>6. cast # {} => row[p] # "none" /\ text[p] # NoRequest
    BY <2>1 DEF StateInv, IInv, VotesCounted, PollShown
  <2>7. cast # {} => Log("poll.publish", p) # {} /\ Log("poll.delete", p) = {}
    BY <2>1, <2>6 DEF StateInv, ReplayInv, PollInv
  <2>8. DOMAIN tally \subseteq Option
    BY <2>4 DEF StateInv, IInv, TypeOK, Ballots
  <2>9. DOMAIN tally \subseteq shown.options
    BY <2>1, <2>4, <2>7, <2>8 DEF PollShown
  <2>10. CountsOf(shown.tally, Actors("poll.vote", p))'
    <3> PICK actors : actors = Actors("poll.vote", p)
      OBVIOUS
    <3>1. PICK counted \in [DOMAIN tally -> SUBSET actors] :
            /\ \A x \in DOMAIN tally : Cardinality(counted[x]) = tally[x]
            /\ \A x, y \in DOMAIN tally : x # y => counted[x] \cap counted[y] = {}
      BY <2>5 DEF CountsOf
    <3>2. actors = Actors("poll.vote", p)'
      BY <1>1
    <3>3. DOMAIN shown'.tally = DOMAIN tally /\ counted \in [DOMAIN shown'.tally -> SUBSET actors]
      BY <2>3, <3>1
    <3>4. /\ \A x \in DOMAIN shown'.tally : Cardinality(counted[x]) = shown'.tally[x]
          /\ \A x, y \in DOMAIN shown'.tally : x # y => counted[x] \cap counted[y] = {}
      BY <2>3, <3>1
    <3>5. CountsOf(shown.tally, Actors("poll.vote", p))' <=>
            \E f \in [DOMAIN shown'.tally -> SUBSET Actors("poll.vote", p)'] :
                /\ \A x \in DOMAIN shown'.tally : Cardinality(f[x]) = shown'.tally[x]
                /\ \A x, y \in DOMAIN shown'.tally : x # y => f[x] \cap f[y] = {}
      BY DEF CountsOf
    <3> QED
      BY <3>2, <3>3, <3>4, <3>5
  <2>11. PollShown(p)'
    <3>1. /\ p \in Poll /\ text'[p] # NoRequest
          /\ \A s \in shown'.rows :
                /\ s.id = p
                /\ s.status = "open" => Log("poll.publish", p)' # {}
                /\ s.status = "closed" => Log("poll.close", p)' # {}
      BY <1>0, <1>1, <2>1, <2>3 DEF PollShown
    <3>2. \/ shown'.options = Option
          \/ shown'.options = {} /\ Log("poll.delete", p)' # {}
      BY <1>1, <2>1, <2>3 DEF PollShown
    <3>3. DOMAIN shown'.tally # {} => Log("poll.publish", p)' # {}
      BY <1>1, <2>3, <2>4, <2>7
    <3> QED
      BY <2>3, <2>9, <2>10, <3>1, <3>2, <3>3 DEF PollShown
  <2> QED
    BY <1>2, <2>1, <2>3, <2>11 DEF ShownInv, AsksIdeas, AsksComments
<1>7. CASE selectIdea
  <2>1. query.asks = "getIdea" /\ query.of \in Idea /\ DOMAIN shown.tally = {}
    BY <1>2, <1>7 DEF selectIdea, Asks, ShownInv
  <2>2. CASE {toIdea(i) : i \in IdeasLive \cap {query.of}} = {}
    BY <1>0, <1>7, <2>2, ThrownShown DEF selectIdea, ShowsOne
  <2>3. CASE {toIdea(i) : i \in IdeasLive \cap {query.of}} # {}
    <3>1. Shows("rows", {toIdea(i) : i \in IdeasLive \cap {query.of}}, "hydrate")
      BY <1>7, <2>3 DEF selectIdea, ShowsOne
    <3>2. /\ shown' = [rows |-> shown'.rows, options |-> shown'.options, tally |-> shown'.tally]
          /\ step' = "hydrate" /\ shown'.tally = shown.tally
          /\ shown'.rows = {toIdea(i) : i \in IdeasLive \cap {query.of}}
      BY <1>2, <3>1, ShowsPart
    <3>3. IdeasShown'
      BY <1>0, <1>1, <3>2, IdeaExplained DEF IdeasShown, toIdea, IdeasLive
    <3> QED
      BY <1>2, <2>1, <3>2, <3>3 DEF ShownInv, AsksIdeas, AsksComments
  <2> QED
    BY <2>2, <2>3
<1>8. CASE listIdeas
  <2>1. query.asks = "listIdeas" /\ DOMAIN shown.tally = {}
    BY <1>2, <1>8 DEF listIdeas, Asks, ShownInv
  <2>2. PICK page \in SUBSET IdeasLive :
          Shows("rows", {toIdea(i) : i \in page}, IF page = {} THEN "answered" ELSE "hydrate")
    BY <1>8 DEF listIdeas
  <2>3. /\ shown' = [rows |-> shown'.rows, options |-> shown'.options, tally |-> shown'.tally]
        /\ step' = IF page = {} THEN "answered" ELSE "hydrate"
        /\ shown'.tally = shown.tally
        /\ shown'.rows = {toIdea(i) : i \in page}
    BY <1>2, <2>2, ShowsPart
  <2>4. IdeasShown'
    BY <1>0, <1>1, <2>2, <2>3, IdeaExplained DEF IdeasShown, toIdea, IdeasLive
  <2> QED
    BY <1>2, <2>1, <2>3, <2>4 DEF ShownInv, AsksIdeas, AsksComments
<1>9. CASE hydrate
  <2> PICK tally : tally = [i \in {s.id : s \in shown.rows} |-> Cardinality({v \in upvotes : v[1] = i})]
    OBVIOUS
  <2>1. query.asks \in AsksIdeas /\ IdeasShown /\ step = "hydrate"
    BY <1>9 DEF hydrate, ShownInv
  <2>2. Shows("tally", tally, "answered")
    BY <1>9 DEF hydrate
  <2>3. /\ shown' = [rows |-> shown'.rows, options |-> shown'.options, tally |-> shown'.tally]
        /\ step' = "answered" /\ shown'.rows = shown.rows /\ shown'.tally = tally
    BY <1>2, <2>2, ShowsPart
  <2>4. ASSUME NEW s \in shown.rows
        PROVE  tally[s.id] = Cardinality({v \in upvotes : v[1] = s.id}) /\ tally[s.id] \in Nat
    <3>1. IsFiniteSet({v \in upvotes : v[1] = s.id})
      BY FS_Subset DEF StateInv, CountedInv
    <3>2. tally[s.id] = Cardinality({v \in upvotes : v[1] = s.id})
      OBVIOUS
    <3> QED
      BY <3>1, <3>2, FS_CardinalityType
  <2>5. IdeasShown'
    BY <1>0, <1>1, <2>1, <2>3, <2>4 DEF IdeasShown
  <2> QED
    BY <1>2, <2>1, <2>3, <2>5 DEF ShownInv, AsksIdeas, AsksComments
<1>10. CASE listComments
  <2>1. query.asks = "listComments" /\ DOMAIN shown.tally = {}
    BY <1>2, <1>10 DEF listComments, Asks, ShownInv
  <2>2. PICK page \in SUBSET CommentsVisible : Shows("rows", {toComment(c) : c \in page}, "answered")
    BY <1>10 DEF listComments
  <2>3. /\ shown' = [rows |-> shown'.rows, options |-> shown'.options, tally |-> shown'.tally]
        /\ step' = "answered" /\ shown'.tally = shown.tally
        /\ shown'.rows = {toComment(c) : c \in page}
    BY <1>2, <2>2, ShowsPart
  <2>4. CommentsShown'
    BY <1>0, <1>1, <1>2, <2>1, <2>2, <2>3, CommentExplained DEF CommentsShown, toComment, CommentsVisible
  <2> QED
    BY <1>2, <2>1, <2>3, <2>4 DEF ShownInv, AsksIdeas, AsksComments
<1>11. CASE selectComment
  <2>1. query.asks = "getComment" /\ query.of \in Comment /\ DOMAIN shown.tally = {}
    BY <1>2, <1>11 DEF selectComment, Asks, ShownInv
  <2>2. CASE {toComment(c) : c \in CommentsVisible \cap {query.of}} = {}
    BY <1>0, <1>11, <2>2, ThrownShown DEF selectComment, ShowsOne
  <2>3. CASE {toComment(c) : c \in CommentsVisible \cap {query.of}} # {}
    <3>1. Shows("rows", {toComment(c) : c \in CommentsVisible \cap {query.of}}, "reactions")
      BY <1>11, <2>3 DEF selectComment, ShowsOne
    <3>2. /\ shown' = [rows |-> shown'.rows, options |-> shown'.options, tally |-> shown'.tally]
          /\ step' = "reactions" /\ shown'.tally = shown.tally
          /\ shown'.rows = {toComment(c) : c \in CommentsVisible \cap {query.of}}
      BY <1>2, <3>1, ShowsPart
    <3>3. CommentsShown'
      BY <1>0, <1>1, <1>2, <2>1, <3>2, CommentExplained DEF CommentsShown, toComment, CommentsVisible
    <3> QED
      BY <1>2, <2>1, <3>2, <3>3 DEF ShownInv, AsksIdeas, AsksComments
  <2> QED
    BY <2>2, <2>3
<1>12. CASE selectReactions
  <2> PICK c : c = query.of
    OBVIOUS
  <2> PICK users : users = {v[2] : v \in {w \in reactions : w[1] = c}}
    OBVIOUS
  <2> PICK tally : tally = [u \in users |-> 1]
    OBVIOUS
  <2>1. query.asks = "getComment" /\ c \in Comment /\ CommentsShown
    BY <1>2, <1>12 DEF selectReactions, Asks, ShownInv, AsksComments
  <2>2. Shows("tally", tally, "answered")
    BY <1>12 DEF selectReactions
  <2>3. /\ shown' = [rows |-> shown'.rows, options |-> shown'.options, tally |-> shown'.tally]
        /\ step' = "answered" /\ shown'.rows = shown.rows /\ DOMAIN shown'.tally = users
    BY <1>2, <2>2, ShowsPart
  <2>4. users \subseteq Actors("comment.react.add", c)
    <3>1. ASSUME NEW u \in users PROVE u \in Actors("comment.react.add", c)
      <4>1. u \in User /\ <<c, u>> \in reactions
        BY DEF StateInv, IInv, TypeOK
      <4>2. PICK r : r \in Doers("comment.react.add", c, u)
        BY <2>1, <4>1 DEF StateInv, CountedInv
      <4> QED
        BY <4>2 DEF Doers, Actors
    <3> QED
      BY <3>1
  <2>5. CommentsShown'
    BY <1>0, <1>1, <1>2, <2>1, <2>3, <2>4 DEF CommentsShown
  <2> QED
    BY <1>2, <2>1, <2>3, <2>5 DEF ShownInv, AsksIdeas, AsksComments
<1>13. CASE ThrowView
  BY <1>0, <1>13, ThrownShown DEF ThrowView
<1> QED
  BY <1>3, <1>4, <1>5, <1>6, <1>7, <1>8, <1>9, <1>10, <1>11, <1>12, <1>13 DEF View

LEMMA ViewNextStep ==
    StateInv /\ ShownInv /\ [ViewNext]_viewVars => (StateInv /\ ShownInv)'
<1> SUFFICES ASSUME StateInv, ShownInv, [ViewNext]_viewVars PROVE StateInv' /\ ShownInv'
  OBVIOUS
<1>1. CASE View
  <2>1. UNCHANGED vars
    BY <1>1 DEF View
  <2>2. StateInv'
    BY <2>1, StateStep
  <2> QED
    BY <1>1, <2>2, ViewStep
<1>2. CASE [Next]_vars /\ UNCHANGED <<query, step, shown>>
  <2>1. StateInv' /\ Grows
    BY <1>2, StateStep
  <2>2. Effect
    BY <1>2, StepEffect DEF StateInv, IInv
  <2>3. \A x \in Content : text[x] # NoRequest => text'[x] # NoRequest
    BY <2>2, Monotone DEF StateInv, IInv
  <2> QED
    BY <1>2, <2>1, <2>3, ShownStays
<1> QED
  BY <1>1, <1>2 DEF ViewNext, viewVars

\* A reader who pieces an answer together from several statements, while
\* others delete, publish, vote, moderate, edit and react, is told nothing
\* that the audit log does not explain.
THEOREM AnswersAreExplained == ViewSpec => []AnswersExplained
<1>1. ViewInit => StateInv /\ ShownInv
  <2>1. ViewInit => Init
    BY DEF ViewInit
  <2>2. Init => CountedInv /\ OpenReadInv
    BY FS_EmptySet DEF Init, CountedInv, OpenReadInv
  <2> QED
    BY <2>1, <2>2, InitInvariant, InitReplay, ViewInitShown DEF StateInv
<1>2. StateInv /\ ShownInv /\ [ViewNext]_viewVars => (StateInv /\ ShownInv)'
  BY ViewNextStep
<1>3. StateInv /\ ShownInv => AnswersExplained
  <2> SUFFICES ASSUME ShownInv, step = "answered", NEW s \in shown.rows
               PROVE  /\ query.asks = "getPoll" => PollAnswerExplained(s)
                      /\ query.asks \in AsksIdeas => IdeaAnswerExplained(s)
                      /\ query.asks \in AsksComments => CommentAnswerExplained(s)
    BY DEF AnswersExplained, AsksIdeas, AsksComments
  <2>1. query.asks = "getPoll" => PollAnswerExplained(s)
    BY DEF ShownInv, PollShown, PollAnswerExplained
  <2>2. query.asks \in AsksIdeas => IdeaAnswerExplained(s)
    BY DEF ShownInv, IdeasShown, IdeaAnswerExplained
  <2>3. query.asks \in AsksComments => CommentAnswerExplained(s)
    BY DEF ShownInv, CommentsShown, CommentAnswerExplained
  <2> QED
    BY <2>1, <2>2, <2>3
<1> QED
  BY <1>1, <1>2, <1>3, PTL DEF ViewSpec

=============================================================================
