---------------------------- MODULE ContentProofs -----------------------------
(*****************************************************************************)
(* What requests ask for: discussions, answers and generated dashboards.     *)
(*****************************************************************************)
EXTENDS Backend, FiniteSetTheorems, SequenceTheorems, TLAPS

(*****************************************************************************)
(* Discussions (Comments)                                                    *)
(*                                                                           *)
(* A discussion stays sound for any number of people, requests, comments     *)
(* and widgets.                                                              *)
(*                                                                           *)
(* A request writes what it loaded a while ago.  The invariant says what     *)
(* of that still holds when it commits: the comment to be answered, if it    *)
(* is still there, is at the top, for ids are not used again; and the        *)
(* comment to be changed, if no other update overlapped, is as resolved as   *)
(* it was, for only an account's end touches it meanwhile.                   *)
(*****************************************************************************)

Post == [op : {"none", "create", "update", "delete"}, id : C!Ids \cup {0},
         who : People \cup {None}, row : C!Comment \cup {None}, old : C!Comment \cup {None}]

\* What list_comments needs of the rows f, with the widgets ws and the users us there are.
Orderly(f, ws, us, rc) ==
    \A c \in DOMAIN f :
        /\ f[c].parent # 0 => f[c].parent \in DOMAIN f /\ f[f[c].parent].parent = 0
        /\ f[c].widget \in ws \cup {None}
        /\ f[c].author \in us
        /\ ~f[c].resolved /\ c \notin rc => f[c].by = None

\* A request q that creates: its id is not used yet, and what it answers is at the top.
Creating(q, f, n) ==
    q.op = "create" =>
        /\ q.row \in C!Comment /\ q.row.parent \in 0..n
        /\ ~q.row.resolved /\ q.row.by = None
        /\ q.id \notin DOMAIN f
        /\ q.row.parent \in DOMAIN f => f[q.row.parent].parent = 0

\* A request q that updates: the row is as it was loaded, but for a resolver who is gone.
Updating(q, f, rc) ==
    q.op = "update" =>
        /\ q.row \in C!Comment /\ q.old \in C!Comment
        /\ q.row = q.old \/ (~q.row.resolved => q.row.by = None)
        /\ q.id \in DOMAIN f /\ q.id \notin rc =>
             /\ f[q.id].resolved = q.old.resolved /\ f[q.id].by \in {q.old.by, None}
             /\ ~q.old.resolved => q.old.by = None

\* Nobody but its own request knows the id of a comment that is being created.
Apart ==
    /\ \A p, r \in Posts : p # r /\ post[p].op = "create" => post[r].id # post[p].id
    /\ \A p, r \in Posts : post[p].op = "create" /\ post[r].op = "create" =>
                             post[r].row.parent # post[p].id

CommentTypes ==
    /\ begun \in 0..MaxPosts
    /\ comments \in [DOMAIN comments -> C!Comment] /\ DOMAIN comments \subseteq 1..begun
    /\ widgets \subseteq Widgets /\ people \subseteq People
    /\ post \in [Posts -> Post]
    /\ \A p \in Posts : IF post[p].op = "none" THEN post[p].id = 0 ELSE post[p].id \in 1..begun
    /\ raced \subseteq C!Ids

Pending ==
    \A p \in Posts : Creating(post[p], comments, begun) /\ Updating(post[p], comments, raced)

CommentsInv == CommentTypes /\ Orderly(comments, widgets, people, raced) /\ Pending /\ Apart

\* What a step of the whole does to the comments is a step of the comments.
LEMMA CommentsSteps ==
    ASSUME [NextAll]_all, subject' = "comments"
    PROVE  subject = "comments" /\ [C!Next]_(C!vars)
  <1>1. CASE NextAll
    BY <1>1 DEF NextAll
  <1>2. CASE UNCHANGED all
    BY <1>2 DEF all, commentVars, C!vars
  <1> QED BY <1>1, <1>2

LEMMA CommentsStart == C!Init => CommentsInv
  <1> SUFFICES ASSUME C!Init PROVE CommentsInv
    OBVIOUS
  <1>1. /\ DOMAIN comments = {} /\ begun = 0 /\ comments \in [{} -> C!Comment]
        /\ widgets = Widgets /\ people = People /\ raced = {}
    BY DEF C!Init
  <1>2. post \in [Posts -> Post] /\ \A p \in Posts : post[p].op = "none" /\ post[p].id = 0
    BY DEF C!Init, C!NoPost, Post
  <1>3. CommentTypes
    BY <1>1, <1>2, PostsAssumption DEF CommentTypes
  <1> QED BY <1>1, <1>2, <1>3 DEF CommentsInv, Orderly, Pending, Creating, Updating, Apart

\* A request that begins: its row and what it loaded are as the rows are now.
LEMMA CommentsBegin ==
    ASSUME CommentsInv, NEW p \in Posts, NEW op \in {"create", "update", "delete"},
           NEW c \in C!Ids, NEW u \in People, NEW row \in C!Comment \cup {None},
           NEW old \in C!Comment \cup {None}, C!Begin(p, op, c, u, row, old),
           IF op = "create" THEN c = begun + 1 ELSE c \in DOMAIN comments,
           Creating([op |-> op, id |-> c, who |-> u, row |-> row, old |-> old], comments, begun),
           op = "create" => row.parent \in DOMAIN comments \cup {0},
           Updating([op |-> op, id |-> c, who |-> u, row |-> row, old |-> old], comments, raced)
    PROVE  CommentsInv'
  <1> DEFINE q == [op |-> op, id |-> c, who |-> u, row |-> row, old |-> old]
  <1>1. /\ UNCHANGED <<comments, widgets, people, raced>> /\ begun < MaxPosts /\ begun' = begun + 1
        /\ post' = [post EXCEPT ![p] = q]
    BY DEF C!Begin
  <1>2. q \in Post /\ q.op = op /\ q.id = c /\ q.row = row
    BY DEF Post
  <1>3. /\ begun \in Nat /\ DOMAIN comments \subseteq 1..begun
        /\ post \in [Posts -> Post]
        /\ \A r \in Posts : IF post[r].op = "none" THEN post[r].id = 0 ELSE post[r].id \in 1..begun
        /\ \A r \in Posts : Creating(post[r], comments, begun) /\ Updating(post[r], comments, raced)
    BY PostsAssumption DEF CommentsInv, CommentTypes, Pending
  <1> HIDE DEF q
  <1>4. /\ post'[p] = q
        /\ \A r \in Posts : r # p => post'[r] = post[r]
        /\ post' \in [Posts -> Post]
    BY <1>1, <1>2, <1>3
  <1>5. CommentTypes'
    <2>1. begun' \in 0..MaxPosts /\ 1..begun \subseteq 1..begun'
      BY <1>1, <1>3, PostsAssumption
    <2>2. c \in 1..begun'
      BY <1>1, <1>3
    <2> QED BY <1>1, <1>2, <1>3, <1>4, <2>1, <2>2 DEF CommentsInv, CommentTypes
  <1>6. Pending'
    <2>1. Creating(q, comments, begun) /\ Updating(q, comments, raced)
      BY DEF q
    <2>2. \A r \in Posts : Creating(post'[r], comments, begun) /\ Updating(post'[r], comments, raced)
      BY <1>3, <1>4, <2>1
    <2>3. 0..begun \subseteq 0..begun'
      BY <1>1, <1>3
    <2>4. \A r \in Posts : Creating(post'[r], comments, begun')
      BY <2>2, <2>3 DEF Creating
    <2> QED BY <1>1, <2>2, <2>4 DEF Pending
  <1>7. Apart'
    <2>1. \A r \in Posts : post[r].op = "create" => /\ post[r].id \in 1..begun
                                                   /\ post[r].row.parent \in 0..begun
                                                   /\ post[r].id \notin DOMAIN comments
      BY <1>3 DEF Creating
    <2>2. \A r \in Posts : post[r].id \in 0..begun
      BY <1>3
    <2>3. \A r, t \in Posts : r # t /\ post'[r].op = "create" => post'[t].id # post'[r].id
      BY <1>2, <1>3, <1>4, <2>1, <2>2 DEF CommentsInv, Apart
    <2>4. \A r, t \in Posts : post'[r].op = "create" /\ post'[t].op = "create" =>
                                post'[t].row.parent # post'[r].id
      BY <1>2, <1>3, <1>4, <2>1 DEF CommentsInv, Apart
    <2> QED BY <2>3, <2>4 DEF Apart
  <1>8. Orderly(comments, widgets, people, raced)'
    BY <1>1 DEF CommentsInv
  <1> QED BY <1>5, <1>6, <1>7, <1>8 DEF CommentsInv

\* The invariant after rows went with their replies, resolvers were forgotten, and a request
\* perhaps ended.
LEMMA CommentsShrink ==
    ASSUME CommentsInv, NEW gone \in SUBSET (1..begun),
           DOMAIN comments' = {k \in DOMAIN comments : k \notin gone /\ comments[k].parent \notin gone},
           comments' \in [DOMAIN comments' -> C!Comment],
           \A c \in DOMAIN comments' : /\ comments'[c].parent = comments[c].parent
                                      /\ comments'[c].widget = comments[c].widget
                                      /\ comments'[c].author = comments[c].author
                                      /\ comments'[c].resolved = comments[c].resolved
                                      /\ comments'[c].by \in {comments[c].by, None},
           \A c \in DOMAIN comments' : /\ comments[c].widget \in widgets' \cup {None}
                                      /\ comments[c].author \in people',
           widgets' \subseteq Widgets, people' \subseteq People,
           UNCHANGED <<begun, raced>>,
           post' = post \/ \E p \in Posts : post' = [post EXCEPT ![p] = C!NoPost]
    PROVE  CommentsInv'
  <1>1. /\ begun \in Nat /\ 0 \notin gone /\ begun' = begun /\ raced' = raced
        /\ Orderly(comments, widgets, people, raced)
    BY PostsAssumption DEF CommentsInv, CommentTypes
  <1>2. /\ Orderly(comments', widgets', people', raced)
        /\ \A q : Creating(q, comments, begun) => Creating(q, comments', begun)
        /\ \A q : Updating(q, comments, raced) => Updating(q, comments', raced)
    <2>1. ASSUME NEW c \in DOMAIN comments', comments'[c].parent # 0
          PROVE  /\ comments'[c].parent \in DOMAIN comments'
                 /\ comments'[comments'[c].parent].parent = 0
      <3>1. /\ comments[c].parent \in DOMAIN comments /\ comments[c].parent \notin gone
            /\ comments[comments[c].parent].parent = 0
        BY <1>1, <2>1 DEF Orderly
      <3> QED BY <1>1, <2>1, <3>1
    <2>2. Orderly(comments', widgets', people', raced)
      BY <1>1, <2>1 DEF Orderly
    <2>3. ASSUME NEW q, Creating(q, comments, begun) PROVE Creating(q, comments', begun)
      BY <2>3 DEF Creating
    <2>4. ASSUME NEW q, Updating(q, comments, raced) PROVE Updating(q, comments', raced)
      BY <2>4 DEF Updating
    <2> QED BY <2>2, <2>3, <2>4
  <1>3. /\ post' \in [Posts -> Post]
        /\ \A p \in Posts : post'[p] = post[p] \/ (post'[p].op = "none" /\ post'[p].id = 0)
    BY DEF CommentsInv, CommentTypes, C!NoPost, Post
  <1>4. CommentTypes'
    BY <1>1, <1>3 DEF CommentsInv, CommentTypes
  <1>5. Pending'
    <2> SUFFICES ASSUME NEW p \in Posts
                 PROVE  Creating(post'[p], comments', begun) /\ Updating(post'[p], comments', raced)
      BY <1>1 DEF Pending
    <2>1. Creating(post[p], comments, begun) /\ Updating(post[p], comments, raced)
      BY DEF CommentsInv, Pending
    <2>2. CASE post'[p] = post[p]
      BY <1>2, <2>1, <2>2
    <2>3. CASE post'[p].op = "none"
      BY <2>3 DEF Creating, Updating
    <2> QED BY <1>3, <2>2, <2>3
  <1>6. Apart'
    <2>1. \A p \in Posts : post[p].op = "create" => post[p].id \in 1..begun
      BY DEF CommentsInv, CommentTypes
    <2> QED BY <1>1, <1>3, <2>1 DEF CommentsInv, Apart
  <1> QED BY <1>1, <1>2, <1>4, <1>5, <1>6 DEF CommentsInv

LEMMA CommentsCreate ==
    ASSUME CommentsInv, NEW p \in Posts, C!CommitCreate(p)
    PROVE  CommentsInv'
  <1> DEFINE q == post[p]
             row == q.row
  <1>1. /\ q \in Post /\ q.op = "create" /\ q.id \in 1..begun /\ begun \in Nat
        /\ row \in C!Comment /\ ~row.resolved /\ row.by = None /\ row.parent \in 0..begun
        /\ q.id \notin DOMAIN comments
        /\ row.parent \in DOMAIN comments => comments[row.parent].parent = 0
    BY PostsAssumption DEF C!CommitCreate, CommentsInv, CommentTypes, Pending, Creating
  <1>2. /\ row.parent # 0 => row.parent \in DOMAIN comments
        /\ row.widget \in widgets \cup {None} /\ row.author \in people
    BY DEF C!CommitCreate, C!References, C!Exists
  <1>3. /\ comments' = [c \in DOMAIN comments \cup {q.id} |-> IF c = q.id THEN row ELSE comments[c]]
        /\ UNCHANGED <<begun, widgets, people, raced>>
        /\ post' = [post EXCEPT ![p] = C!NoPost]
    BY DEF C!CommitCreate, C!End
  <1>4. /\ DOMAIN comments' = DOMAIN comments \cup {q.id}
        /\ comments'[q.id] = row
        /\ \A c \in DOMAIN comments : comments'[c] = comments[c]
    BY <1>1, <1>3
  <1>5. /\ post' \in [Posts -> Post]
        /\ post'[p].op = "none" /\ post'[p].id = 0
        /\ \A r \in Posts : r # p => post'[r] = post[r]
    BY <1>3 DEF CommentsInv, CommentTypes, C!NoPost, Post
  <1>6. CommentTypes'
    <2>1. comments' \in [DOMAIN comments' -> C!Comment]
      BY <1>1, <1>3 DEF CommentsInv, CommentTypes
    <2>2. DOMAIN comments' \subseteq 1..begun
      BY <1>1, <1>4 DEF CommentsInv, CommentTypes
    <2> QED BY <1>3, <1>5, <2>1, <2>2 DEF CommentsInv, CommentTypes
  <1>7. Orderly(comments', widgets, people, raced)
    BY <1>1, <1>2, <1>4 DEF CommentsInv, Orderly
  <1>8. Pending'
    <2> SUFFICES ASSUME NEW r \in Posts
                 PROVE  Creating(post'[r], comments', begun) /\ Updating(post'[r], comments', raced)
      BY <1>3 DEF Pending
    <2>1. CASE r = p
      BY <1>5, <2>1 DEF Creating, Updating
    <2>2. CASE r # p
      <3>1. /\ Creating(post[r], comments, begun) /\ Updating(post[r], comments, raced)
            /\ post[r].id # q.id
            /\ post[r].op = "create" => post[r].row.parent # q.id
        BY <1>1, <2>2 DEF CommentsInv, Pending, Apart
      <3>2. post'[r] = post[r]
        BY <1>5, <2>2
      <3> QED BY <1>4, <3>1, <3>2 DEF Creating, Updating
    <2> QED BY <2>1, <2>2
  <1>9. Apart'
    <2>1. \A r \in Posts : post[r].op = "create" => post[r].id \in 1..begun
      BY DEF CommentsInv, CommentTypes
    <2> QED BY <1>5, <2>1 DEF CommentsInv, Apart
  <1> QED BY <1>3, <1>6, <1>7, <1>8, <1>9 DEF CommentsInv

LEMMA CommentsUpdate ==
    ASSUME CommentsInv, NEW p \in Posts, C!CommitUpdate(p)
    PROVE  CommentsInv'
  <1> DEFINE q == post[p]
             c == q.id
             row == C!Merged(comments[c], q.row, q.old)
  <1>1. /\ q.op = "update" /\ c \in DOMAIN comments /\ comments[c] \in C!Comment
        /\ UNCHANGED <<begun, widgets, people>>
        /\ comments' = [comments EXCEPT ![c] = row]
        /\ post' = [post EXCEPT ![p] = C!NoPost]
        /\ raced' = IF \E r \in Posts \ {p} : post[r].op = "update" /\ post[r].id = c
                    THEN raced \cup {c} ELSE raced
        /\ q.row \in C!Comment /\ q.old \in C!Comment
    BY DEF C!CommitUpdate, C!Exists, C!End, CommentsInv, CommentTypes, Pending, Updating
  <1>2. /\ row \in C!Comment /\ row.parent = comments[c].parent
        /\ row.widget = comments[c].widget /\ row.author = comments[c].author
        /\ row.resolved = IF q.row.resolved = q.old.resolved THEN comments[c].resolved
                          ELSE q.row.resolved
        /\ row.by = IF q.row.by = q.old.by THEN comments[c].by ELSE q.row.by
    BY <1>1 DEF C!Merged, C!Comment
  <1>3. c \notin raced => (~row.resolved => row.by = None)
    BY <1>1, <1>2 DEF CommentsInv, Pending, Updating
  <1> HIDE DEF row
  <1>4. /\ DOMAIN comments' = DOMAIN comments /\ comments'[c] = row
        /\ \A k \in DOMAIN comments : k # c => comments'[k] = comments[k]
        /\ \A k \in DOMAIN comments : comments'[k].parent = comments[k].parent
        /\ comments' \in [DOMAIN comments' -> C!Comment]
    BY <1>1, <1>2 DEF CommentsInv, CommentTypes
  <1>5. /\ post' \in [Posts -> Post]
        /\ post'[p].op = "none" /\ post'[p].id = 0
        /\ \A r \in Posts : r # p => post'[r] = post[r]
    BY <1>1 DEF CommentsInv, CommentTypes, C!NoPost, Post
  <1>6. raced \subseteq raced' /\ raced' \subseteq C!Ids
    BY <1>1, PostsAssumption DEF CommentsInv, CommentTypes, C!Ids
  <1>7. CommentTypes'
    BY <1>1, <1>4, <1>5, <1>6 DEF CommentsInv, CommentTypes
  <1>8. Orderly(comments', widgets, people, raced')
    BY <1>1, <1>2, <1>3, <1>4, <1>6 DEF CommentsInv, Orderly
  <1>9. Pending'
    <2> SUFFICES ASSUME NEW r \in Posts
                 PROVE  Creating(post'[r], comments', begun) /\ Updating(post'[r], comments', raced')
      BY <1>1 DEF Pending
    <2>1. CASE r = p
      BY <1>5, <2>1 DEF Creating, Updating
    <2>2. CASE r # p
      <3>1. Creating(post[r], comments, begun) /\ Updating(post[r], comments, raced)
        BY DEF CommentsInv, Pending
      <3>2. post[r].op = "update" /\ post[r].id = c => c \in raced'
        BY <1>1, <2>2
      <3>3. post'[r] = post[r]
        BY <1>5, <2>2
      <3>4. Creating(post[r], comments', begun)
        BY <1>4, <3>1 DEF Creating
      <3>5. Updating(post[r], comments', raced')
        BY <1>4, <1>6, <3>1, <3>2 DEF Updating
      <3> QED BY <3>3, <3>4, <3>5
    <2> QED BY <2>1, <2>2
  <1>10. Apart'
    <2>1. \A r \in Posts : post[r].op = "create" => post[r].id \in 1..begun
      BY DEF CommentsInv, CommentTypes
    <2> QED BY <1>5, <2>1 DEF CommentsInv, Apart
  <1> QED BY <1>1, <1>7, <1>8, <1>9, <1>10 DEF CommentsInv

LEMMA CommentsStep ==
    ASSUME CommentsInv, [C!Next]_(C!vars)
    PROVE  CommentsInv'
  <1>1. /\ comments \in [DOMAIN comments -> C!Comment] /\ DOMAIN comments \subseteq 1..begun
        /\ begun \in Nat /\ begun <= MaxPosts /\ DOMAIN comments \subseteq C!Ids
        /\ widgets \subseteq Widgets /\ people \subseteq People
        /\ Orderly(comments, widgets, people, raced)
    BY PostsAssumption DEF CommentsInv, CommentTypes, C!Ids
  <1>2. CASE UNCHANGED C!vars
    BY <1>2 DEF C!vars, CommentsInv, CommentTypes, Orderly, Pending, Apart
  <1>3. ASSUME NEW p \in Posts, NEW u \in People, NEW c \in C!Ids \cup {0},
               NEW w \in Widgets \cup {None}, C!StartCreate(p, u, c, w)
        PROVE  CommentsInv'
    <2> DEFINE row == [parent |-> c, widget |-> w, author |-> u, resolved |-> FALSE, by |-> None]
    <2>1. /\ c # 0 => c \in DOMAIN comments /\ comments[c].parent = 0
          /\ C!Begin(p, "create", begun + 1, u, row, None)
      BY <1>3 DEF C!StartCreate, C!MayAnswer, C!Exists
    <2>2. row \in C!Comment /\ begun + 1 \in C!Ids
      BY <1>1, <2>1, PostsAssumption DEF C!Comment, C!Begin, C!Ids
    <2>3. Creating([op |-> "create", id |-> begun + 1, who |-> u, row |-> row, old |-> None],
                   comments, begun)
      BY <1>1, <2>1, <2>2 DEF Creating
    <2>4. Updating([op |-> "create", id |-> begun + 1, who |-> u, row |-> row, old |-> None],
                   comments, raced)
      BY DEF Updating
    <2>5. row.parent \in DOMAIN comments \cup {0}
      BY <2>1
    <2> HIDE DEF row
    <2> QED BY <2>1, <2>2, <2>3, <2>4, <2>5, CommentsBegin
  <1>4. ASSUME NEW p \in Posts, NEW u \in People, NEW c \in C!Ids, C!StartUpdate(p, u, c)
        PROVE  CommentsInv'
    <2>1. c \in DOMAIN comments /\ comments[c] \in C!Comment
      BY <1>1, <1>4 DEF C!StartUpdate, C!Exists
    <2>2. PICK resolved \in BOOLEAN \cup {None} :
            C!Begin(p, "update", c, u,
                    IF resolved = None THEN comments[c]
                    ELSE [comments[c] EXCEPT !.resolved = resolved,
                                             !.by = IF resolved THEN u ELSE None], comments[c])
      BY <1>4 DEF C!StartUpdate
    <2> DEFINE row == IF resolved = None THEN comments[c]
                      ELSE [comments[c] EXCEPT !.resolved = resolved,
                                               !.by = IF resolved THEN u ELSE None]
    <2>3. row \in C!Comment /\ (row = comments[c] \/ (~row.resolved => row.by = None))
      BY <2>1 DEF C!Comment
    <2>4. C!Begin(p, "update", c, u, row, comments[c])
      BY <2>2
    <2> HIDE DEF row
    <2>5. Creating([op |-> "update", id |-> c, who |-> u, row |-> row, old |-> comments[c]],
                   comments, begun)
      BY DEF Creating
    <2>6. Updating([op |-> "update", id |-> c, who |-> u, row |-> row, old |-> comments[c]],
                   comments, raced)
      BY <1>1, <2>1, <2>3 DEF Updating, Orderly
    <2> QED BY <2>1, <2>3, <2>4, <2>5, <2>6, CommentsBegin
  <1>5. ASSUME NEW p \in Posts, NEW u \in People, NEW c \in C!Ids, C!StartDelete(p, u, c)
        PROVE  CommentsInv'
    <2>1. c \in DOMAIN comments /\ C!Begin(p, "delete", c, u, None, None)
      BY <1>5 DEF C!StartDelete, C!Exists
    <2>2. Creating([op |-> "delete", id |-> c, who |-> u, row |-> None, old |-> None],
                   comments, begun)
      BY DEF Creating
    <2>3. Updating([op |-> "delete", id |-> c, who |-> u, row |-> None, old |-> None],
                   comments, raced)
      BY DEF Updating
    <2> QED BY <2>1, <2>2, <2>3, CommentsBegin
  <1>6. ASSUME NEW p \in Posts, C!CommitDelete(p)
        PROVE  CommentsInv'
    <2> DEFINE gone == {post[p].id}
    <2>1. post[p].id \in 1..begun
      BY <1>6 DEF C!CommitDelete, CommentsInv, CommentTypes
    <2>2. /\ comments' = [c \in {k \in DOMAIN comments : k \notin gone /\ comments[k].parent \notin gone}
                            |-> comments[c]]
          /\ UNCHANGED <<begun, widgets, people, raced>>
          /\ post' = [post EXCEPT ![p] = C!NoPost]
      BY <1>6 DEF C!CommitDelete, C!Without, C!End
    <2>3. /\ DOMAIN comments' = {k \in DOMAIN comments : k \notin gone /\ comments[k].parent \notin gone}
          /\ \A c \in DOMAIN comments' : comments'[c] = comments[c]
          /\ comments' \in [DOMAIN comments' -> C!Comment]
      BY <1>1, <2>2
    <2> QED BY <1>1, <2>1, <2>2, <2>3, CommentsShrink DEF Orderly
  <1>7. ASSUME NEW w \in Widgets, C!DropWidget(w)
        PROVE  CommentsInv'
    <2> DEFINE gone == {c \in DOMAIN comments : comments[c].widget = w}
    <2>1. gone \subseteq 1..begun
      BY <1>1
    <2>2. /\ comments' = [c \in {k \in DOMAIN comments : k \notin gone /\ comments[k].parent \notin gone}
                            |-> comments[c]]
          /\ widgets' = widgets \ {w}
          /\ UNCHANGED <<begun, people, post, raced>>
      BY <1>7 DEF C!DropWidget, C!Without
    <2>3. /\ DOMAIN comments' = {k \in DOMAIN comments : k \notin gone /\ comments[k].parent \notin gone}
          /\ \A c \in DOMAIN comments' : comments'[c] = comments[c]
          /\ comments' \in [DOMAIN comments' -> C!Comment]
      BY <1>1, <2>2
    <2>4. \A c \in DOMAIN comments' : /\ comments[c].widget \in widgets' \cup {None}
                                     /\ comments[c].author \in people'
      BY <1>1, <2>2, <2>3 DEF Orderly
    <2> HIDE DEF gone
    <2> QED BY <1>1, <2>1, <2>2, <2>3, <2>4, CommentsShrink
  <1>8. ASSUME NEW u \in People, C!DropPerson(u)
        PROVE  CommentsInv'
    <2> DEFINE gone == {c \in DOMAIN comments : comments[c].author = u}
    <2>1. gone \subseteq 1..begun
      BY <1>1
    <2>2. /\ comments' = [c \in {k \in DOMAIN comments : k \notin gone /\ comments[k].parent \notin gone}
                            |-> [comments[c] EXCEPT !.by = IF @ = u THEN None ELSE @]]
          /\ people' = people \ {u}
          /\ UNCHANGED <<begun, widgets, post, raced>>
      BY <1>8 DEF C!DropPerson
    <2>3. /\ DOMAIN comments' = {k \in DOMAIN comments : k \notin gone /\ comments[k].parent \notin gone}
          /\ \A c \in DOMAIN comments' :
                comments'[c] = [comments[c] EXCEPT !.by = IF @ = u THEN None ELSE @]
      BY <2>2
    <2>4. \A c \in DOMAIN comments' : /\ comments[c].widget \in widgets' \cup {None}
                                     /\ comments[c].author \in people'
      BY <1>1, <2>2, <2>3 DEF Orderly
    <2> HIDE DEF gone
    <2>5. ASSUME NEW c \in DOMAIN comments'
          PROVE  /\ comments'[c] \in C!Comment
                 /\ comments'[c].parent = comments[c].parent
                 /\ comments'[c].widget = comments[c].widget
                 /\ comments'[c].author = comments[c].author
                 /\ comments'[c].resolved = comments[c].resolved
                 /\ comments'[c].by \in {comments[c].by, None}
      <3>1. comments[c] \in C!Comment
        BY <1>1, <2>3
      <3> QED BY <2>3, <3>1 DEF C!Comment
    <2>6. comments' \in [DOMAIN comments' -> C!Comment]
      BY <2>2, <2>5
    <2> QED BY <1>1, <2>1, <2>2, <2>3, <2>4, <2>5, <2>6, CommentsShrink
  <1>9. ASSUME NEW p \in Posts, C!Fail(p)
        PROVE  CommentsInv'
    <2> DEFINE gone == {}
    <2>1. /\ DOMAIN comments' = {k \in DOMAIN comments : k \notin gone /\ comments[k].parent \notin gone}
          /\ gone \subseteq 1..begun
          /\ UNCHANGED <<comments, begun, widgets, people, raced>>
          /\ post' = [post EXCEPT ![p] = C!NoPost]
      BY <1>9 DEF C!Fail, C!End
    <2>2. \A c \in DOMAIN comments' : /\ comments[c].widget \in widgets' \cup {None}
                                     /\ comments[c].author \in people'
      BY <1>1, <2>1 DEF Orderly
    <2> HIDE DEF gone
    <2> QED BY <1>1, <2>1, <2>2, CommentsShrink
  <1> QED BY <1>2, <1>3, <1>4, <1>5, <1>6, <1>7, <1>8, <1>9, CommentsCreate, CommentsUpdate
          DEF C!Next

\* However creations, updates, deletions and the ends of widgets and accounts overlap: every comment
\* is listed, at the top or below one that is, its widget and its author are there, and an open one
\* that no two updates overlapped on names no resolver (api/comments.py).
THEOREM DiscussionStaysSound == SpecAll => []DiscussionIsSound
  <1> DEFINE Inv == subject = "comments" => CommentsInv
  <1>1. InitAll => Inv
    BY CommentsStart DEF InitAll
  <1>2. Inv /\ [NextAll]_all => Inv'
    BY CommentsSteps, CommentsStep
  <1>3. Inv => DiscussionIsSound
    BY DEF CommentsInv, Orderly, DiscussionIsSound, C!DiscussionIsSound, C!Listed, C!Exists
  <1> QED BY <1>1, <1>2, <1>3, PTL DEF SpecAll

(*****************************************************************************)
(* Answers and their caches (Answers)                                        *)
(*                                                                           *)
(* Every answer, fresh or kept, is of what was asked, for any number of      *)
(* readers, versions and questions.                                          *)
(*                                                                           *)
(* What is kept was put there by a reader that may be gone, under a key      *)
(* made from what it asked; the invariant follows an answer from where it    *)
(* is computed, through the entry whose key says what it is an answer to,    *)
(* to whoever reads it there.                                                *)
(*****************************************************************************)

Cached == {"query", "insights", "eda"}
Bounded(sql) == sql.rows = "capped" \/ sql.found = "astray"
Reader == [stage : {"idle", "look", "compute", "ask", "run", "phrase", "store", "answered", "failed"},
           kind : A!Kinds, version : Versions \cup {None}, question : Words \cup {None},
           sql : A!Statement \cup {None}, answer : A!Answer \cup {None}]

\* What a reader q has at the stage it has come to.
OnItsWay(q) ==
    /\ q.kind = "query" <=> q.question # None
    /\ q.stage # "idle" => q.version \in Versions
    /\ q.stage \in {"look", "store"} => q.kind \in Cached
    /\ q.stage \in {"ask", "run"} => q.kind = "query"
    /\ q.stage = "run" => q.sql # None /\ (q.sql.rows # "twice" => Bounded(q.sql))
    /\ q.stage = "phrase" => q.kind # "query" /\ (q.kind = "insights" => q.version \notin Quiet)
    /\ q.stage \in {"store", "answered"} => A!Fits(q.answer, q.kind, q.version, q.question)
    /\ q.stage = "store" /\ q.kind = "query" => q.answer.sql # None

\* What is kept under the key of a kind, a version and a question.
Entry(a, kind, v, q) ==
    a # None => A!Fits(a, kind, v, q) /\ (kind = "query" => a.sql # None)

\* What can be asked for and kept.
Asked(kind, v, q) ==
    kind \in Cached /\ v \in Versions /\ q \in Words \cup {None} /\ (kind = "query" <=> q # None)

AnswersInv ==
    /\ reader \in [Readers -> Reader]
    /\ \A r \in Readers : OnItsWay(reader[r])
    /\ kept \in [A!Entries -> A!Answer \cup {None}]
    /\ \A kind, v, q : Asked(kind, v, q) => Entry(kept[A!Key(kind, v, q)], kind, v, q)

\* What a step of the whole does to the answers is a step of the answers.
LEMMA AnswersSteps ==
    ASSUME [NextAll]_all, subject' = "answers"
    PROVE  subject = "answers" /\ [A!Next]_(A!vars)
  <1>1. CASE NextAll
    BY <1>1 DEF NextAll
  <1>2. CASE UNCHANGED all
    BY <1>2 DEF all, answerVars, A!vars
  <1> QED BY <1>1, <1>2

\* A key is of one kind, version and question only, and has an entry.
LEMMA KeyHasEntry ==
    ASSUME NEW kind, NEW v, NEW q, Asked(kind, v, q)
    PROVE  A!Key(kind, v, q) \in A!Entries
  <1>1. CASE q = None
    <2>1. kind \in {"insights", "eda"} /\ v \in Versions
      BY <1>1 DEF Asked, Cached
    <2> QED BY <1>1, <2>1 DEF A!Entries
  <1>2. CASE q # None
    <2>1. kind = "query" /\ v \in Versions /\ q \in Words
      BY <1>2 DEF Asked
    <2> QED BY <2>1 DEF A!Entries
  <1> QED BY <1>1, <1>2

LEMMA KeysDiffer ==
    ASSUME NEW kind, NEW v, NEW q, Asked(kind, v, q), NEW k, NEW w, NEW p, Asked(k, w, p),
           A!Key(kind, v, q) = A!Key(k, w, p)
    PROVE  kind = k /\ v = w /\ q = p
  <1>1. CASE q = None /\ p = None
    BY <1>1 DEF A!Key
  <1>2. CASE q # None /\ p # None
    BY <1>2 DEF A!Key
  <1>3. CASE ~(q = None <=> p = None)
    BY <1>3 DEF A!Key
  <1> QED BY <1>1, <1>2, <1>3

LEMMA AnswersStart == A!Init => AnswersInv
  <1> SUFFICES ASSUME A!Init PROVE AnswersInv
    OBVIOUS
  <1>1. A!Idle \in Reader /\ OnItsWay(A!Idle)
    BY DEF A!Idle, Reader, OnItsWay, A!Kinds
  <1>2. /\ kept = [k \in A!Entries |-> None]
        /\ reader = [r \in Readers |-> A!Idle]
    BY DEF A!Init
  <1>3. \A kind, v, q : Asked(kind, v, q) => Entry(kept[A!Key(kind, v, q)], kind, v, q)
    BY <1>2, KeyHasEntry DEF Entry
  <1> QED BY <1>1, <1>2, <1>3 DEF AnswersInv

\* One reader goes on, and nothing else changes.
LEMMA ReaderMoves ==
    ASSUME AnswersInv, NEW r \in Readers, NEW q \in Reader, OnItsWay(q),
           reader' = [reader EXCEPT ![r] = q], kept' = kept
    PROVE  AnswersInv'
  <1>1. reader' \in [Readers -> Reader]
    BY DEF AnswersInv
  <1>2. \A p \in Readers : OnItsWay(reader'[p])
    BY DEF AnswersInv
  <1> QED BY <1>1, <1>2 DEF AnswersInv

\* What a reader that is to look or to store has asked can be kept.
LEMMA ReaderAsked ==
    ASSUME NEW q \in Reader, OnItsWay(q), q.stage \in {"look", "store"}
    PROVE  Asked(q.kind, q.version, q.question)
  BY DEF Reader, OnItsWay, Asked

\* A reader comes to a stage at which it has no answer yet.
LEMMA ReaderGoes ==
    ASSUME AnswersInv, NEW r \in Readers, reader[r].stage # "idle",
           NEW stage \in {"compute", "ask", "phrase", "failed"},
           stage = "ask" => reader[r].kind = "query",
           stage = "phrase" => /\ reader[r].kind # "query"
                               /\ reader[r].kind = "insights" => reader[r].version \notin Quiet,
           A!Go(r, stage), kept' = kept
    PROVE  AnswersInv'
  <1> DEFINE q == [reader[r] EXCEPT !.stage = stage]
  <1>1. reader[r] \in Reader /\ OnItsWay(reader[r]) /\ reader \in [Readers -> Reader]
    BY DEF AnswersInv
  <1>2. /\ q \in Reader
        /\ q.stage = stage /\ q.kind = reader[r].kind /\ q.version = reader[r].version
        /\ q.question = reader[r].question
    BY <1>1 DEF Reader
  <1>3. reader' = [reader EXCEPT ![r] = q]
    BY <1>1 DEF A!Go
  <1> HIDE DEF q
  <1>4. OnItsWay(q)
    BY <1>1, <1>2 DEF OnItsWay
  <1> QED BY <1>2, <1>3, <1>4, ReaderMoves

\* A reader has an answer, to give or to keep.
LEMMA ReaderHasAnswer ==
    ASSUME AnswersInv, NEW r \in Readers, reader[r].stage # "idle",
           NEW stage \in {"store", "answered"}, NEW answer \in A!Answer,
           A!Fits(answer, reader[r].kind, reader[r].version, reader[r].question),
           stage = "store" => /\ reader[r].kind \in Cached
                              /\ reader[r].kind = "query" => answer.sql # None,
           A!With(r, stage, answer), kept' = kept
    PROVE  AnswersInv'
  <1> DEFINE q == [reader[r] EXCEPT !.stage = stage, !.answer = answer]
  <1>1. reader[r] \in Reader /\ OnItsWay(reader[r]) /\ reader \in [Readers -> Reader]
    BY DEF AnswersInv
  <1>2. /\ q \in Reader
        /\ q.stage = stage /\ q.kind = reader[r].kind /\ q.version = reader[r].version
        /\ q.question = reader[r].question /\ q.answer = answer
    BY <1>1 DEF Reader
  <1>3. reader' = [reader EXCEPT ![r] = q]
    BY <1>1 DEF A!With
  <1> HIDE DEF q
  <1>4. OnItsWay(q)
    BY <1>1, <1>2 DEF OnItsWay
  <1> QED BY <1>2, <1>3, <1>4, ReaderMoves

\* What a reader has before anything is put into words, and once it is.
LEMMA Phrases ==
    ASSUME AnswersInv, NEW r \in Readers, reader[r].stage # "idle",
           NEW by \in {"model", "template", "nobody"},
           reader[r].kind = "insights" => (by = "nobody" <=> reader[r].version \in Quiet)
    PROVE  LET answer == [A!Blank(r) EXCEPT !.by = by, !.used = (by = "model")]
           IN  /\ answer \in A!Answer
               /\ A!Fits(answer, reader[r].kind, reader[r].version, reader[r].question)
  <1> DEFINE answer == [A!Blank(r) EXCEPT !.by = by, !.used = (by = "model")]
  <1>1. /\ reader[r].kind \in A!Kinds /\ reader[r].version \in Versions
        /\ reader[r].question \in Words \cup {None}
    BY DEF AnswersInv, Reader, OnItsWay
  <1>2. A!Blank(r) \in A!Answer
    BY <1>1 DEF A!Blank, A!Answer
  <1>3. answer \in A!Answer
    BY <1>2 DEF A!Answer
  <1>4. A!Fits(answer, reader[r].kind, reader[r].version, reader[r].question)
    BY DEF A!Fits, A!Blank
  <1> QED BY <1>3, <1>4

\* A profile, quiet insights and a question that cannot be answered stay as they are.
LEMMA Blanks ==
    ASSUME AnswersInv, NEW r \in Readers, reader[r].stage # "idle",
           reader[r].kind = "insights" => reader[r].version \in Quiet
    PROVE  /\ A!Blank(r) \in A!Answer
           /\ A!Fits(A!Blank(r), reader[r].kind, reader[r].version, reader[r].question)
  <1>1. /\ reader[r].kind \in A!Kinds /\ reader[r].version \in Versions
        /\ reader[r].question \in Words \cup {None}
    BY DEF AnswersInv, Reader, OnItsWay
  <1> QED BY <1>1 DEF A!Blank, A!Answer, A!Fits

\* Whatever a reader asks, it has no answer yet.
LEMMA ReaderAsks ==
    ASSUME AnswersInv, NEW r \in Readers, NEW kind \in A!Kinds, NEW v \in Versions,
           NEW w \in Words \cup {None}, NEW refresh \in BOOLEAN, A!Ask(r, kind, v, w, refresh)
    PROVE  AnswersInv'
  <1> DEFINE stage == IF refresh \/ kind = "summary" THEN "compute" ELSE "look"
             q == [A!Idle EXCEPT !.stage = stage, !.kind = kind, !.version = v, !.question = w]
  <1>1. reader' = [reader EXCEPT ![r] = q] /\ kept' = kept /\ (kind = "query" <=> w # None)
    BY DEF A!Ask
  <1>2. stage \in {"compute", "look"} /\ (stage = "look" => kind \in Cached)
    BY DEF A!Kinds, Cached
  <1> HIDE DEF stage
  <1>3. /\ q \in Reader
        /\ q.stage = stage /\ q.kind = kind /\ q.version = v /\ q.question = w
    BY <1>2 DEF A!Idle, Reader, A!Kinds
  <1> HIDE DEF q
  <1>4. OnItsWay(q)
    BY <1>1, <1>2, <1>3 DEF OnItsWay
  <1> QED BY <1>1, <1>3, <1>4, ReaderMoves

\* What is kept for a question, a version and a kind is an answer to them.
LEMMA ReaderLooks ==
    ASSUME AnswersInv, NEW r \in Readers, A!Look(r)
    PROVE  AnswersInv'
  <1>1. /\ reader[r] \in Reader /\ OnItsWay(reader[r]) /\ reader[r].stage = "look"
        /\ kept' = kept
    BY DEF AnswersInv, A!Look
  <1>2. CASE A!Go(r, "compute")
    BY <1>1, <1>2, ReaderGoes
  <1>3. CASE kept[A!KeyOf(r)] # None /\ A!With(r, "answered", kept[A!KeyOf(r)])
    <2>1. Asked(reader[r].kind, reader[r].version, reader[r].question)
      BY <1>1, ReaderAsked
    <2>2. A!KeyOf(r) \in A!Entries
      BY <2>1, KeyHasEntry DEF A!KeyOf
    <2>3. kept[A!KeyOf(r)] \in A!Answer
      BY <1>3, <2>2 DEF AnswersInv
    <2>4. A!Fits(kept[A!KeyOf(r)], reader[r].kind, reader[r].version, reader[r].question)
      BY <1>3, <2>1 DEF AnswersInv, Entry, A!KeyOf
    <2> HIDE DEF A!KeyOf
    <2> QED BY <1>1, <1>3, <2>3, <2>4, ReaderHasAnswer
  <1> QED BY <1>2, <1>3 DEF A!Look

\* A statement that SQLite takes is limited, unless the search in its text went astray.
LEMMA ReaderGenerates ==
    ASSUME AnswersInv, NEW r \in Readers, NEW s \in A!Statements, A!Generate(r, s)
    PROVE  AnswersInv'
  <1>1. /\ reader[r] \in Reader /\ OnItsWay(reader[r]) /\ reader[r].stage = "ask"
        /\ kept' = kept
    BY DEF AnswersInv, A!Generate
  <1>2. CASE A!Go(r, "failed")
    BY <1>1, <1>2, ReaderGoes
  <1>3. ASSUME NEW sql \in A!Limited(s),
               reader' = [reader EXCEPT ![r].stage = "run", ![r].sql = sql]
        PROVE  AnswersInv'
    <2> DEFINE q == [reader[r] EXCEPT !.stage = "run", !.sql = sql]
    <2>1. sql \in A!Statement /\ (sql.rows # "twice" => Bounded(sql))
      <3>1. s \in A!Statement /\ s.found \in {"count", "nothing", "astray"}
        BY DEF A!Statements, A!Statement
      <3>2. CASE s.found = "count"
        BY <3>1, <3>2 DEF A!Limited, A!Statement, A!Limits, Bounded
      <3>3. CASE s.found = "nothing"
        BY <3>1, <3>3 DEF A!Limited, A!Statement, A!Limits, Bounded
      <3>4. CASE s.found = "astray"
        BY <3>1, <3>4 DEF A!Limited, A!Statement, A!Limits, Bounded
      <3> QED BY <3>1, <3>2, <3>3, <3>4
    <2>2. sql # None
      BY <2>1, WordsAssumption DEF A!Statement, A!Limits
    <2>3. reader' = [reader EXCEPT ![r] = q]
      BY <1>3 DEF AnswersInv
    <2>4. /\ q \in Reader
          /\ q.stage = "run" /\ q.kind = reader[r].kind /\ q.version = reader[r].version
          /\ q.question = reader[r].question /\ q.sql = sql
      BY <1>1, <2>1 DEF Reader
    <2> HIDE DEF q
    <2>5. OnItsWay(q)
      BY <1>1, <2>1, <2>2, <2>4 DEF OnItsWay
    <2> QED BY <1>1, <2>3, <2>4, <2>5, ReaderMoves
  <1> QED BY <1>2, <1>3 DEF A!Generate

\* Its result is kept with it.
LEMMA ReaderRuns ==
    ASSUME AnswersInv, NEW r \in Readers, A!RunQuery(r)
    PROVE  AnswersInv'
  <1>1. /\ reader[r] \in Reader /\ OnItsWay(reader[r]) /\ reader[r].stage = "run"
        /\ kept' = kept
    BY DEF AnswersInv, A!RunQuery
  <1>2. CASE A!Go(r, "failed")
    BY <1>1, <1>2, ReaderGoes
  <1>3. CASE /\ reader[r].sql.rows # "twice"
             /\ A!With(r, "store", [A!Blank(r) EXCEPT !.sql = reader[r].sql])
    <2> DEFINE answer == [A!Blank(r) EXCEPT !.sql = reader[r].sql]
    <2>1. /\ reader[r].kind = "query" /\ reader[r].sql \in A!Statement
          /\ Bounded(reader[r].sql) /\ reader[r].sql # None
      BY <1>1, <1>3 DEF OnItsWay, Reader
    <2>2. A!Blank(r) \in A!Answer
      BY <1>1, <2>1, Blanks
    <2>3. answer \in A!Answer
      BY <2>1, <2>2 DEF A!Answer
    <2>4. A!Fits(answer, reader[r].kind, reader[r].version, reader[r].question)
      BY <2>1 DEF A!Fits, A!Blank, Bounded
    <2>5. answer.sql # None
      BY <2>1 DEF A!Blank
    <2> HIDE DEF answer
    <2>6. A!With(r, "store", answer)
      BY <1>3 DEF answer
    <2>7. reader[r].kind \in Cached
      BY <2>1 DEF Cached
    <2> QED BY <1>1, <2>3, <2>4, <2>5, <2>6, <2>7, ReaderHasAnswer
  <1> QED BY <1>2, <1>3 DEF A!RunQuery

\* Whatever words are found for it.
LEMMA ReaderPhrases ==
    ASSUME AnswersInv, NEW r \in Readers, NEW by \in {"model", "template"},
           NEW stage \in {"store", "answered"}, reader[r].stage = "phrase",
           stage = "store" => reader[r].kind = "insights", A!Phrased(r, stage, by)
    PROVE  AnswersInv'
  <1> DEFINE answer == [A!Blank(r) EXCEPT !.by = by, !.used = (by = "model")]
  <1>1. reader[r] \in Reader /\ OnItsWay(reader[r])
    BY DEF AnswersInv
  <1>2. reader[r].kind = "insights" => (by = "nobody" <=> reader[r].version \in Quiet)
    BY <1>1 DEF OnItsWay
  <1>3. /\ answer \in A!Answer
        /\ A!Fits(answer, reader[r].kind, reader[r].version, reader[r].question)
    BY <1>2, Phrases
  <1>4. A!With(r, stage, answer) /\ kept' = kept
    BY DEF A!Phrased
  <1> HIDE DEF answer
  <1>5. stage = "store" => /\ reader[r].kind \in Cached
                           /\ reader[r].kind = "query" => answer.sql # None
    BY DEF Cached
  <1> QED BY <1>3, <1>4, <1>5, ReaderHasAnswer

\* The entry a reader writes is that of what it asked, and no other.
LEMMA ReaderStores ==
    ASSUME AnswersInv, NEW r \in Readers, A!Store(r)
    PROVE  AnswersInv'
  <1> DEFINE q == [reader[r] EXCEPT !.stage = "answered"]
  <1>1. reader[r] \in Reader /\ OnItsWay(reader[r]) /\ reader[r].stage = "store"
    BY DEF AnswersInv, A!Store
  <1>2. reader' = [reader EXCEPT ![r] = q]
    BY DEF AnswersInv, A!Store, A!Go
  <1>3. /\ q \in Reader
        /\ q.stage = "answered" /\ q.kind = reader[r].kind /\ q.version = reader[r].version
        /\ q.question = reader[r].question /\ q.answer = reader[r].answer
    BY <1>1 DEF Reader
  <1> HIDE DEF q
  <1>4. OnItsWay(q)
    BY <1>1, <1>3 DEF OnItsWay
  <1>5. CASE kept' = kept
    BY <1>2, <1>3, <1>4, <1>5, ReaderMoves
  <1>6. CASE kept' = [kept EXCEPT ![A!KeyOf(r)] = reader[r].answer]
    <2>1. Asked(reader[r].kind, reader[r].version, reader[r].question)
      BY <1>1, ReaderAsked
    <2>2. reader[r].answer \in A!Answer \cup {None}
      BY <1>1 DEF Reader
    <2>3. kept' \in [A!Entries -> A!Answer \cup {None}]
      BY <1>6, <2>2 DEF AnswersInv
    <2>4. Entry(reader[r].answer, reader[r].kind, reader[r].version, reader[r].question)
      BY <1>1 DEF OnItsWay, Entry
    <2>5. ASSUME NEW kind, NEW v, NEW w, Asked(kind, v, w)
          PROVE  Entry(kept'[A!Key(kind, v, w)], kind, v, w)
      <3>1. A!Key(kind, v, w) \in A!Entries
        BY <2>5, KeyHasEntry
      <3>2. CASE A!Key(kind, v, w) = A!KeyOf(r)
        <4>1. kind = reader[r].kind /\ v = reader[r].version /\ w = reader[r].question
          BY <2>1, <2>5, <3>2, KeysDiffer DEF A!KeyOf
        <4> QED BY <1>6, <2>4, <3>1, <3>2, <4>1 DEF AnswersInv
      <3>3. CASE A!Key(kind, v, w) # A!KeyOf(r)
        BY <1>6, <2>5, <3>1, <3>3 DEF AnswersInv
      <3> QED BY <3>2, <3>3
    <2>6. reader' \in [Readers -> Reader] /\ \A p \in Readers : OnItsWay(reader'[p])
      BY <1>2, <1>3, <1>4 DEF AnswersInv
    <2> QED BY <2>3, <2>5, <2>6 DEF AnswersInv
  <1> QED BY <1>5, <1>6 DEF A!Store

\* What is forgotten is nobody's answer.
LEMMA AnswersForgotten ==
    ASSUME AnswersInv, NEW k \in A!Entries, A!Forget(k)
    PROVE  AnswersInv'
  <1>1. kept' = [kept EXCEPT ![k] = None] /\ reader' = reader
    BY DEF A!Forget
  <1>2. kept' \in [A!Entries -> A!Answer \cup {None}]
    BY <1>1 DEF AnswersInv
  <1>3. ASSUME NEW kind, NEW v, NEW q, Asked(kind, v, q)
        PROVE  Entry(kept'[A!Key(kind, v, q)], kind, v, q)
    BY <1>1, <1>3, KeyHasEntry DEF AnswersInv, Entry
  <1> QED BY <1>1, <1>2, <1>3 DEF AnswersInv

LEMMA AnswersStep ==
    ASSUME AnswersInv, [A!Next]_(A!vars)
    PROVE  AnswersInv'
  <1>1. CASE UNCHANGED A!vars
    BY <1>1 DEF A!vars, AnswersInv
  <1>2. ASSUME NEW r \in Readers,
               A!NoFile(r) \/ A!ComputeSummary(r) \/ A!ComputeQuery(r) \/ A!GenerateFails(r)
                 \/ A!ClientFails(r)
        PROVE  AnswersInv'
    BY <1>2, ReaderGoes DEF A!NoFile, A!ComputeSummary, A!ComputeQuery, A!GenerateFails,
       A!ClientFails, A!Computing, A!Phrasing
  <1>3. ASSUME NEW r \in Readers, A!ComputeProfile(r) \/ A!GenerateNothing(r)
        PROVE  AnswersInv'
    <2>1. reader[r] \in Reader /\ OnItsWay(reader[r]) /\ kept' = kept
      BY <1>3 DEF AnswersInv, A!ComputeProfile, A!GenerateNothing
    <2>2. /\ reader[r].stage # "idle"
          /\ \/ reader[r].kind = "eda" /\ A!With(r, "store", A!Blank(r))
             \/ reader[r].kind = "query" /\ A!With(r, "answered", A!Blank(r))
      BY <1>3, <2>1 DEF OnItsWay, A!ComputeProfile, A!GenerateNothing, A!Computing
    <2>3. /\ A!Blank(r) \in A!Answer
          /\ A!Fits(A!Blank(r), reader[r].kind, reader[r].version, reader[r].question)
      BY <2>2, Blanks
    <2> QED BY <2>1, <2>2, <2>3, ReaderHasAnswer DEF Cached
  <1>4. ASSUME NEW r \in Readers, A!ComputeInsights(r)
        PROVE  AnswersInv'
    <2>1. /\ reader[r].stage = "compute" /\ reader[r].kind = "insights" /\ kept' = kept
      BY <1>4 DEF A!ComputeInsights, A!Computing
    <2>2. CASE reader[r].version \in Quiet /\ A!With(r, "store", A!Blank(r))
      <3>1. /\ A!Blank(r) \in A!Answer
            /\ A!Fits(A!Blank(r), reader[r].kind, reader[r].version, reader[r].question)
        BY <2>1, <2>2, Blanks
      <3> QED BY <2>1, <2>2, <3>1, ReaderHasAnswer DEF Cached
    <2>3. CASE reader[r].version \notin Quiet /\ A!Go(r, "phrase")
      BY <2>1, <2>3, ReaderGoes
    <2> QED BY <1>4, <2>2, <2>3 DEF A!ComputeInsights
  <1>5. ASSUME NEW r \in Readers,
               A!NarrateInsights(r) \/ A!FallBackInsights(r) \/ A!NarrateSummary(r)
                 \/ A!FallBackSummary(r)
        PROVE  AnswersInv'
    BY <1>5, ReaderPhrases DEF A!NarrateInsights, A!FallBackInsights, A!NarrateSummary,
       A!FallBackSummary, A!Phrasing
  <1>6. ASSUME NEW r \in Readers, A!Finish(r)
        PROVE  AnswersInv'
    <2>1. A!Idle \in Reader /\ OnItsWay(A!Idle)
      BY DEF A!Idle, Reader, OnItsWay, A!Kinds
    <2> QED BY <1>6, <2>1, ReaderMoves DEF A!Finish
  <1> QED BY <1>1, <1>2, <1>3, <1>4, <1>5, <1>6, ReaderAsks, ReaderLooks, ReaderGenerates,
             ReaderRuns, ReaderStores, AnswersForgotten DEF A!Next

\* Whoever computed it, whatever the language model replied and whichever request kept it: an answer
\* given, or kept for the next, is of the version and the question that were asked, says truly who
\* put it into words, and has a limited number of rows unless the guard's search in the statement's
\* text found something else than its count of rows (api/query.py, api/insights.py,
\* services/sql_guard.py).
THEOREM AnswersStayFit == SpecAll => []AnswersFit
  <1> DEFINE Inv == subject = "answers" => AnswersInv
  <1>1. InitAll => Inv
    BY AnswersStart DEF InitAll
  <1>2. Inv /\ [NextAll]_all => Inv'
    BY AnswersSteps, AnswersStep
  <1>3. Inv => AnswersFit
    <2> SUFFICES ASSUME AnswersInv PROVE A!AnswersFit
      BY DEF AnswersFit
    <2>1. ASSUME NEW r \in Readers, reader[r].stage = "answered"
          PROVE  A!Fits(reader[r].answer, reader[r].kind, reader[r].version, reader[r].question)
      BY <2>1 DEF AnswersInv, OnItsWay
    <2>2. ASSUME NEW kind \in {"insights", "eda"}, NEW v \in Versions
          PROVE  Entry(kept[A!Key(kind, v, None)], kind, v, None)
      BY DEF AnswersInv, Asked, Cached
    <2>3. ASSUME NEW v \in Versions, NEW q \in Words
          PROVE  Entry(kept[A!Key("query", v, q)], "query", v, q)
      BY WordsAssumption DEF AnswersInv, Asked, Cached
    <2> QED BY <2>1, <2>2, <2>3 DEF A!AnswersFit, Entry
  <1> QED BY <1>1, <1>2, <1>3, PTL DEF SpecAll

(*****************************************************************************)
(* Generated dashboards (Generator)                                          *)
(*                                                                           *)
(* A generated dashboard fits the grid, for any columns and any reply.       *)
(*****************************************************************************)

Cursor == [x : 0..12, y : Nat, row : {0, 2, 4}]
Spot == [type : G!Types, x : 0..12, y : Nat]

\* build_candidates: KPIs, charts, then the table.
Offer(s) == \E a, b \in Nat : s = G!Times(a, "kpi") \o G!Times(b, "chart") \o <<"table">>

\* p is above q, or to the left of it in the same row.
Before(p, q) == \/ p.y + G!Height[p.type] <= q.y
                \/ p.y = q.y /\ p.x + G!Width[p.type] <= q.x

\* What is placed is above the cursor's row, or in it and to the left.
Behind(p, c) == \/ p.y + G!Height[p.type] <= c.y
                \/ /\ p.y = c.y /\ p.x + G!Width[p.type] <= c.x
                   /\ G!Height[p.type] <= c.row

Packed(s, c) ==
    /\ \A i \in 1..Len(s) : s[i].x + G!Width[s[i].type] <= 12 /\ Behind(s[i], c)
    /\ \A i, j \in 1..Len(s) : i < j => Before(s[i], s[j])

Chosen(s, ai) == Len(s) >= 1 /\ Len(s) <= G!MaxWidgets /\ (~ai => G!Count(s, "table") = 1)

DraftInv ==
    /\ drafting \in {"profile", "choose", "read", "pack", "saved", "failed"}
    /\ candidates \in Seq(G!Types) /\ selected \in Seq(G!Types) /\ left \in 0..MaxReply
    /\ aiUsed \in BOOLEAN /\ cursor \in Cursor /\ placed \in Seq(Spot)
    /\ drafting \in {"choose", "read"} => Offer(candidates)
    /\ drafting \in {"pack", "saved"} => Chosen(selected, aiUsed) /\ Len(placed) <= Len(selected)
    /\ drafting \in {"profile", "choose", "read"} => placed = <<>>
    /\ drafting = "saved" => Len(placed) = Len(selected)
    /\ Packed(placed, cursor)

LEMMA DraftSteps ==
    ASSUME [NextAll]_all, subject' = "generator"
    PROVE  subject = "generator" /\ [G!Next]_(G!vars)
  <1>1. CASE NextAll
    BY <1>1 DEF NextAll
  <1>2. CASE UNCHANGED all
    BY <1>2 DEF all, draftVars, G!vars
  <1> QED BY <1>1, <1>2

LEMMA DraftStart == G!Init => DraftInv
  <1> SUFFICES ASSUME G!Init PROVE DraftInv
    OBVIOUS
  <1>1. /\ drafting = "profile" /\ candidates = <<>> /\ selected = <<>> /\ placed = <<>>
        /\ left = 0 /\ aiUsed = FALSE /\ cursor = [x |-> 0, y |-> 0, row |-> 0]
    BY DEF G!Init, G!Start
  <1>2. cursor \in Cursor /\ placed \in Seq(Spot) /\ left \in 0..MaxReply
    BY <1>1, ColumnsAssumption DEF Cursor
  <1>3. Packed(placed, cursor)
    BY <1>1 DEF Packed
  <1>4. candidates \in Seq(G!Types) /\ selected \in Seq(G!Types)
    BY <1>1
  <1>5. drafting \notin {"choose", "read", "pack", "saved"} /\ aiUsed \in BOOLEAN
    BY <1>1
  <1> QED BY <1>1, <1>2, <1>3, <1>4, <1>5, Zenon DEF DraftInv

---------------------------------------------------------------------------
(* The candidates and the choice among them. *)

LEMMA Repeated ==
    ASSUME NEW n \in Nat, NEW t \in G!Types
    PROVE  /\ G!Times(n, t) \in Seq(G!Types) /\ Len(G!Times(n, t)) = n
           /\ \A i \in 1..n : G!Times(n, t)[i] = t
  BY DEF G!Times

\* Two runs of one type each, and a table.
LEMMA TableLast ==
    ASSUME NEW a \in Nat, NEW b \in Nat, NEW s,
           s = G!Times(a, "kpi") \o G!Times(b, "chart") \o <<"table">>
    PROVE  s \in Seq(G!Types) /\ Len(s) = a + b + 1 /\ G!Count(s, "table") = 1
  <1> DEFINE k == G!Times(a, "kpi")
             c == G!Times(b, "chart")
  <1>1. /\ k \in Seq(G!Types) /\ Len(k) = a /\ \A i \in 1..a : k[i] = "kpi"
        /\ c \in Seq(G!Types) /\ Len(c) = b /\ \A i \in 1..b : c[i] = "chart"
    BY Repeated DEF G!Types
  <1> HIDE DEF k, c
  <1>2. k \in Seq(G!Types) /\ Len(k) = a /\ c \in Seq(G!Types) /\ Len(c) = b
    BY <1>1
  <1> DEFINE m == k \o c
  <1>3. /\ m \in Seq(G!Types) /\ Len(m) = a + b
        /\ \A i \in 1..(a + b) : m[i] = IF i <= a THEN k[i] ELSE c[i - a]
    BY <1>2, ConcatProperties, Zenon
  <1>4. s = m \o <<"table">>
    BY DEF k, c
  <1> HIDE DEF m
  <1>9. ASSUME NEW i \in 1..(a + b) PROVE m[i] # "table"
    BY <1>1, <1>3
  <1>5. /\ s \in Seq(G!Types) /\ Len(s) = a + b + 1 /\ s[a + b + 1] = "table"
        /\ \A i \in 1..(a + b) : s[i] # "table"
    <2> DEFINE t == <<"table">>
    <2>1. t \in Seq(G!Types) /\ Len(t) = 1 /\ t[1] = "table" /\ s = m \o t
      BY <1>4 DEF G!Types
    <2> HIDE DEF t
    <2>2. /\ m \o t \in Seq(G!Types) /\ Len(m \o t) = Len(m) + Len(t)
          /\ \A i \in 1..Len(m) + Len(t) : (m \o t)[i] = IF i <= Len(m) THEN m[i] ELSE t[i - Len(m)]
      BY <1>3, <2>1, ConcatProperties, Zenon
    <2>3. /\ s \in Seq(G!Types) /\ Len(s) = (a + b) + 1
          /\ \A i \in 1..((a + b) + 1) : s[i] = IF i <= a + b THEN m[i] ELSE t[i - (a + b)]
      BY <1>3, <2>1, <2>2, Zenon
    <2> QED BY ONLY <1>9, <2>1, <2>3, a \in Nat, b \in Nat
  <1>6. {i \in DOMAIN s : s[i] = "table"} = {a + b + 1}
    BY <1>5
  <1>7. G!Cardinality({a + b + 1}) = Cardinality({a + b + 1})
    BY DEF G!Cardinality, Cardinality
  <1> QED BY <1>5, <1>6, <1>7, FS_Singleton DEF G!Count

\* select_fallback: two KPIs and three charts at most, and the table.
LEMMA FallbackIsChosen ==
    ASSUME Offer(candidates), candidates \in Seq(G!Types)
    PROVE  G!Fallback \in Seq(G!Types) /\ Chosen(G!Fallback, FALSE)
  <1> DEFINE N(t) == G!Count(candidates, t)
             a == IF N("kpi") < 2 THEN N("kpi") ELSE 2
             b == IF N("chart") < 3 THEN N("chart") ELSE 3
             s == G!Times(a, "kpi") \o G!Times(b, "chart") \o <<"table">>
             max == G!MaxWidgets
  <1>0. max = 6
    BY DEF G!MaxWidgets
  <1> HIDE DEF max
  <1>1. ASSUME NEW t PROVE N(t) \in Nat
    <2> DEFINE P == {i \in DOMAIN candidates : candidates[i] = t}
    <2>1. IsFiniteSet(DOMAIN candidates)
      <3>1. DOMAIN candidates = 1..Len(candidates) /\ Len(candidates) \in Nat
        OBVIOUS
      <3> QED BY <3>1, FS_Interval
    <2>2. P \subseteq DOMAIN candidates
      OBVIOUS
    <2> HIDE DEF P
    <2>3. Cardinality(P) \in Nat
      BY <2>1, <2>2, FS_Subset, FS_CardinalityType
    <2>4. G!Cardinality(P) = Cardinality(P)
      BY DEF G!Cardinality, Cardinality
    <2> QED BY <2>3, <2>4 DEF G!Count, P
  <1>2. N("table") = 1
    BY TableLast DEF Offer
  <1>3. a \in Nat /\ b \in Nat /\ a <= 2 /\ b <= 3
    BY <1>1
  <1>4. G!First(2, "kpi") = G!Times(a, "kpi") /\ G!First(3, "chart") = G!Times(b, "chart")
    BY DEF G!First
  <1>5. G!First(1, "table") = <<"table">>
    <2>1. G!First(1, "table") = G!Times(1, "table")
      BY <1>2 DEF G!First
    <2> QED BY <2>1 DEF G!Times
  <1> HIDE DEF N, a, b
  <1>6. s \in Seq(G!Types) /\ Len(s) = a + b + 1 /\ G!Count(s, "table") = 1
    BY <1>3, TableLast
  <1>7. G!Fallback = G!Truncated(s, max)
    BY <1>4, <1>5 DEF G!Fallback, max
  <1> HIDE DEF s
  <1>8. Len(s) >= 1 /\ Len(s) <= max /\ max \in Nat
    BY <1>0, <1>3, <1>6
  <1>9. G!Truncated(s, max) = s
    <2>1. G!Truncated(s, max) = SubSeq(s, 1, Len(s))
      <3>1. Len(s) < max \/ Len(s) = max
        BY <1>6, <1>8
      <3> QED BY <3>1, Zenon DEF G!Truncated
    <2> QED BY <1>6, <2>1
  <1> QED BY <1>6, <1>7, <1>8, <1>9 DEF Chosen, max

LEMMA FallsBack ==
    ASSUME DraftInv, drafting \in {"choose", "read"}, G!FallBack
    PROVE  DraftInv'
  <1>1. /\ drafting' = "pack" /\ selected' = G!Fallback /\ aiUsed' = FALSE /\ candidates' = <<>>
        /\ UNCHANGED <<left, cursor, placed>>
    BY DEF G!FallBack
  <1>2. G!Fallback \in Seq(G!Types) /\ Chosen(G!Fallback, FALSE) /\ placed = <<>>
    BY FallbackIsChosen DEF DraftInv
  <1>3. Len(placed') <= Len(selected')
    BY <1>1, <1>2 DEF Chosen
  <1>4. left \in 0..MaxReply /\ cursor \in Cursor /\ placed \in Seq(Spot) /\ Packed(placed, cursor)
    BY DEF DraftInv
  <1>5. /\ drafting' \in {"profile", "choose", "read", "pack", "saved", "failed"}
        /\ drafting' \notin {"profile", "choose", "read", "saved"}
    BY ONLY <1>1
  <1>7. candidates' \in Seq(G!Types)
    BY ONLY <1>1
  <1>8. selected' \in Seq(G!Types) /\ aiUsed' \in BOOLEAN
    BY <1>1, <1>2, Zenon
  <1>6. Chosen(selected', aiUsed')
    BY <1>1, <1>2, Zenon
  <1> QED BY <1>1, <1>3, <1>4, <1>5, <1>6, <1>7, <1>8 DEF DraftInv

---------------------------------------------------------------------------
(* The grid. *)

LEMMA Sizes ==
    \A t \in G!Types : G!Width[t] \in {3, 6, 12} /\ G!Height[t] \in {2, 4}
  BY DEF G!Types, G!Width, G!Height

\* One more widget: where the cursor is, or at the start of the next row.
LEMMA Placed ==
    ASSUME NEW w \in G!Types, NEW c \in Cursor, NEW s \in Seq(Spot), Packed(s, c),
           NEW from, NEW next, NEW p,
           from = IF c.x + G!Width[w] > 12 THEN [x |-> 0, y |-> c.y + c.row, row |-> 0] ELSE c,
           next = [from EXCEPT !.x = @ + G!Width[w],
                               !.row = IF @ < G!Height[w] THEN G!Height[w] ELSE @],
           p = [type |-> w, x |-> from.x, y |-> from.y]
    PROVE  next \in Cursor /\ Append(s, p) \in Seq(Spot) /\ Packed(Append(s, p), next)
  <1> DEFINE W == G!Width[w]
             H == G!Height[w]
  <1>1. W \in {3, 6, 12} /\ H \in {2, 4}
    BY Sizes
  <1> HIDE DEF W, H
  <1>2. c.x \in 0..12 /\ c.y \in Nat /\ c.row \in {0, 2, 4}
    BY DEF Cursor
  <1>3. from \in Cursor /\ from.x + W <= 12
    BY <1>1, <1>2 DEF Cursor, W
  <1>4. \A i \in 1..Len(s) : Behind(s[i], from)
    <2> TAKE i \in 1..Len(s)
    <2>1. s[i] \in Spot /\ Behind(s[i], c)
      BY DEF Packed
    <2>2. s[i].y \in Nat /\ G!Height[s[i].type] \in {2, 4}
      BY <2>1, Sizes DEF Spot
    <2>3. CASE from = c
      BY <2>1, <2>3
    <2>4. CASE from = [x |-> 0, y |-> c.y + c.row, row |-> 0]
      <3>1. from.y = c.y + c.row
        BY <2>4
      <3>2. s[i].y + G!Height[s[i].type] <= from.y
        BY <1>2, <2>1, <2>2, <3>1 DEF Behind
      <3> QED BY <3>2 DEF Behind
    <2> QED BY <2>3, <2>4
  <1>5. /\ from.x \in 0..12 /\ from.y \in Nat /\ from.row \in {0, 2, 4}
        /\ next = [from EXCEPT !.x = from.x + W, !.row = IF from.row < H THEN H ELSE from.row]
    BY <1>3 DEF Cursor, W, H
  <1>6. /\ next.x = from.x + W /\ next.y = from.y /\ next.row \in {2, 4}
        /\ next.row >= H /\ next.row >= from.row
    <2> DEFINE row == IF from.row < H THEN H ELSE from.row
    <2>1. row \in {2, 4} /\ row >= H /\ row >= from.row
      BY <1>1, <1>5
    <2>2. next.x = from.x + W /\ next.y = from.y /\ next.row = row
      BY <1>3, <1>5 DEF Cursor
    <2> HIDE DEF row
    <2> QED BY <2>1, <2>2
  <1>7. next \in Cursor
    <2>1. next = [x |-> from.x + W, y |-> from.y, row |-> next.row]
      BY <1>3, <1>5, <1>6 DEF Cursor
    <2>2. from.x + W \in 0..12 /\ from.y \in Nat /\ next.row \in {0, 2, 4}
      BY <1>1, <1>3, <1>5, <1>6
    <2> QED BY <2>1, <2>2 DEF Cursor
  <1>8. p \in Spot /\ p.type = w /\ p.x = from.x /\ p.y = from.y
    BY <1>5 DEF Spot
  <1>9. /\ Append(s, p) \in Seq(Spot) /\ Len(Append(s, p)) = Len(s) + 1
        /\ Append(s, p)[Len(s) + 1] = p /\ \A i \in 1..Len(s) : Append(s, p)[i] = s[i]
    BY <1>8
  <1>10. \A i \in 1..Len(s) : Behind(s[i], next) /\ Before(s[i], p)
    <2> TAKE i \in 1..Len(s)
    <2>1. s[i] \in Spot /\ Behind(s[i], from)
      BY <1>4
    <2>2. /\ s[i].y \in Nat /\ s[i].x \in 0..12
          /\ G!Height[s[i].type] \in {2, 4} /\ G!Width[s[i].type] \in {3, 6, 12}
      BY <2>1, Sizes DEF Spot
    <2>3. Behind(s[i], next)
      <3>0. /\ from.x \in Nat /\ W \in Nat /\ next.x = from.x + W
            /\ next.row \in {2, 4} /\ from.row \in {0, 2, 4}
        BY <1>1, <1>5, <1>6
      <3>1. next.row \in Nat /\ next.x \in Nat /\ from.row \in Nat /\ next.x >= from.x
        BY ONLY <3>0
      <3>2. from.x \in Nat /\ from.y \in Nat
        BY <1>5
      <3>3. CASE s[i].y + G!Height[s[i].type] <= from.y
        BY <1>6, <3>3 DEF Behind
      <3>4. CASE /\ s[i].y = from.y /\ s[i].x + G!Width[s[i].type] <= from.x
                 /\ G!Height[s[i].type] <= from.row
        <4>0. next.x >= from.x /\ next.row >= from.row
          BY <1>6, <3>1
        <4>1. s[i].x + G!Width[s[i].type] \in Nat /\ G!Height[s[i].type] \in Nat
          <5>1. G!Width[s[i].type] \in Nat /\ G!Height[s[i].type] \in Nat /\ s[i].x \in Nat
            BY <2>2
          <5> QED BY ONLY <5>1
        <4>2. \A u, v, z \in Nat : u <= v /\ z >= v => u <= z
          OBVIOUS
        <4>3. /\ s[i].x + G!Width[s[i].type] <= next.x
              /\ G!Height[s[i].type] <= next.row
          BY <3>1, <3>2, <3>4, <4>0, <4>1, <4>2, Zenon
        <4> QED BY <1>6, <3>4, <4>3 DEF Behind
      <3> QED BY <2>1, <3>3, <3>4 DEF Behind
    <2>4. Before(s[i], p)
      BY <1>8, <2>1 DEF Behind, Before
    <2> QED BY <2>3, <2>4
  <1>11. p.x + G!Width[p.type] <= 12 /\ Behind(p, next)
    <2>1. G!Width[p.type] = W /\ G!Height[p.type] = H
      BY <1>8 DEF W, H
    <2>2. p.y = next.y /\ p.x + W <= next.x /\ H <= next.row
      <3>1. from.x + W \in Nat
        BY <1>1, <1>5
      <3> QED BY <1>1, <1>6, <1>8, <3>1
    <2> QED BY <1>3, <1>8, <2>1, <2>2 DEF Behind
  <1> DEFINE t == Append(s, p)
  <1>12. Len(s) \in Nat /\ t \in Seq(Spot) /\ Len(t) = Len(s) + 1
    BY <1>9
  <1> HIDE DEF t
  <1>13. \A i \in 1..Len(t) : t[i].x + G!Width[t[i].type] <= 12 /\ Behind(t[i], next)
    <2> TAKE i \in 1..Len(t)
    <2>1. CASE i = Len(s) + 1
      BY <1>9, <1>11, <2>1 DEF t
    <2>2. CASE i \in 1..Len(s)
      BY <1>9, <1>10, <2>2 DEF t, Packed
    <2> QED BY <1>12, <2>1, <2>2
  <1>14. \A i, j \in 1..Len(t) : i < j => Before(t[i], t[j])
    <2> SUFFICES ASSUME NEW i \in 1..Len(t), NEW j \in 1..Len(t), i < j PROVE Before(t[i], t[j])
      OBVIOUS
    <2>1. i \in 1..Len(s)
      BY <1>12
    <2>2. CASE j = Len(s) + 1
      BY <1>9, <1>10, <2>1, <2>2 DEF t
    <2>3. CASE j \in 1..Len(s)
      BY <1>9, <2>1, <2>3 DEF t, Packed
    <2> QED BY <1>12, <2>2, <2>3
  <1> QED BY <1>7, <1>12, <1>13, <1>14 DEF t, Packed

\* A widget that is before another does not overlap it.
LEMMA BeforeIsApart ==
    ASSUME NEW p \in Spot, NEW q \in Spot, Before(p, q)
    PROVE  /\ G!Cells(p) \cap G!Cells(q) = {}
           /\ p.y < q.y \/ (p.y = q.y /\ p.x < q.x)
  <1>1. /\ p.x \in Nat /\ p.y \in Nat /\ q.x \in Nat /\ q.y \in Nat
        /\ p.type \in G!Types /\ q.type \in G!Types
    BY DEF Spot
  <1> DEFINE w == G!Width[p.type]
             h == G!Height[p.type]
             v == G!Width[q.type]
             g == G!Height[q.type]
  <1>2. w \in {3, 6, 12} /\ v \in {3, 6, 12} /\ h \in {2, 4} /\ g \in {2, 4}
    BY <1>1, Sizes
  <1>3. p.y + h <= q.y \/ (p.y = q.y /\ p.x + w <= q.x)
    BY DEF Before
  <1>4. /\ G!Cells(p) = (p.x .. p.x + w - 1) \X (p.y .. p.y + h - 1)
        /\ G!Cells(q) = (q.x .. q.x + v - 1) \X (q.y .. q.y + g - 1)
    BY DEF G!Cells
  <1> HIDE DEF w, h, v, g
  <1>5. \/ (p.x .. p.x + w - 1) \cap (q.x .. q.x + v - 1) = {}
        \/ (p.y .. p.y + h - 1) \cap (q.y .. q.y + g - 1) = {}
    BY <1>1, <1>2, <1>3
  <1>6. G!Cells(p) \cap G!Cells(q) = {}
    BY <1>4, <1>5
  <1> QED BY <1>1, <1>2, <1>3, <1>6

LEMMA OnTheGrid ==
    ASSUME NEW p \in Spot, p.x + G!Width[p.type] <= 12
    PROVE  G!Cells(p) \subseteq (0..11) \X Nat
  <1>1. /\ p.x \in Nat /\ p.y \in Nat /\ G!Width[p.type] \in {3, 6, 12}
        /\ G!Height[p.type] \in {2, 4}
    BY Sizes DEF Spot
  <1>2. /\ (p.x .. p.x + G!Width[p.type] - 1) \subseteq 0..11
        /\ (p.y .. p.y + G!Height[p.type] - 1) \subseteq Nat
    BY <1>1
  <1> QED BY <1>2 DEF G!Cells

---------------------------------------------------------------------------

LEMMA DraftStep == DraftInv /\ [G!Next]_(G!vars) => DraftInv'
  <1> SUFFICES ASSUME DraftInv, [G!Next]_(G!vars) PROVE DraftInv'
    OBVIOUS
  <1>1. CASE G!BuildCandidates
    <2>1. PICK nums \in 0..MaxColumns, cats \in 0..MaxColumns, dates \in 0..MaxColumns :
                \E valued \in 0..nums : candidates' = G!Candidates(nums, valued, cats, dates)
      BY <1>1 DEF G!BuildCandidates
    <2>2. PICK valued \in 0..nums : candidates' = G!Candidates(nums, valued, cats, dates)
      BY <2>1
    <2> DEFINE b == G!ChartCount(nums, cats, dates)
    <2>3. valued \in Nat /\ b \in Nat
      BY ColumnsAssumption DEF G!ChartCount
    <2>4. candidates' = G!Times(valued, "kpi") \o G!Times(b, "chart") \o <<"table">>
      BY <2>2 DEF G!Candidates
    <2> HIDE DEF b
    <2>5. candidates' \in Seq(G!Types) /\ Offer(candidates')
      BY <2>3, <2>4, TableLast DEF Offer
    <2>6. /\ drafting = "profile" /\ drafting' = "choose"
          /\ UNCHANGED <<selected, left, aiUsed, cursor, placed>>
      BY <1>1 DEF G!BuildCandidates
    <2> QED BY <2>5, <2>6 DEF DraftInv
  <1>2. CASE G!Unusable
    BY <1>2, FallsBack DEF G!Unusable
  <1>3. CASE G!Crash
    BY <1>3 DEF G!Crash, DraftInv
  <1>4. CASE G!Reply
    BY <1>4 DEF G!Reply, DraftInv
  <1>5. CASE G!ReadEntry
    <2>1. PICK i \in {0} \cup DOMAIN candidates :
                selected' = IF i = 0 THEN selected ELSE Append(selected, candidates[i])
      BY <1>5 DEF G!ReadEntry
    <2>2. selected' \in Seq(G!Types)
      BY <2>1 DEF DraftInv
    <2>3. /\ drafting = "read" /\ left' \in 0..MaxReply
          /\ UNCHANGED <<drafting, candidates, aiUsed, cursor, placed>>
      BY <1>5, ColumnsAssumption DEF G!ReadEntry, DraftInv
    <2> QED BY <2>2, <2>3 DEF DraftInv
  <1>6. CASE G!EndOfReply
    <2>1. CASE selected = <<>>
      BY <1>6, <2>1, FallsBack DEF G!EndOfReply
    <2>2. CASE selected # <<>>
      <3>1. /\ drafting = "read" /\ drafting' = "pack" /\ selected' = G!Kept(selected)
            /\ aiUsed' = TRUE /\ candidates' = <<>> /\ UNCHANGED <<left, cursor, placed>>
        BY <1>6, <2>2 DEF G!EndOfReply
      <3>2. selected \in Seq(G!Types) /\ Len(selected) \in Nat \ {0} /\ placed = <<>>
        BY <2>2, <3>1 DEF DraftInv
      <3>3. /\ G!Kept(selected) \in Seq(G!Types)
            /\ Len(G!Kept(selected)) >= 1 /\ Len(G!Kept(selected)) <= G!MaxWidgets
        <4> DEFINE max == G!MaxWidgets
                   n == IF Len(selected) < max THEN Len(selected) ELSE max
        <4>1. max \in Nat \ {0}
          BY DEF G!MaxWidgets
        <4> HIDE DEF max
        <4>2. n \in 1..Len(selected) /\ n <= max
          BY <3>2, <4>1
        <4>3. G!Kept(selected) = SubSeq(selected, 1, n)
          BY Zenon DEF G!Kept, G!Truncated, max
        <4> HIDE DEF n
        <4>4. SubSeq(selected, 1, n) \in Seq(G!Types) /\ Len(SubSeq(selected, 1, n)) = n
          BY <3>2, <4>2
        <4> QED BY <4>2, <4>3, <4>4 DEF max
      <3>4. Len(placed') <= Len(selected')
        BY <3>1, <3>2, <3>3
      <3> QED BY <3>1, <3>2, <3>3, <3>4 DEF DraftInv, Chosen
    <2> QED BY <2>1, <2>2
  <1>7. CASE G!Place
    <2> DEFINE w == selected[Len(placed) + 1]
               from == G!Wrapped(w)
               next == G!Beyond(from, w)
               p == [type |-> w, x |-> from.x, y |-> from.y]
    <2>1. /\ drafting = "pack" /\ Len(placed) < Len(selected)
          /\ placed' = Append(placed, p) /\ cursor' = next
          /\ UNCHANGED <<drafting, candidates, selected, left, aiUsed>>
      BY <1>7 DEF G!Place
    <2>2. w \in G!Types /\ cursor \in Cursor /\ placed \in Seq(Spot) /\ Packed(placed, cursor)
      BY <2>1 DEF DraftInv
    <2>3. from = IF cursor.x + G!Width[w] > 12
                 THEN [x |-> 0, y |-> cursor.y + cursor.row, row |-> 0] ELSE cursor
      BY DEF G!Wrapped, G!GridCols
    <2>4. next = [from EXCEPT !.x = @ + G!Width[w],
                              !.row = IF @ < G!Height[w] THEN G!Height[w] ELSE @]
      BY DEF G!Beyond, G!Row
    <2>5. p = [type |-> w, x |-> from.x, y |-> from.y]
      OBVIOUS
    <2> HIDE DEF w, from, next, p
    <2>6. next \in Cursor /\ Append(placed, p) \in Seq(Spot) /\ Packed(Append(placed, p), next)
      <3>1. \A f, m, q :
              /\ f = IF cursor.x + G!Width[w] > 12
                     THEN [x |-> 0, y |-> cursor.y + cursor.row, row |-> 0] ELSE cursor
              /\ m = [f EXCEPT !.x = @ + G!Width[w],
                               !.row = IF @ < G!Height[w] THEN G!Height[w] ELSE @]
              /\ q = [type |-> w, x |-> f.x, y |-> f.y]
              => m \in Cursor /\ Append(placed, q) \in Seq(Spot) /\ Packed(Append(placed, q), m)
        BY ONLY <2>2, Placed, Zenon
      <3> QED BY ONLY <2>3, <2>4, <2>5, <3>1, Zenon
    <2>7. Len(placed') <= Len(selected')
      BY <2>1, <2>2 DEF DraftInv
    <2> QED BY <2>1, <2>6, <2>7 DEF DraftInv
  <1>8. CASE G!Save
    BY <1>8 DEF G!Save, DraftInv
  <1>9. CASE UNCHANGED G!vars
    BY <1>9 DEF G!vars, DraftInv
  <1> QED BY <1>1, <1>2, <1>3, <1>4, <1>5, <1>6, <1>7, <1>8, <1>9 DEF G!Next

\* A dashboard that is saved has one to six widgets that fit the grid, do not overlap and read in
\* the order they were chosen, the table once among those the rule chose, whatever the columns are
\* and the language model replies (services/dashboard_generator.py: select_fallback, pack_layout).
THEOREM LayoutStaysSound == SpecAll => []LayoutIsSound
  <1> DEFINE Inv == subject = "generator" => DraftInv
  <1>1. InitAll => Inv
    BY DraftStart DEF InitAll
  <1>2. Inv /\ [NextAll]_all => Inv'
    BY DraftSteps, DraftStep
  <1>3. ASSUME DraftInv, drafting = "saved" PROVE G!LayoutIsSound
    <2>1. /\ Chosen(selected, aiUsed) /\ Len(placed) = Len(selected) /\ Packed(placed, cursor)
          /\ placed \in Seq(Spot)
      BY <1>3 DEF DraftInv
    <2>2. \A i \in DOMAIN placed : G!Cells(placed[i]) \subseteq (0..G!GridCols - 1) \X Nat
      BY <2>1, OnTheGrid DEF Packed, G!GridCols
    <2>3. \A i, j \in DOMAIN placed : i < j =>
             /\ G!Cells(placed[i]) \cap G!Cells(placed[j]) = {}
             /\ \/ placed[i].y < placed[j].y
                \/ placed[i].y = placed[j].y /\ placed[i].x < placed[j].x
      BY <2>1, BeforeIsApart DEF Packed
    <2>4. Len(placed) \in 1..G!MaxWidgets
      BY <2>1 DEF Chosen, G!MaxWidgets
    <2> QED BY <2>1, <2>2, <2>3, <2>4, Zenon DEF G!LayoutIsSound, Chosen
  <1>4. Inv => LayoutIsSound
    BY <1>3 DEF LayoutIsSound, G!LayoutIsSound
  <1> QED BY <1>1, <1>2, <1>4, PTL DEF SpecAll
===============================================================================
